------------------------------ MODULE OfficeProofs ------------------------------
(***************************************************************************)
(* What is true of the pages of Office, however many people, requests,     *)
(* items and pages there are: each page has an inductive invariant of its  *)
(* own, the steps of the other pages leave its state alone, and Office     *)
(* keeps them all.                                                         *)
(***************************************************************************)
EXTENDS Office, SequenceTheorems, FiniteSetTheorems, WellFoundedInduction, TLAPS

\* What is so of some number is so of a least one.
LEMMA LeastNumber ==
    ASSUME NEW T, T \subseteq Nat, T # {}
    PROVE  \E n \in T : \A m \in T : n <= m
<1>1. PICK n \in T : \A m \in T : ~ (<<m, n>> \in OpToRel(<, Nat))
  BY WFMin, NatLessThanWellFounded, Zenon
<1>2. \A m \in T : ~ (m < n)
  BY <1>1, Zenon DEF OpToRel
<1>3. \A m \in T : n <= m
  BY <1>2
<1>. QED BY <1>3, Zenon

-------------------------------------------------------------------------------
(* Support tickets: every answer is told to the other side.                  *)

Helpers == People \cup Supporters \cup {None}
TicketRows ==
    [owner : People, cat : Categories, sub : Categories \cup {0}, status : {"open", "pending",
      "closed"},
     urgent : BOOLEAN, assigned : Helpers, closedAt : BOOLEAN]
MessageRows == [ticket : Nat, author : People, internal : BOOLEAN, held : SUBSET Helpers,
  told : BOOLEAN]
NoteRows == [to : Helpers, notice : Nat, about : Nat, read : BOOLEAN, acked : BOOLEAN]

Telling(c) == desk[c].at \in {"assignee", "tell"}
Owner(m) == tickets[m.ticket].owner

TicketTypes ==
    /\ tickets \in Seq(TicketRows) /\ messages \in Seq(MessageRows) /\ notes \in Seq(NoteRows)
    /\ DOMAIN desk = Clerks
    /\ \A i \in DOMAIN messages : messages[i].ticket \in DOMAIN tickets
    /\ \A c \in Clerks :
          /\ desk[c].at \in {"write", "assignee"} => desk[c].by \in People
               /\ desk[c].ticket \in DOMAIN tickets
          /\ desk[c].at = "write" => desk[c].internal \in BOOLEAN
          /\ Telling(c) => desk[c].message \in DOMAIN messages
          /\ desk[c].at = "tell" => desk[c].to \in Helpers
          /\ desk[c].at = "assign" => desk[c].ticket \in DOMAIN tickets /\ desk[c].to \in Helpers

\* Whom a message will be told to, once that is read, is right whatever happens to the
\* ticket from then on.
RightSide(m, to) ==
    IF m.author # Owner(m) THEN to = Owner(m)
    ELSE to \in m.held \/ m.held \cap {None, Owner(m)} # {}

\* Each public message is told by the one request that wrote it, if at all; what is still
\* to be told has seen who holds its ticket.
TellingInv ==
    /\ \A c, d \in Clerks : Telling(c) /\ Telling(d) /\ desk[c].message = desk[d].message => c = d
    /\ \A c \in Clerks : Telling(c) =>
          LET m == messages[desk[c].message] IN
          /\ ~m.told /\ ~m.internal /\ m.held # {}
          /\ desk[c].at = "assignee" => m.author = desk[c].by /\ m.ticket = desk[c].ticket
          /\ desk[c].at = "tell" => RightSide(m, desk[c].to)
    /\ \A i \in Answers : ~messages[i].told => tickets[messages[i].ticket].assigned \in messages[i].held

\* Nobody is told of what is not there, or of a note of the staff's.
NotesInv == \A n \in DOMAIN notes : notes[n].about \in DOMAIN messages
  /\ ~messages[notes[n].about].internal

TicketsInv == TicketTypes /\ TellingInv /\ NotesInv /\ EveryAnswerTold

\* Before anything was written, and in the scenes of the other pages.
NoTickets == tickets = <<>> /\ messages = <<>> /\ desk = [c \in Clerks |-> AtRest]

LEMMA TicketsStart ==
    ASSUME NoTickets, notes = <<>> PROVE TicketsInv
BY DEF NoTickets, TicketsInv, TicketTypes, TellingInv, NotesInv, EveryAnswerTold, Answers, Telling,
   AtRest

\* Of each answer, alone.
Told1(i) ==
    LET m == messages[i] owner == Owner(m) IN
    m.told /\ ~m.internal =>
        IF m.author # owner THEN IsTold(owner, i)
        ELSE m.held \cap {None, owner} # {} \/ \E p \in m.held : IsTold(p, i)

LEMMA AnswersTold ==
    EveryAnswerTold <=>
        \A i \in Answers : /\ messages[i].internal => ~\E p \in People : IsTold(p, i)
                           /\ Told1(i)
BY DEF EveryAnswerTold, Told1, Owner

-----------------------------------------------------------------------------
LEMMA TicketsKeep ==
    ASSUME TicketsInv, TicketsNext \/ (UNCHANGED <<notes, ticketVars>>)
    PROVE  TicketsInv'
<1> USE DEF Then, AtRest, Telling
<1>0. TicketTypes /\ TellingInv /\ NotesInv /\ \A i \in Answers : Told1(i)
  BY AnswersTold DEF TicketsInv
<1>z. /\ DOMAIN tickets = 1 .. Len(tickets) /\ Len(tickets) \in Nat
      /\ DOMAIN messages = 1 .. Len(messages) /\ Len(messages) \in Nat
      /\ DOMAIN notes = 1 .. Len(notes) /\ Len(notes) \in Nat /\ DOMAIN desk = Clerks
      /\ \A i \in DOMAIN messages : messages[i] \in MessageRows
      /\ \A t \in DOMAIN tickets : tickets[t] \in TicketRows
  BY <1>0 DEF TicketTypes
\* What notes there are is enough to see that no note of the staff's is told.
<1>n. ASSUME TicketTypes', TellingInv', NotesInv', \A i \in Answers' : Told1(i)'
      PROVE  TicketsInv'
  <2>1. \A i \in Answers' : messages'[i].internal => ~\E p \in People : IsTold(p, i)'
    BY <1>n DEF NotesInv, IsTold
  <2>2. EveryAnswerTold'  BY <1>n, <2>1 DEF EveryAnswerTold, Told1, Owner
  <2> QED BY <1>n, <2>2 DEF TicketsInv
\* A request that tells nobody and writes nothing yet.
<1>i. ASSUME UNCHANGED <<tickets, messages, notes>>, NEW c \in Clerks, NEW q,
             desk' = [desk EXCEPT ![c] = q], q.at \notin {"assignee", "tell"},
             q.at = "write" => q.by \in People /\ q.ticket \in DOMAIN tickets /\ q.internal \in BOOLEAN,
             q.at = "assign" => q.ticket \in DOMAIN tickets /\ q.to \in Helpers
      PROVE  TicketsInv'
  <2>1. DOMAIN desk' = Clerks /\ desk'[c] = q /\ \A d \in Clerks \ {c} : desk'[d] = desk[d]
    BY <1>i, <1>z
  <2>2. TicketTypes'  BY <1>0, <1>i, <2>1 DEF TicketTypes
  <2>3. TellingInv'  BY <1>0, <1>i, <2>1 DEF TellingInv, RightSide, Owner, Answers
  <2>4. NotesInv'  BY <1>0, <1>i DEF NotesInv
  <2>5. \A i \in Answers' : Told1(i)'  BY <1>0, <1>i DEF Answers, Told1, IsTold, Owner
  <2> QED BY <1>n, <2>2, <2>3, <2>4, <2>5
\* A ticket changes, and not whose it is, nor who has it.
<1>t. ASSUME NEW t \in DOMAIN tickets, NEW row \in TicketRows, tickets' = [tickets EXCEPT ![t] = row],
             row.owner = tickets[t].owner, row.assigned = tickets[t].assigned,
             UNCHANGED <<messages, notes, desk>>
      PROVE  TicketsInv'
  <2>1. /\ tickets' \in Seq(TicketRows) /\ DOMAIN tickets' = DOMAIN tickets
        /\ \A x \in DOMAIN tickets : tickets'[x].owner = tickets[x].owner
             /\ tickets'[x].assigned = tickets[x].assigned
    BY <1>0, <1>t DEF TicketTypes
  <2>2. \A i \in DOMAIN messages : messages[i].ticket \in DOMAIN tickets  BY <1>0 DEF TicketTypes
  <2>3. TicketTypes'  BY <1>0, <1>t, <2>1 DEF TicketTypes
  <2>4. \A i \in DOMAIN messages : Owner(messages[i])' = Owner(messages[i])  BY <1>t, <2>1, <2>2
          DEF Owner
  <2>5. Answers' = Answers /\ Answers \subseteq DOMAIN messages  BY <1>t DEF Answers
  <2>6. TellingInv'
    <3>1. \A c \in Clerks : Telling(c) => desk[c].message \in DOMAIN messages  BY <1>0 DEF TicketTypes
    <3> QED BY <1>0, <1>t, <2>1, <2>2, <2>4, <2>5, <3>1 DEF TellingInv, RightSide
  <2>7. NotesInv'  BY <1>0, <1>t DEF NotesInv
  <2>8. \A i \in Answers' : Told1(i)'  BY <1>0, <1>t, <2>4, <2>5 DEF Told1, IsTold
  <2> QED BY <1>n, <2>3, <2>6, <2>7, <2>8
\* A ticket is somebody else's now, and each message that is being told sees it.
<1>h. ASSUME NEW t \in DOMAIN tickets, NEW row \in TicketRows, tickets' = [tickets EXCEPT ![t] = row],
             row.owner = tickets[t].owner, messages' = Holding(t, row.assigned),
             UNCHANGED notes, DOMAIN desk' = Clerks,
             \A c \in Clerks : desk'[c] = desk[c] \/ desk'[c].at = "idle"
      PROVE  TicketsInv'
  <2>1. /\ tickets' \in Seq(TicketRows) /\ DOMAIN tickets' = DOMAIN tickets
        /\ \A x \in DOMAIN tickets : tickets'[x].owner = tickets[x].owner
        /\ \A x \in DOMAIN tickets : tickets'[x].assigned = IF x = t THEN row.assigned
             ELSE tickets[x].assigned
    BY <1>0, <1>h DEF TicketTypes
  <2>2. \A i \in DOMAIN messages : messages[i].ticket \in DOMAIN tickets  BY <1>0 DEF TicketTypes
  <2>3. row.assigned \in Helpers  BY DEF TicketRows
  <2>4. DOMAIN messages' = DOMAIN messages  BY <1>h DEF Holding
  <2>5. \A i \in DOMAIN messages :
          /\ messages'[i] \in MessageRows
          /\ messages'[i].ticket = messages[i].ticket /\ messages'[i].author = messages[i].author
          /\ messages'[i].internal = messages[i].internal /\ messages'[i].told = messages[i].told
          /\ messages[i].held \subseteq messages'[i].held
          /\ messages[i].told => messages'[i].held = messages[i].held
          /\ messages[i].ticket = t /\ ~messages[i].told => row.assigned \in messages'[i].held
          /\ messages'[i].held # {} /\ messages[i].held = {} => messages[i].ticket = t
               /\ ~messages[i].told
    <3> SUFFICES ASSUME NEW i \in DOMAIN messages
                 PROVE  /\ messages'[i] \in MessageRows
                        /\ messages'[i].ticket = messages[i].ticket
                             /\ messages'[i].author = messages[i].author
                        /\ messages'[i].internal = messages[i].internal
                             /\ messages'[i].told = messages[i].told
                        /\ messages[i].held \subseteq messages'[i].held
                        /\ messages[i].told => messages'[i].held = messages[i].held
                        /\ messages[i].ticket = t
                             /\ ~messages[i].told => row.assigned \in messages'[i].held
                        /\ messages'[i].held # {} /\ messages[i].held = {} => messages[i].ticket = t
                             /\ ~messages[i].told
      OBVIOUS
    <3>1. messages[i] \in MessageRows  BY <1>z
    <3>2. messages'[i] = IF messages[i].ticket = t /\ ~messages[i].told
                         THEN [messages[i] EXCEPT !.held = messages[i].held \cup {row.assigned}]
                                ELSE messages[i]
      BY <1>h DEF Holding
    <3>a. PICK m \in MessageRows : m = messages[i]  BY <3>1
    <3>3. CASE m.ticket = t /\ ~m.told
      <4>1. PICK held \in SUBSET Helpers : held = m.held \cup {row.assigned}  BY <2>3 DEF MessageRows
      <4>2. messages'[i] = [m EXCEPT !.held = held]  BY <3>a, <3>2, <3>3, <4>1
      <4>3. [m EXCEPT !.held = held] \in MessageRows  BY DEF MessageRows
      <4>4. /\ [m EXCEPT !.held = held].ticket = m.ticket /\ [m EXCEPT !.held = held].author = m.author
            /\ [m EXCEPT !.held = held].internal = m.internal /\ [m EXCEPT !.held = held].told = m.told
            /\ [m EXCEPT !.held = held].held = held
        BY DEF MessageRows
      <4>5. m.held \subseteq held /\ row.assigned \in held  BY <4>1
      <4> HIDE <4>1
      <4> QED BY <3>a, <3>3, <4>2, <4>3, <4>4, <4>5
    <3>4. CASE ~(m.ticket = t /\ ~m.told)
      <4>1. messages'[i] = m  BY <3>a, <3>2, <3>4
      <4> QED BY <3>a, <3>4, <4>1
    <3> QED BY <3>3, <3>4
  <2>6. messages' \in Seq(MessageRows)
    <3>1. messages' = [i \in 1 .. Len(messages) |-> messages'[i]]  BY <1>h, <1>z DEF Holding
    <3>2. \A i \in 1 .. Len(messages) : messages'[i] \in MessageRows  BY <1>z, <2>5
    <3> QED BY <1>z, <3>1, <3>2
  <2>7. TicketTypes'
    <3>1. \A i \in DOMAIN messages' : messages'[i].ticket \in DOMAIN tickets'  BY <2>1, <2>2, <2>4, <2>5
    <3>2. \A c \in Clerks :
            /\ desk'[c].at \in {"write", "assignee"} => desk'[c].by \in People
                 /\ desk'[c].ticket \in DOMAIN tickets
            /\ desk'[c].at = "write" => desk'[c].internal \in BOOLEAN
            /\ Telling(c)' => desk'[c].message \in DOMAIN messages
            /\ desk'[c].at = "tell" => desk'[c].to \in Helpers
            /\ desk'[c].at = "assign" => desk'[c].ticket \in DOMAIN tickets /\ desk'[c].to \in Helpers
      <4> SUFFICES ASSUME NEW c \in Clerks
                   PROVE  /\ desk'[c].at \in {"write", "assignee"} => desk'[c].by \in People
                               /\ desk'[c].ticket \in DOMAIN tickets
                          /\ desk'[c].at = "write" => desk'[c].internal \in BOOLEAN
                          /\ Telling(c)' => desk'[c].message \in DOMAIN messages
                          /\ desk'[c].at = "tell" => desk'[c].to \in Helpers
                          /\ desk'[c].at = "assign" => desk'[c].ticket \in DOMAIN tickets
                               /\ desk'[c].to \in Helpers
        OBVIOUS
      <4>1. CASE desk'[c].at = "idle"  BY <4>1
      <4>2. CASE desk'[c] = desk[c]  BY <1>0, <4>2 DEF TicketTypes
      <4> QED BY <1>h, <4>1, <4>2
    <3>3. UNCHANGED notes  BY <1>h
    <3> QED BY <1>0, <1>h, <2>1, <2>4, <2>6, <3>1, <3>2, <3>3 DEF TicketTypes
  <2>8. \A i \in DOMAIN messages : Owner(messages[i])' = Owner(messages[i])  BY <2>1, <2>2, <2>5
          DEF Owner
  <2>9. TellingInv'
    <3>1. \A c \in Clerks : Telling(c)' => Telling(c) /\ desk'[c] = desk[c]
            /\ desk[c].message \in DOMAIN messages
      BY <1>0, <1>h DEF TicketTypes
    <3>2. ASSUME NEW c \in Clerks, Telling(c)'
          PROVE  LET m == messages'[desk'[c].message] IN
                 /\ ~m.told /\ ~m.internal /\ m.held # {}
                 /\ desk'[c].at = "assignee" => m.author = desk'[c].by /\ m.ticket = desk'[c].ticket
                 /\ desk'[c].at = "tell" => RightSide(messages[desk[c].message], desk[c].to)'
      <4>1. PICK i \in DOMAIN messages : i = desk[c].message  BY <3>1, <3>2
      <4>2. desk'[c] = desk[c] /\ Telling(c)  BY <3>1, <3>2
      <4>3. /\ ~messages[i].told /\ ~messages[i].internal /\ messages[i].held # {}
            /\ desk[c].at = "assignee" => messages[i].author = desk[c].by
                 /\ messages[i].ticket = desk[c].ticket
            /\ desk[c].at = "tell" => RightSide(messages[i], desk[c].to)
        BY <1>0, <4>1, <4>2 DEF TellingInv
      <4>4. desk[c].at = "tell" => RightSide(messages[i], desk[c].to)'
        BY <2>5, <2>8, <4>2, <4>3 DEF RightSide
      <4> QED BY <2>5, <4>1, <4>2, <4>3, <4>4 DEF RightSide, Owner
    <3>3. ASSUME NEW i \in Answers', ~messages'[i].told
          PROVE  tickets'[messages'[i].ticket].assigned \in messages'[i].held
      <4>1. i \in DOMAIN messages /\ messages'[i].held # {}  BY <2>4 DEF Answers
      <4>2. i \notin Answers => messages[i].ticket = t  BY <2>5, <4>1 DEF Answers
      <4>3. ~messages[i].told  BY <2>5, <3>3, <4>1
      <4>4. CASE messages[i].ticket = t  BY <2>1, <2>5, <4>1, <4>3, <4>4
      <4>5. CASE messages[i].ticket # t
        <5>1. tickets[messages[i].ticket].assigned \in messages[i].held
          BY <1>0, <4>2, <4>3, <4>5 DEF TellingInv
        <5> QED BY <2>1, <2>2, <2>5, <4>1, <4>5, <5>1
      <4> QED BY <4>4, <4>5
    <3>4. \A c, d \in Clerks : Telling(c)' /\ Telling(d)'
            /\ desk'[c].message = desk'[d].message => c = d
      BY <1>0, <3>1 DEF TellingInv
    <3> QED BY <3>2, <3>3, <3>4 DEF TellingInv
  <2>10. NotesInv'  BY <1>0, <1>h, <2>4, <2>5 DEF NotesInv
  <2>11. ASSUME NEW i \in Answers' PROVE Told1(i)'
    <3>1. i \in DOMAIN messages /\ messages'[i].held # {}  BY <2>4 DEF Answers
    <3>2. i \notin Answers => ~messages[i].told  BY <2>5, <3>1 DEF Answers
    <3>3. CASE ~messages'[i].told  BY <3>3 DEF Told1
    <3>4. CASE messages'[i].told
      <4>1. messages'[i].held = messages[i].held /\ messages[i].told  BY <2>5, <3>1, <3>4
      <4>2. Told1(i)  BY <1>0, <3>2, <4>1
      <4>3. Owner(messages[i])' = Owner(messages[i])  BY <2>8, <3>1
      <4>4. \A p : IsTold(p, i) => IsTold(p, i)'  BY <1>h DEF IsTold
      <4> QED BY <2>5, <3>1, <4>1, <4>2, <4>3, <4>4 DEF Told1
    <3> QED BY <3>3, <3>4
  <2> QED BY <1>n, <2>7, <2>9, <2>10, <2>11

<1>1. ASSUME NEW p \in People, NEW cat \in Categories \cup {0}, NEW sub \in Categories \cup {0},
             NEW urgent \in BOOLEAN, CreateTicket(p, cat, sub, urgent)
      PROVE  TicketsInv'
  <2>1. PICK row : row = [owner |-> p, cat |-> cat, sub |-> sub, status |-> "open",
                          urgent |-> urgent, assigned |-> None, closedAt |-> FALSE]
    OBVIOUS
  <2>2. row \in TicketRows  BY <1>1, <2>1 DEF CreateTicket, ValidPair, TicketRows, Helpers
  <2>3. PICK new : new = Message(Len(tickets) + 1, p, FALSE, TRUE)  OBVIOUS
  <2>4. new \in MessageRows /\ new.ticket = Len(tickets) + 1 /\ new.held = {} /\ ~new.internal
    BY <1>z, <2>3 DEF Message, MessageRows
  <2>5. tickets' = Append(tickets, row) /\ messages' = Append(messages, new)
          /\ UNCHANGED <<desk, notes>>
    BY <1>1, <2>1, <2>3 DEF CreateTicket, noticeVars
  <2>6. /\ tickets' \in Seq(TicketRows) /\ DOMAIN tickets' = 1 .. Len(tickets) + 1
        /\ \A x \in DOMAIN tickets : tickets'[x] = tickets[x]
    <3>1. tickets \in Seq(TicketRows)  BY <1>0 DEF TicketTypes
    <3> QED BY <2>2, <2>5, <3>1, <1>z
  <2>7. /\ messages' \in Seq(MessageRows) /\ DOMAIN messages' = 1 .. Len(messages) + 1
        /\ \A x \in DOMAIN messages : messages'[x] = messages[x]
        /\ messages'[Len(messages) + 1] = new
    <3>1. messages \in Seq(MessageRows)  BY <1>0 DEF TicketTypes
    <3> QED BY <2>4, <2>5, <3>1, <1>z
  <2>8. DOMAIN tickets \subseteq DOMAIN tickets' /\ DOMAIN messages \subseteq DOMAIN messages'
        /\ Len(tickets) + 1 \in DOMAIN tickets'
        /\ \A i \in DOMAIN messages' : i \in DOMAIN messages \/ i = Len(messages) + 1
    BY <1>z, <2>6, <2>7
  <2>9. TicketTypes'  BY <1>0, <2>4, <2>5, <2>6, <2>7, <2>8 DEF TicketTypes
  <2>10. Answers' = Answers  BY <2>4, <2>7, <2>8 DEF Answers
  <2>11. \A i \in DOMAIN messages : messages[i].ticket \in DOMAIN tickets  BY <1>0 DEF TicketTypes
  <2>12. \A i \in DOMAIN messages : Owner(messages[i])' = Owner(messages[i])  BY <2>6, <2>7, <2>11
           DEF Owner
  <2>13. TellingInv'
    <3>1. \A c \in Clerks : Telling(c) => desk[c].message \in DOMAIN messages  BY <1>0 DEF TicketTypes
    <3>2. Answers \subseteq DOMAIN messages  BY DEF Answers
    <3> QED BY <1>0, <2>5, <2>6, <2>7, <2>10, <2>11, <2>12, <3>1, <3>2 DEF TellingInv, RightSide
  <2>14. NotesInv'  BY <1>0, <2>5, <2>7, <2>8 DEF NotesInv
  <2>15. \A i \in Answers' : Told1(i)'
    <3>1. Answers \subseteq DOMAIN messages  BY DEF Answers
    <3> QED BY <1>0, <2>5, <2>7, <2>10, <2>12, <3>1 DEF Told1, IsTold
  <2> QED BY <1>n, <2>9, <2>13, <2>14, <2>15
<1>2. ASSUME NEW c \in Clerks, NEW t \in DOMAIN tickets, NEW p \in People, Eligible(c, t, p)
      PROVE  TicketsInv'
  <2>1. PICK q : q = [at |-> "assign", ticket |-> t, to |-> p]  OBVIOUS
  <2>2. desk' = [desk EXCEPT ![c] = q] /\ UNCHANGED <<tickets, messages, notes>>
    BY <1>2, <2>1 DEF Eligible, noticeVars
  <2>3. q.at = "assign" /\ q.ticket \in DOMAIN tickets /\ q.to \in Helpers  BY <2>1 DEF Helpers
  <2> QED BY <1>i, <2>2, <2>3
<1>3. ASSUME NEW c \in Clerks, NEW t \in DOMAIN tickets, NEW p \in People, NEW note \in BOOLEAN,
               Reply(c, p, t, note)
      PROVE  TicketsInv'
  <2>0. PICK b \in BOOLEAN : b = (note /\ WorksSupport(p))  OBVIOUS
  <2>1. PICK q : q = [at |-> "write", by |-> p, ticket |-> t, internal |-> b]  OBVIOUS
  <2>2. desk' = [desk EXCEPT ![c] = q] /\ UNCHANGED <<tickets, messages, notes>>
    BY <1>3, <2>0, <2>1 DEF Reply, noticeVars
  <2>3. q.at = "write" /\ q.by \in People /\ q.ticket \in DOMAIN tickets
          /\ q.internal \in BOOLEAN  BY <2>1
  <2> QED BY <1>i, <2>2, <2>3
<1>4. ASSUME NEW c \in Clerks, Write(c)
      PROVE  TicketsInv'
  <2> DEFINE t == desk[c].ticket
             p == desk[c].by
             internal == desk[c].internal
             j == Len(messages) + 1
  <2>1. t \in DOMAIN tickets /\ p \in People /\ internal \in BOOLEAN /\ desk[c].at = "write"
    BY <1>0, <1>4 DEF Write, TicketTypes
  <2>2. PICK new : new = [Message(t, p, internal,
          internal) EXCEPT !.held = {tickets[t].assigned}]  OBVIOUS
  <2>3. /\ new \in MessageRows /\ new.ticket = t /\ new.author = p /\ new.held = {tickets[t].assigned}
        /\ new.internal = internal /\ new.told = internal
    <3>1. tickets[t].assigned \in Helpers  BY <1>z, <2>1 DEF TicketRows
    <3>2. t \in Nat  BY <1>z, <2>1
    <3>3. new = [ticket |-> t, author |-> p, internal |-> internal, held |-> {tickets[t].assigned},
            told |-> internal]
      BY <2>2 DEF Message
    <3> QED BY <2>1, <3>1, <3>2, <3>3 DEF MessageRows
  <2>4. PICK q : q = IF internal THEN AtRest
                     ELSE [at |-> "assignee", by |-> p, ticket |-> t, message |-> j]
    OBVIOUS
  <2>5. messages' = Append(messages, new) /\ desk' = [desk EXCEPT ![c] = q]
          /\ UNCHANGED <<tickets, notes>>
    BY <1>4, <2>2, <2>4 DEF Write, noticeVars
  <2>6. /\ q.at \in {"idle", "assignee"}
        /\ q.at = "assignee" => ~internal /\ q.by = p /\ q.ticket = t /\ q.message = j
    BY <2>4
  <2>7. DOMAIN desk' = Clerks /\ desk'[c] = q
          /\ \A d \in Clerks \ {c} : desk'[d] = desk[d]  BY <1>z, <2>5
  <2>8. /\ messages' \in Seq(MessageRows) /\ DOMAIN messages' = 1 .. j
        /\ \A x \in DOMAIN messages : messages'[x] = messages[x]
        /\ messages'[j] = new
    <3>1. messages \in Seq(MessageRows)  BY <1>0 DEF TicketTypes
    <3> QED BY <2>3, <2>5, <3>1, <1>z
  <2>9. /\ DOMAIN messages \subseteq DOMAIN messages' /\ j \in DOMAIN messages'
             /\ j \notin DOMAIN messages
        /\ \A i \in DOMAIN messages' : i \in DOMAIN messages \/ i = j
    BY <1>z, <2>8
  <2> HIDE DEF t, p, internal, j
  <2>10. TicketTypes'  BY <1>0, <2>1, <2>3, <2>5, <2>6, <2>7, <2>8, <2>9 DEF TicketTypes
  <2>11. Answers' = Answers \cup {j}
           /\ Answers \subseteq DOMAIN messages  BY <2>3, <2>8, <2>9 DEF Answers
  <2>12. \A i \in DOMAIN messages : Owner(messages[i])' = Owner(messages[i])  BY <2>5, <2>8 DEF Owner
  <2>13. TellingInv'
    <3>1. \A d \in Clerks : Telling(d) => desk[d].message \in DOMAIN messages  BY <1>0 DEF TicketTypes
    <3>2. \A d \in Clerks \ {c} : Telling(d)' <=> Telling(d)  BY <2>7
    <3>3. Telling(c)' => q.at = "assignee"  BY <2>6, <2>7
    <3>4. \A d, e \in Clerks : Telling(d)' /\ Telling(e)'
            /\ desk'[d].message = desk'[e].message => d = e
      <4> SUFFICES ASSUME NEW d \in Clerks, NEW e \in Clerks, Telling(d)', Telling(e)',
                          desk'[d].message = desk'[e].message
                   PROVE  d = e
        OBVIOUS
      <4>1. CASE d = c  BY <2>6, <2>7, <2>9, <3>1, <3>2, <3>3, <4>1
      <4>2. CASE e = c  BY <2>6, <2>7, <2>9, <3>1, <3>2, <3>3, <4>2
      <4>3. CASE d # c /\ e # c  BY <1>0, <2>7, <3>2, <4>3 DEF TellingInv
      <4> QED BY <4>1, <4>2, <4>3
    <3>5. ASSUME NEW d \in Clerks, Telling(d)'
          PROVE  LET m == messages'[desk'[d].message] IN
                 /\ ~m.told /\ ~m.internal /\ m.held # {}
                 /\ desk'[d].at = "assignee" => m.author = desk'[d].by /\ m.ticket = desk'[d].ticket
                 /\ desk'[d].at = "tell" => RightSide(messages[desk[d].message], desk[d].to)'
      <4>1. CASE d = c  BY <2>3, <2>6, <2>7, <2>8, <3>3, <3>5, <4>1
      <4>2. CASE d # c
        <5>1. PICK i \in DOMAIN messages : i = desk[d].message  BY <3>1, <3>2, <3>5, <4>2
        <5>2. desk'[d] = desk[d] /\ Telling(d)
                /\ messages'[i] = messages[i]  BY <2>7, <2>8, <3>2, <3>5, <4>2
        <5>3. /\ ~messages[i].told /\ ~messages[i].internal /\ messages[i].held # {}
              /\ desk[d].at = "assignee" => messages[i].author = desk[d].by
                   /\ messages[i].ticket = desk[d].ticket
              /\ desk[d].at = "tell" => RightSide(messages[i], desk[d].to)
          BY <1>0, <5>1, <5>2 DEF TellingInv
        <5> QED BY <2>5, <5>1, <5>2, <5>3 DEF RightSide, Owner
      <4> QED BY <4>1, <4>2
    <3>6. ASSUME NEW i \in Answers', ~messages'[i].told
          PROVE  tickets'[messages'[i].ticket].assigned \in messages'[i].held
      <4>1. CASE i = j  BY <2>3, <2>5, <2>8, <4>1
      <4>2. CASE i # j
        <5>1. i \in Answers /\ i \in DOMAIN messages  BY <2>11, <4>2
        <5> QED BY <1>0, <2>5, <2>8, <3>6, <5>1 DEF TellingInv
      <4> QED BY <4>1, <4>2
    <3> QED BY <3>4, <3>5, <3>6 DEF TellingInv
  <2>14. NotesInv'  BY <1>0, <2>5, <2>8, <2>9 DEF NotesInv
  <2>15. ASSUME NEW i \in Answers' PROVE Told1(i)'
    <3>1. CASE i = j  BY <2>1, <2>3, <2>8, <3>1 DEF Told1
    <3>2. CASE i # j
      <4>1. i \in Answers /\ i \in DOMAIN messages  BY <2>11, <3>2
      <4>2. Told1(i) /\ messages'[i] = messages[i] /\ Owner(messages[i])' = Owner(messages[i])
        BY <1>0, <2>8, <2>12, <4>1
      <4>3. \A x : IsTold(x, i) => IsTold(x, i)'  BY <2>5 DEF IsTold
      <4> QED BY <4>2, <4>3 DEF Told1
    <3> QED BY <3>1, <3>2
  <2> QED BY <1>n, <2>10, <2>13, <2>14, <2>15
<1>5. ASSUME NEW c \in Clerks, ReadAssignee(c)
      PROVE  TicketsInv'
  <2>1. PICK to : to = OtherSide(desk[c])  OBVIOUS
  <2>2. PICK q : q = [at |-> "tell", to |-> to, message |-> desk[c].message]  OBVIOUS
  <2>3. desk' = [desk EXCEPT ![c] = q] /\ UNCHANGED <<tickets, messages, notes>>
    BY <1>5, <2>1, <2>2 DEF ReadAssignee, noticeVars
  <2>4. DOMAIN desk' = Clerks /\ desk'[c] = q
          /\ \A d \in Clerks \ {c} : desk'[d] = desk[d]  BY <1>z, <2>3
  <2>5. q.at = "tell" /\ q.to = to /\ q.message = desk[c].message  BY <2>2
  <2>6. PICK i \in DOMAIN messages : i = desk[c].message  BY <1>0, <1>5 DEF ReadAssignee, TicketTypes
  <2>7. /\ desk[c].at = "assignee" /\ desk[c].ticket \in DOMAIN tickets
        /\ ~messages[i].told /\ ~messages[i].internal /\ messages[i].held # {}
        /\ messages[i].author = desk[c].by /\ messages[i].ticket = desk[c].ticket
    BY <1>0, <1>5, <2>6 DEF ReadAssignee, TicketTypes, TellingInv
  <2>8. tickets[messages[i].ticket].assigned \in messages[i].held
    BY <1>0, <2>7 DEF TellingInv, Answers
  <2>9. to = LET k == tickets[messages[i].ticket] IN
             IF messages[i].author # k.owner THEN k.owner
             ELSE IF k.assigned = messages[i].author THEN None ELSE k.assigned
    BY <2>1, <2>7 DEF OtherSide
  <2>10. to \in Helpers
    <3>1. tickets[messages[i].ticket] \in TicketRows  BY <1>z, <2>7
    <3> QED BY <2>9, <3>1 DEF TicketRows, Helpers
  <2>11. RightSide(messages[i], to)  BY <2>8, <2>9 DEF RightSide, Owner
  <2>12. TicketTypes'  BY <1>0, <2>3, <2>4, <2>5, <2>6, <2>10 DEF TicketTypes
  <2>13. TellingInv'
    <3>1. \A d \in Clerks : Telling(d)' <=> Telling(d)  BY <2>4, <2>5, <2>7
    <3>2. \A d \in Clerks : desk'[d].message = desk[d].message \/ ~Telling(d)  BY <2>4, <2>5
    <3>3. \A d, e \in Clerks : Telling(d)' /\ Telling(e)'
            /\ desk'[d].message = desk'[e].message => d = e
      BY <1>0, <3>1, <3>2 DEF TellingInv
    <3>4. RightSide(messages[i], to)'  BY <2>3, <2>11 DEF RightSide, Owner
    <3>5. ASSUME NEW d \in Clerks, Telling(d)'
          PROVE  LET m == messages'[desk'[d].message] IN
                 /\ ~m.told /\ ~m.internal /\ m.held # {}
                 /\ desk'[d].at = "assignee" => m.author = desk'[d].by /\ m.ticket = desk'[d].ticket
                 /\ desk'[d].at = "tell" => RightSide(messages[desk[d].message], desk[d].to)'
      <4>1. CASE d = c  BY <2>3, <2>4, <2>5, <2>6, <2>7, <3>4, <4>1 DEF RightSide, Owner
      <4>2. CASE d # c
        <5>1. desk'[d] = desk[d]  BY <2>4, <4>2
        <5> QED BY <1>0, <2>3, <3>1, <3>5, <5>1 DEF TellingInv, RightSide, Owner
      <4> QED BY <4>1, <4>2
    <3>6. \A k \in Answers' : ~messages'[k].told
            => tickets'[messages'[k].ticket].assigned \in messages'[k].held
      BY <1>0, <2>3 DEF TellingInv, Answers
    <3> QED BY <3>3, <3>5, <3>6 DEF TellingInv
  <2>14. NotesInv'  BY <1>0, <2>3 DEF NotesInv
  <2>15. \A k \in Answers' : Told1(k)'  BY <1>0, <2>3 DEF Answers, Told1, IsTold, Owner
  <2> QED BY <1>n, <2>12, <2>13, <2>14, <2>15
<1>6. ASSUME NEW c \in Clerks, Tell(c)
      PROVE  TicketsInv'
  <2>1. PICK i \in DOMAIN messages : i = desk[c].message  BY <1>0, <1>6 DEF Tell, TicketTypes
  <2>2. PICK to \in Helpers : to = desk[c].to  BY <1>0, <1>6 DEF Tell, TicketTypes
  <2>3. /\ desk[c].at = "tell" /\ ~messages[i].told /\ ~messages[i].internal /\ messages[i].held # {}
        /\ RightSide(messages[i], to)
    BY <1>0, <1>6, <2>1, <2>2 DEF Tell, TellingInv
  <2>4. PICK row : row = [to |-> to, notice |-> 0, about |-> i, read |-> FALSE,
          acked |-> FALSE]  OBVIOUS
  <2>5. row \in NoteRows /\ row.to = to /\ row.about = i  BY <1>z, <2>4 DEF NoteRows
  <2>6. notes' = IF to = None THEN notes ELSE Append(notes, row)
    BY <1>6, <2>1, <2>2, <2>4 DEF Tell, Sent
  <2>7. PICK m : m = [messages[i] EXCEPT !.told = TRUE]  OBVIOUS
  <2>8. /\ m \in MessageRows /\ m.told /\ m.ticket = messages[i].ticket /\ m.author = messages[i].author
        /\ m.internal = messages[i].internal /\ m.held = messages[i].held
    BY <1>z, <2>7 DEF MessageRows
  <2>9. messages' = [messages EXCEPT ![i] = m] /\ tickets' = tickets
    BY <1>6, <2>1, <2>7 DEF Tell, Told
  <2>10. /\ messages' \in Seq(MessageRows) /\ DOMAIN messages' = DOMAIN messages
         /\ \A k \in DOMAIN messages : messages'[k] = IF k = i THEN m ELSE messages[k]
    BY <1>0, <2>8, <2>9 DEF TicketTypes
  <2>11. DOMAIN desk' = Clerks /\ desk'[c].at = "idle" /\ \A d \in Clerks \ {c} : desk'[d] = desk[d]
    BY <1>6, <1>z DEF Tell
  <2>12. /\ notes' \in Seq(NoteRows) /\ DOMAIN notes \subseteq DOMAIN notes'
         /\ \A n \in DOMAIN notes : notes'[n] = notes[n]
         /\ \A n \in DOMAIN notes' : n \in DOMAIN notes \/ notes'[n] = row
         /\ to # None => \E n \in DOMAIN notes' : notes'[n] = row
    <3>1. notes \in Seq(NoteRows)  BY <1>0 DEF TicketTypes
    <3>2. CASE to = None  BY <2>6, <3>1, <3>2
    <3>3. CASE to # None
      <4>1. notes' = Append(notes, row)  BY <2>6, <3>3
      <4>2. /\ notes' \in Seq(NoteRows) /\ Len(notes') = Len(notes) + 1
            /\ \A n \in 1 .. Len(notes) : notes'[n] = notes[n] /\ notes'[Len(notes) + 1] = row
        BY <2>5, <3>1, <4>1, AppendProperties
      <4>3. DOMAIN notes' = 1 .. Len(notes) + 1  BY <4>2
      <4>4. notes'[Len(notes) + 1] = row  BY <2>5, <3>1, <4>1, AppendProperties
      <4> QED BY <1>z, <4>2, <4>3, <4>4
    <3> QED BY <3>2, <3>3
  <2>13. TicketTypes'
    <3>1. \A k \in DOMAIN messages : messages'[k].ticket = messages[k].ticket  BY <2>8, <2>10
    <3>2. \A d \in Clerks : desk'[d] = desk[d] \/ desk'[d].at = "idle"  BY <2>11
    <3> QED BY <1>0, <2>9, <2>10, <2>11, <2>12, <3>1, <3>2 DEF TicketTypes
  <2>14. Answers' = Answers  BY <2>3, <2>8, <2>10 DEF Answers
  <2>15. \A k \in DOMAIN messages : Owner(messages[k])' = Owner(messages[k])  BY <2>8, <2>9, <2>10
           DEF Owner
  <2>16. TellingInv'
    <3>1. \A d \in Clerks : Telling(d)' => d # c /\ desk'[d] = desk[d] /\ Telling(d)  BY <2>11
    <3>2. \A d \in Clerks : Telling(d)' => desk[d].message \in DOMAIN messages /\ desk[d].message # i
      BY <1>0, <2>1, <2>3, <3>1 DEF TicketTypes, TellingInv
    <3>3. \A d, e \in Clerks : Telling(d)' /\ Telling(e)'
            /\ desk'[d].message = desk'[e].message => d = e
      BY <1>0, <3>1 DEF TellingInv
    <3>4. ASSUME NEW d \in Clerks, Telling(d)'
          PROVE  LET k == messages'[desk'[d].message] IN
                 /\ ~k.told /\ ~k.internal /\ k.held # {}
                 /\ desk'[d].at = "assignee" => k.author = desk'[d].by /\ k.ticket = desk'[d].ticket
                 /\ desk'[d].at = "tell" => RightSide(messages[desk[d].message], desk[d].to)'
      <4>1. messages'[desk'[d].message] = messages[desk[d].message] /\ desk'[d] = desk[d] /\ Telling(d)
        BY <2>10, <3>1, <3>2, <3>4
      <4> QED BY <1>0, <2>9, <4>1 DEF TellingInv, RightSide, Owner
    <3>5. ASSUME NEW k \in Answers', ~messages'[k].told
          PROVE  tickets'[messages'[k].ticket].assigned \in messages'[k].held
      <4>1. k \in Answers /\ k \in DOMAIN messages  BY <2>14, <3>5 DEF Answers
      <4>2. messages'[k] = messages[k]  BY <2>8, <2>10, <3>5, <4>1
      <4> QED BY <1>0, <2>9, <3>5, <4>1, <4>2 DEF TellingInv
    <3> QED BY <3>3, <3>4, <3>5 DEF TellingInv
  <2>17. NotesInv'
    <3>1. \A k \in DOMAIN messages : messages'[k].internal = messages[k].internal  BY <2>8, <2>10
    <3> QED BY <1>0, <2>3, <2>5, <2>10, <2>12, <3>1 DEF NotesInv
  <2>18. ASSUME NEW k \in Answers' PROVE Told1(k)'
    <3>1. k \in Answers /\ k \in DOMAIN messages  BY <2>14, <2>18 DEF Answers
    <3>2. \A p : IsTold(p, k) => IsTold(p, k)'  BY <2>12 DEF IsTold
    <3>3. CASE k # i
      <4>1. Told1(k) /\ messages'[k] = messages[k] /\ Owner(messages[k])' = Owner(messages[k])
        BY <1>0, <2>10, <2>15, <3>1, <3>3
      <4> QED BY <3>2, <4>1 DEF Told1
    <3>4. CASE k = i
      <4>1. messages'[k] = m /\ Owner(messages[k])' = Owner(messages[k])  BY <2>10, <2>15, <3>1, <3>4
      <4>2. to # None => IsTold(to, k)'  BY <2>5, <2>12, <3>4 DEF IsTold
      <4>3. Owner(messages[k]) # None
        <5>1. messages[k].ticket \in DOMAIN tickets  BY <1>0, <3>1 DEF TicketTypes
        <5>2. tickets[messages[k].ticket] \in TicketRows  BY <1>z, <5>1
        <5> QED BY <5>2, NoticesAssumption DEF Owner, TicketRows
      <4>4. CASE m.author # Owner(messages[k])
        <5>1. to = Owner(messages[k])  BY <2>3, <2>8, <3>4, <4>4 DEF RightSide
        <5>2. PICK o : o = Owner(messages[k])  OBVIOUS
        <5>3. IsTold(o, k)' /\ Owner(messages[k])' = o  BY <4>1, <4>2, <4>3, <5>1, <5>2
        <5> QED BY <4>1, <4>4, <5>2, <5>3 DEF Told1, IsTold
      <4>5. CASE m.author = Owner(messages[k])
        <5>1. to \in m.held \/ m.held \cap {None, Owner(messages[k])} # {}
          BY <2>3, <2>8, <3>4, <4>5 DEF RightSide
        <5>2. to = None /\ to \in m.held => m.held \cap {None, Owner(messages[k])} # {}  OBVIOUS
        <5> QED BY <4>1, <4>2, <4>5, <5>1, <5>2 DEF Told1
      <4> QED BY <4>4, <4>5
    <3> QED BY <3>3, <3>4
  <2> QED BY <1>n, <2>13, <2>16, <2>17, <2>18
<1>7. ASSUME NEW c \in Clerks, ClerkFails(c)
      PROVE  TicketsInv'
  <2>1. PICK q : q = AtRest  OBVIOUS
  <2>2. q.at = "idle"  BY <2>1
  <2>3. desk' = [desk EXCEPT ![c] = q] /\ UNCHANGED <<tickets, messages, notes>>
    BY <1>7, <2>1 DEF ClerkFails, noticeVars
  <2> QED BY <1>i, <2>2, <2>3
<1>8. ASSUME NEW t \in DOMAIN tickets, Unassign(t)
      PROVE  TicketsInv'
  <2>1. PICK row : row = [tickets[t] EXCEPT !.assigned = None]  OBVIOUS
  <2>2. row \in TicketRows /\ row.owner = tickets[t].owner /\ row.assigned = None
    BY <1>z, <2>1 DEF TicketRows, Helpers
  <2>3. tickets' = [tickets EXCEPT ![t] = row]  BY <1>8, <2>1 DEF Unassign
  <2>4. messages' = Holding(t, row.assigned)
          /\ UNCHANGED <<notes, desk>>  BY <1>8, <2>2 DEF Unassign, noticeVars
  <2> QED BY <1>h, <1>z, <2>2, <2>3, <2>4
<1>9. ASSUME NEW c \in Clerks, Assign(c)
      PROVE  TicketsInv'
  <2>1. PICK t \in DOMAIN tickets : t = desk[c].ticket  BY <1>0, <1>9 DEF Assign, TicketTypes
  <2>2. PICK to \in Helpers : to = desk[c].to  BY <1>0, <1>9 DEF Assign, TicketTypes
  <2>3. PICK row : row = [tickets[desk[c].ticket] EXCEPT
                          !.assigned = desk[c].to,
                          !.status = IF tickets[desk[c].ticket].status = "open" THEN "pending"
                                     ELSE tickets[desk[c].ticket].status]
    OBVIOUS
  <2>4. row \in TicketRows /\ row.owner = tickets[t].owner /\ row.assigned = to
    BY <1>z, <2>1, <2>2, <2>3 DEF TicketRows
  <2>5. tickets' = [tickets EXCEPT ![t] = row]
    <3>1. tickets' = [tickets EXCEPT ![desk[c].ticket] = row]  BY <1>9, <2>3 DEF Assign
    <3> QED BY <2>1, <3>1
  <2>6. messages' = Holding(t, row.assigned)
          /\ UNCHANGED notes  BY <1>9, <2>1, <2>2, <2>4 DEF Assign, noticeVars
  <2>7. DOMAIN desk' = Clerks /\ \A d \in Clerks : desk'[d] = desk[d]
          \/ desk'[d].at = "idle"  BY <1>9, <1>z DEF Assign
  <2> QED BY <1>h, <2>4, <2>5, <2>6, <2>7
<1>10. ASSUME NEW t \in DOMAIN tickets, NEW urgent \in BOOLEAN, SetTicketPriority(t, urgent)
       PROVE  TicketsInv'
  <2>1. PICK row : row = [tickets[t] EXCEPT !.urgent = urgent]  OBVIOUS
  <2>2. row \in TicketRows /\ row.owner = tickets[t].owner /\ row.assigned = tickets[t].assigned
    BY <1>z, <2>1 DEF TicketRows
  <2>3. tickets' = [tickets EXCEPT ![t] = row] /\ UNCHANGED <<messages, notes, desk>>
    BY <1>10, <2>1 DEF SetTicketPriority, noticeVars
  <2> QED BY <1>t, <2>2, <2>3
<1>11. ASSUME NEW t \in DOMAIN tickets, NEW cat \in Categories \cup {0},
                NEW sub \in Categories \cup {0},
              SetTicketCategory(t, cat, sub)
       PROVE  TicketsInv'
  <2>1. PICK row : row = [tickets[t] EXCEPT !.cat = cat, !.sub = sub]  OBVIOUS
  <2>2. row \in TicketRows /\ row.owner = tickets[t].owner /\ row.assigned = tickets[t].assigned
    BY <1>11, <1>z, <2>1 DEF TicketRows, SetTicketCategory, ValidPair
  <2>3. tickets' = [tickets EXCEPT ![t] = row] /\ UNCHANGED <<messages, notes, desk>>
    BY <1>11, <2>1 DEF SetTicketCategory, noticeVars
  <2> QED BY <1>t, <2>2, <2>3
<1>12. ASSUME NEW t \in DOMAIN tickets, NEW s \in {"open", "closed"}, SetTicketStatus(t, s)
       PROVE  TicketsInv'
  <2>0. PICK b \in BOOLEAN : b = (s = "closed")  OBVIOUS
  <2>1. PICK row : row = [tickets[t] EXCEPT !.status = s, !.closedAt = b]  OBVIOUS
  <2>2. row \in TicketRows /\ row.owner = tickets[t].owner /\ row.assigned = tickets[t].assigned
    BY <1>z, <2>1 DEF TicketRows
  <2>3. tickets' = [tickets EXCEPT ![t] = row] /\ UNCHANGED <<messages, notes, desk>>
    BY <1>12, <2>0, <2>1 DEF SetTicketStatus, noticeVars
  <2> QED BY <1>t, <2>2, <2>3
<1>13. CASE UNCHANGED <<notes, ticketVars>>
  <2>1. tickets' = tickets /\ messages' = messages /\ notes' = notes
          /\ desk' = desk  BY <1>13 DEF ticketVars
  <2>2. TicketTypes'  BY <1>0, <2>1 DEF TicketTypes
  <2>3. TellingInv'  BY <1>0, <2>1 DEF TellingInv, RightSide, Owner, Answers
  <2>4. NotesInv'  BY <1>0, <2>1 DEF NotesInv
  <2>5. \A i \in Answers' : Told1(i)'  BY <1>0, <2>1 DEF Answers, Told1, IsTold, Owner
  <2> QED BY <1>n, <2>2, <2>3, <2>4, <2>5
<1> QED BY <1>1, <1>2, <1>3, <1>4, <1>5, <1>6, <1>7, <1>8, <1>9, <1>10, <1>11, <1>12, <1>13
      DEF TicketsNext

-------------------------------------------------------------------------------
(* The rulebook: what is highlighted is what changed.                        *)

IsSeq(s) == \E S : s \in Seq(S)

LEMMA SeqDomain == ASSUME NEW s, IsSeq(s) PROVE Len(s) \in Nat /\ DOMAIN s = 1..Len(s)
BY DEF IsSeq

LEMMA SeqLonger ==
    ASSUME NEW s, IsSeq(s), NEW e
    PROVE  /\ IsSeq(Append(s, e)) /\ Len(Append(s, e)) = Len(s) + 1
           /\ DOMAIN Append(s, e) = 1..Len(s) + 1 /\ Append(s, e)[Len(s) + 1] = e
           /\ \A i \in DOMAIN s : Append(s, e)[i] = s[i]
<1>1. PICK S : s \in Seq(S)  BY DEF IsSeq
<1>2. PICK R : R = S \cup {e}  OBVIOUS
<1>3. s \in Seq(R) /\ e \in R  BY <1>1, <1>2
<1>4. PICK t : t = Append(s, e)  OBVIOUS
<1>5. t \in Seq(R)  BY <1>3, <1>4
<1>6. Len(t) = Len(s) + 1 /\ t[Len(s) + 1] = e
        /\ \A i \in 1..Len(s) : t[i] = s[i]  BY <1>3, <1>4, AppendProperties
<1>7. DOMAIN t = 1..Len(s) + 1 /\ DOMAIN s = 1..Len(s)  BY <1>3, <1>5, <1>6
<1> QED BY <1>4, <1>5, <1>6, <1>7 DEF IsSeq

LEMMA SeqMapped ==
    ASSUME NEW s, IsSeq(s), NEW t, t = [i \in DOMAIN s |-> t[i]]
    PROVE  IsSeq(t) /\ Len(t) = Len(s) /\ DOMAIN t = DOMAIN s
<1>1. Len(s) \in Nat /\ DOMAIN s = 1..Len(s)  BY SeqDomain
<1>2. PICK R : R = {t[i] : i \in DOMAIN s}  OBVIOUS
<1>3. t = [i \in 1..Len(s) |-> t[i]] /\ \A i \in 1..Len(s) : t[i] \in R  BY <1>1, <1>2
<1>4. t \in Seq(R)  BY <1>1, <1>3
<1> QED BY <1>1, <1>3, <1>4 DEF IsSeq

\* The shape of what is parsed.
RuleShape(r) == {"num", "text", "points"} \subseteq DOMAIN r
RulesShape(rules) == IsSeq(rules) /\ \A k \in DOMAIN rules : RuleShape(rules[k])
SubShape(u) == {"title", "intro", "rules"} \subseteq DOMAIN u /\ RulesShape(u.rules)
SectionShape(s) ==
    /\ {"title", "intro", "rules", "subs"} \subseteq DOMAIN s /\ RulesShape(s.rules)
    /\ IsSeq(s.subs) /\ \A j \in DOMAIN s.subs : SubShape(s.subs[j])
SecsShape(secs) == IsSeq(secs) /\ \A i \in DOMAIN secs : SectionShape(secs[i])

\* The rules of a section, or of one of its subsections, and where rules are.
List(secs, i, j) == IF j = 0 THEN secs[i].rules ELSE secs[i].subs[j].rules
Stands(secs, i, j) == i \in DOMAIN secs /\ j \in {0} \cup DOMAIN secs[i].subs
At(secs, i, j, k) == Stands(secs, i, j) /\ k \in DOMAIN List(secs, i, j)
Num(secs, i, j, k) == List(secs, i, j)[k].num

\* Each number was seen, and stands once.
Numbered(secs, seen) ==
    /\ \A i, j, k : At(secs, i, j, k) => Num(secs, i, j, k) \in seen
    /\ \A i, j, k, a, b, c : At(secs, i, j, k) /\ At(secs, a, b, c)
         /\ Num(secs, i, j, k) = Num(secs, a, b, c)
                             => i = a /\ j = b /\ k = c

LEMMA NumberedAsBefore ==
    ASSUME NEW secs, NEW next, NEW seen, Numbered(secs, seen),
           \A i, j, k : At(next, i, j, k) => At(secs, i, j, k)
             /\ Num(next, i, j, k) = Num(secs, i, j, k)
    PROVE  Numbered(next, seen)
<1>1. \A i, j, k : At(next, i, j, k) => Num(next, i, j, k) \in seen  BY DEF Numbered
<1>2. ASSUME NEW i, NEW j, NEW k, NEW a, NEW b, NEW c, At(next, i, j, k), At(next, a, b, c),
             Num(next, i, j, k) = Num(next, a, b, c)
      PROVE  i = a /\ j = b /\ k = c
  <2>1. At(secs, i, j, k) /\ At(secs, a, b, c) /\ Num(secs, i, j, k) = Num(secs, a, b, c)  BY <1>2
  <2> QED BY <2>1 DEF Numbered
<1> QED BY <1>1, <1>2 DEF Numbered

\* One rule more, and the others where they were.
OneMore(secs, next, x, y, z, num) ==
    \A i, j, k : At(next, i, j, k) =>
       \/ At(secs, i, j, k) /\ Num(next, i, j, k) = Num(secs, i, j, k)
       \/ i = x /\ j = y /\ k = z /\ Num(next, i, j, k) = num

LEMMA NumberedWithOneMore ==
    ASSUME NEW secs, NEW next, NEW seen, Numbered(secs, seen), NEW num, num \notin seen, NEW x, NEW y,
             NEW z,
           OneMore(secs, next, x, y, z, num)
    PROVE  Numbered(next, seen \cup {num})
<1>1. \A i, j, k : At(next, i, j, k) => Num(next, i, j, k) \in seen \cup {num}  BY DEF Numbered, OneMore
<1>2. ASSUME NEW i, NEW j, NEW k, NEW a, NEW b, NEW c, At(next, i, j, k), At(next, a, b, c),
             Num(next, i, j, k) = Num(next, a, b, c)
      PROVE  i = a /\ j = b /\ k = c
  <2>1. CASE Num(next, i, j, k) = num
    <3>0. Num(next, a, b, c) = num  BY <1>2, <2>1
    <3>1. \A u, v, w : At(secs, u, v, w) => Num(secs, u, v, w) # num  BY DEF Numbered
    <3>2. i = x /\ j = y /\ k = z  BY <1>2, <2>1, <3>1 DEF OneMore
    <3>3. a = x /\ b = y /\ c = z  BY <1>2, <3>0, <3>1 DEF OneMore
    <3> QED BY <3>2, <3>3
  <2>2. CASE Num(next, i, j, k) # num
    <3>1. At(secs, i, j, k) /\ At(secs, a, b, c)
            /\ Num(secs, i, j, k) = Num(secs, a, b, c)  BY <1>2, <2>2 DEF OneMore
    <3> QED BY <3>1 DEF Numbered
  <2> QED BY <2>1, <2>2
<1> QED BY <1>1, <1>2 DEF Numbered

\* The list at the end of a document is its last place.
LastSub(secs) == Len(secs[Len(secs)].subs)

LEMMA TargetIsLast ==
    ASSUME NEW secs, SecsShape(secs), secs # <<>>
    PROVE  /\ Len(secs) \in Nat \ {0} /\ Len(secs) \in DOMAIN secs
           /\ SectionShape(secs[Len(secs)]) /\ LastSub(secs) \in Nat
                /\ Stands(secs, Len(secs), LastSub(secs))
           /\ (secs[Len(secs)].subs = <<>> <=> LastSub(secs) = 0)
           /\ Target(secs) = List(secs, Len(secs), LastSub(secs))
           /\ RulesShape(Target(secs))
<1>1. Len(secs) \in Nat \ {0} /\ Len(secs) \in DOMAIN secs  BY EmptySeq DEF SecsShape, IsSeq
<1>2. PICK s : s = secs[Len(secs)]  OBVIOUS
<1>3. SectionShape(s)  BY <1>1, <1>2 DEF SecsShape
<1>4. Len(s.subs) \in Nat /\ DOMAIN s.subs = 1..Len(s.subs)  BY <1>3, SeqDomain DEF SectionShape
<1>5. s.subs = <<>> <=> Len(s.subs) = 0  BY <1>3, EmptySeq DEF SectionShape, IsSeq
<1>6. Stands(secs, Len(secs), LastSub(secs))  BY <1>1, <1>2, <1>4 DEF Stands, LastSub
<1>7. Target(secs) = List(secs, Len(secs), LastSub(secs))
  <2>1. CASE s.subs = <<>>  BY <1>2, <1>5, <2>1 DEF Target, List, LastSub, Last
  <2>2. CASE s.subs # <<>>  BY <1>2, <1>4, <1>5, <2>2 DEF Target, List, LastSub, Last
  <2> QED BY <2>1, <2>2
<1>8. RulesShape(List(secs, Len(secs), LastSub(secs)))
  <2>1. CASE LastSub(secs) = 0  BY <1>2, <1>3, <2>1 DEF List, SectionShape
  <2>2. CASE LastSub(secs) # 0
    <3>1. LastSub(secs) \in DOMAIN s.subs  BY <1>2, <1>4, <2>2 DEF LastSub
    <3> QED BY <1>2, <1>3, <2>2, <3>1 DEF List, SectionShape, SubShape
  <2> QED BY <2>1, <2>2
<1> QED BY <1>1, <1>2, <1>3, <1>4, <1>5, <1>6, <1>7, <1>8 DEF LastSub

\* Other rules at the end of a document, and nothing else.
LEMMA WithRulesThere ==
    ASSUME NEW secs, SecsShape(secs), secs # <<>>, NEW rules, RulesShape(rules)
    PROVE  LET next == WithRules(secs, rules) IN
           /\ SecsShape(next)
           /\ \A i, j : Stands(next, i, j) => /\ Stands(secs, i, j)
                                             /\ List(next, i, j) = IF i = Len(secs)
                                                  /\ j = LastSub(secs) THEN rules
                                                                   ELSE List(secs, i, j)
<1>0. PICK n : n = Len(secs)  OBVIOUS
<1>1. n \in DOMAIN secs /\ SectionShape(secs[n])
        /\ (secs[n].subs = <<>> <=> LastSub(secs) = 0)  BY <1>0, TargetIsLast
<1>2. PICK s : s = secs[n]  OBVIOUS
<1>3. PICK m : m = LastSub(secs)  OBVIOUS
<1>4. Len(s.subs) = m /\ m \in Nat
        /\ DOMAIN s.subs = 1..m  BY <1>0, <1>1, <1>2, <1>3, SeqDomain DEF LastSub, SectionShape
<1>5. PICK t : t = IF s.subs = <<>> THEN [s EXCEPT !.rules = rules]
                   ELSE [s EXCEPT !.subs = OnLast(s.subs, LAMBDA u : [u EXCEPT !.rules = rules])]
  OBVIOUS
<1>6. PICK next : next = WithRules(secs, rules)  OBVIOUS
<1>7. next = [i \in DOMAIN secs |-> IF i = n THEN t ELSE secs[i]]  BY <1>0, <1>2, <1>5, <1>6
        DEF WithRules, OnLast
<1>8. SectionShape(t) /\ DOMAIN t.subs = DOMAIN s.subs
      /\ t.rules = (IF m = 0 THEN rules ELSE s.rules)
      /\ \A j \in DOMAIN s.subs : t.subs[j].rules = IF j = m THEN rules ELSE s.subs[j].rules
  <2>1. CASE s.subs = <<>>
    <3>1. t = [s EXCEPT !.rules = rules]  BY <1>5, <2>1
    <3>2. m = 0  BY <1>0, <1>1, <1>2, <1>3, <2>1
    <3>3. DOMAIN t = DOMAIN s /\ t.rules = rules
            /\ t.subs = s.subs  BY <1>1, <1>2, <3>1 DEF SectionShape
    <3>4. SectionShape(t)  BY <1>1, <1>2, <3>3 DEF SectionShape
    <3> QED BY <1>4, <3>2, <3>3, <3>4
  <2>2. CASE s.subs # <<>>
    <3>1. PICK us : us = OnLast(s.subs, LAMBDA u : [u EXCEPT !.rules = rules])  OBVIOUS
    <3>2. t = [s EXCEPT !.subs = us]  BY <1>5, <2>2, <3>1
    <3>3. m # 0 /\ m \in DOMAIN s.subs  BY <1>0, <1>1, <1>2, <1>3, <1>4, <2>2
    <3>4. us = [j \in DOMAIN s.subs |-> IF j = m THEN [s.subs[j] EXCEPT !.rules = rules] ELSE s.subs[j]]
      BY <1>4, <3>1 DEF OnLast
    <3>5. us = [j \in DOMAIN s.subs |-> us[j]]  BY <3>4
    <3>6. IsSeq(us) /\ DOMAIN us = DOMAIN s.subs  BY <1>1, <1>2, <3>5, SeqMapped DEF SectionShape
    <3>7. ASSUME NEW j \in DOMAIN s.subs
          PROVE  SubShape(us[j]) /\ us[j].rules = IF j = m THEN rules ELSE s.subs[j].rules
      <4>1. PICK u : u = s.subs[j] /\ SubShape(u)  BY <1>1, <1>2 DEF SectionShape
      <4>2. CASE j = m
        <5>1. us[j] = [u EXCEPT !.rules = rules]  BY <3>4, <4>1, <4>2
        <5>2. DOMAIN us[j] = DOMAIN u /\ us[j].rules = rules  BY <4>1, <5>1 DEF SubShape
        <5> QED BY <4>1, <4>2, <5>2 DEF SubShape
      <4>3. CASE j # m  BY <3>4, <4>1, <4>3
      <4> QED BY <4>2, <4>3
    <3>8. DOMAIN t = DOMAIN s /\ t.rules = s.rules /\ t.subs = us  BY <1>1, <1>2, <3>2 DEF SectionShape
    <3>9. SectionShape(t)  BY <1>1, <1>2, <3>6, <3>7, <3>8 DEF SectionShape
    <3> QED BY <3>3, <3>6, <3>7, <3>8, <3>9
  <2> QED BY <2>1, <2>2
<1>9. IsSeq(next) /\ DOMAIN next = DOMAIN secs
  <2>1. next = [i \in DOMAIN secs |-> next[i]]  BY <1>7
  <2> QED BY <2>1, SeqMapped DEF SecsShape
<1>10. SecsShape(next)  BY <1>7, <1>8, <1>9 DEF SecsShape
<1>11. ASSUME NEW i, NEW j, Stands(next, i, j)
       PROVE  Stands(secs, i, j) /\ List(next, i, j) = IF i = n
                /\ j = m THEN rules ELSE List(secs, i, j)
  <2>1. i \in DOMAIN secs  BY <1>9, <1>11 DEF Stands
  <2>2. CASE i # n  BY <1>7, <1>11, <2>1, <2>2 DEF Stands, List
  <2>3. CASE i = n
    <3>1. next[i] = t /\ secs[i] = s  BY <1>2, <1>7, <2>1, <2>3
    <3>2. j \in {0} \cup DOMAIN s.subs  BY <1>8, <1>11, <3>1 DEF Stands
    <3>3. CASE j = 0  BY <1>8, <2>1, <2>3, <3>1, <3>3 DEF Stands, List
    <3>4. CASE j # 0  BY <1>8, <2>1, <2>3, <3>1, <3>2, <3>4 DEF Stands, List
    <3> QED BY <3>3, <3>4
  <2> QED BY <2>2, <2>3
<1> QED BY <1>0, <1>3, <1>6, <1>10, <1>11

LEMMA WithIntroThere ==
    ASSUME NEW secs, SecsShape(secs), secs # <<>>, NEW words
    PROVE  LET next == WithIntro(secs, words) IN
           /\ SecsShape(next)
           /\ \A i, j : Stands(next, i, j) => Stands(secs, i, j) /\ List(next, i, j) = List(secs, i, j)
<1>0. PICK n : n = Len(secs)  OBVIOUS
<1>1. n \in DOMAIN secs /\ SectionShape(secs[n])  BY <1>0, TargetIsLast
<1>2. PICK s : s = secs[n]  OBVIOUS
<1>5. PICK t : t = IF s.subs = <<>> THEN [s EXCEPT !.intro = s.intro \o words]
                   ELSE [s EXCEPT !.subs = OnLast(s.subs,
                          LAMBDA u : [u EXCEPT !.intro = u.intro \o words])]
  OBVIOUS
<1>6. PICK next : next = WithIntro(secs, words)  OBVIOUS
<1>7. next = [i \in DOMAIN secs |-> IF i = n THEN t ELSE secs[i]]  BY <1>0, <1>2, <1>5, <1>6
        DEF WithIntro, OnLast
<1>8. SectionShape(t) /\ DOMAIN t.subs = DOMAIN s.subs /\ t.rules = s.rules
      /\ \A j \in DOMAIN s.subs : t.subs[j].rules = s.subs[j].rules
  <2>1. CASE s.subs = <<>>
    <3>1. t = [s EXCEPT !.intro = s.intro \o words]  BY <1>5, <2>1
    <3>2. DOMAIN t = DOMAIN s /\ t.rules = s.rules
            /\ t.subs = s.subs  BY <1>1, <1>2, <3>1 DEF SectionShape
    <3>3. SectionShape(t)  BY <1>1, <1>2, <3>2 DEF SectionShape
    <3> QED BY <3>2, <3>3
  <2>2. CASE s.subs # <<>>
    <3>1. PICK us : us = OnLast(s.subs, LAMBDA u : [u EXCEPT !.intro = u.intro \o words])  OBVIOUS
    <3>2. t = [s EXCEPT !.subs = us]  BY <1>5, <2>2, <3>1
    <3>4. us = [j \in DOMAIN s.subs |->
            IF j = Len(s.subs) THEN [s.subs[j] EXCEPT !.intro = s.subs[j].intro \o words]
                                        ELSE s.subs[j]]
      BY <3>1 DEF OnLast
    <3>5. us = [j \in DOMAIN s.subs |-> us[j]]  BY <3>4
    <3>6. IsSeq(us) /\ DOMAIN us = DOMAIN s.subs  BY <1>1, <1>2, <3>5, SeqMapped DEF SectionShape
    <3>7. ASSUME NEW j \in DOMAIN s.subs
          PROVE  SubShape(us[j]) /\ us[j].rules = s.subs[j].rules
      <4>1. PICK u : u = s.subs[j] /\ SubShape(u)  BY <1>1, <1>2 DEF SectionShape
      <4>2. CASE j = Len(s.subs)
        <5>1. us[j] = [u EXCEPT !.intro = u.intro \o words]  BY <3>4, <4>1, <4>2
        <5>2. DOMAIN us[j] = DOMAIN u /\ us[j].rules = u.rules  BY <4>1, <5>1 DEF SubShape
        <5> QED BY <4>1, <4>2, <5>2 DEF SubShape
      <4>3. CASE j # Len(s.subs)  BY <3>4, <4>1, <4>3
      <4> QED BY <4>2, <4>3
    <3>8. DOMAIN t = DOMAIN s /\ t.rules = s.rules /\ t.subs = us  BY <1>1, <1>2, <3>2 DEF SectionShape
    <3>9. SectionShape(t)  BY <1>1, <1>2, <3>6, <3>7, <3>8 DEF SectionShape
    <3> QED BY <3>6, <3>7, <3>8, <3>9
  <2> QED BY <2>1, <2>2
<1>9. IsSeq(next) /\ DOMAIN next = DOMAIN secs
  <2>1. next = [i \in DOMAIN secs |-> next[i]]  BY <1>7
  <2> QED BY <2>1, SeqMapped DEF SecsShape
<1>10. SecsShape(next)  BY <1>7, <1>8, <1>9 DEF SecsShape
<1>11. ASSUME NEW i, NEW j, Stands(next, i, j)
       PROVE  Stands(secs, i, j) /\ List(next, i, j) = List(secs, i, j)
  <2>1. i \in DOMAIN secs  BY <1>9, <1>11 DEF Stands
  <2>2. CASE i # n  BY <1>7, <1>11, <2>1, <2>2 DEF Stands, List
  <2>3. CASE i = n
    <3>1. next[i] = t /\ secs[i] = s  BY <1>2, <1>7, <2>1, <2>3
    <3>2. j \in {0} \cup DOMAIN s.subs  BY <1>8, <1>11, <3>1 DEF Stands
    <3>3. CASE j = 0  BY <1>8, <2>1, <2>3, <3>1, <3>3 DEF Stands, List
    <3>4. CASE j # 0  BY <1>8, <2>1, <2>3, <3>1, <3>2, <3>4 DEF Stands, List
    <3> QED BY <3>3, <3>4
  <2> QED BY <2>2, <2>3
<1> QED BY <1>6, <1>10, <1>11

\* The rules of a list, each with the number it had.
Edited(next, rules) ==
    RulesShape(next) /\ DOMAIN next = DOMAIN rules /\ \A k \in DOMAIN rules : next[k].num = rules[k].num

LEMMA EditedInPlace ==
    ASSUME NEW secs, SecsShape(secs), secs # <<>>, NEW seen, Numbered(secs, seen),
           NEW rules, Edited(rules, Target(secs))
    PROVE  SecsShape(WithRules(secs, rules)) /\ Numbered(WithRules(secs, rules), seen)
<1>1. RulesShape(rules)  BY DEF Edited
<1>2. PICK next : next = WithRules(secs, rules)  OBVIOUS
<1>3. /\ SecsShape(next)
      /\ \A i, j : Stands(next, i, j) => /\ Stands(secs, i, j)
                                        /\ List(next, i, j) = IF i = Len(secs)
                                             /\ j = LastSub(secs) THEN rules
                                                              ELSE List(secs, i, j)
  BY <1>1, <1>2, WithRulesThere
<1>4. Target(secs) = List(secs, Len(secs), LastSub(secs))  BY TargetIsLast
<1>5. ASSUME NEW i, NEW j, NEW k, At(next, i, j, k)
      PROVE  At(secs, i, j, k) /\ Num(next, i, j, k) = Num(secs, i, j, k)
  <2>1. Stands(next, i, j) /\ k \in DOMAIN List(next, i, j)  BY <1>5 DEF At
  <2>2. CASE i = Len(secs) /\ j = LastSub(secs)
    <3>1. List(next, i, j) = rules /\ Stands(secs, i, j)
            /\ List(secs, i, j) = Target(secs)  BY <1>3, <1>4, <2>1, <2>2
    <3>2. k \in DOMAIN Target(secs) /\ rules[k].num = Target(secs)[k].num  BY <2>1, <3>1 DEF Edited
    <3> QED BY <3>1, <3>2 DEF At, Num
  <2>3. CASE ~ (i = Len(secs) /\ j = LastSub(secs))
    <3>1. List(next, i, j) = List(secs, i, j) /\ Stands(secs, i, j)  BY <1>3, <2>1, <2>3
    <3> QED BY <2>1, <3>1 DEF At, Num
  <2> QED BY <2>2, <2>3
<1>6. Numbered(next, seen)  BY <1>5, NumberedAsBefore
<1> QED BY <1>2, <1>3, <1>6

LEMMA RuleAdded ==
    ASSUME NEW secs, SecsShape(secs), secs # <<>>, NEW seen, Numbered(secs, seen),
           NEW r, RuleShape(r), r.num \notin seen
    PROVE  LET rules == Append(Target(secs), r) IN
           SecsShape(WithRules(secs, rules)) /\ Numbered(WithRules(secs, rules), seen \cup {r.num})
<1>1. PICK old : old = Target(secs)  OBVIOUS
<1>2. PICK rules : rules = Append(old, r)  OBVIOUS
<1>3. RulesShape(old)  BY <1>1, TargetIsLast
<1>4. /\ IsSeq(rules) /\ DOMAIN rules = 1..Len(old) + 1 /\ rules[Len(old) + 1] = r
      /\ \A k \in DOMAIN old : rules[k] = old[k]
  BY <1>2, <1>3, SeqLonger DEF RulesShape
<1>5. Len(old) \in Nat /\ DOMAIN old = 1..Len(old)  BY <1>3, SeqDomain DEF RulesShape
<1>6. \A k \in DOMAIN rules : k \in DOMAIN old \/ k = Len(old) + 1  BY <1>4, <1>5
<1>7. RulesShape(rules)  BY <1>3, <1>4, <1>6 DEF RulesShape
<1>8. PICK next : next = WithRules(secs, rules)  OBVIOUS
<1>9. /\ SecsShape(next)
      /\ \A i, j : Stands(next, i, j) => /\ Stands(secs, i, j)
                                        /\ List(next, i, j) = IF i = Len(secs)
                                             /\ j = LastSub(secs) THEN rules
                                                              ELSE List(secs, i, j)
  BY <1>7, <1>8, WithRulesThere
<1>10. old = List(secs, Len(secs), LastSub(secs))  BY <1>1, TargetIsLast
<1>11. ASSUME NEW i, NEW j, NEW k, At(next, i, j, k)
       PROVE  \/ At(secs, i, j, k) /\ Num(next, i, j, k) = Num(secs, i, j, k)
              \/ i = Len(secs) /\ j = LastSub(secs) /\ k = Len(old) + 1 /\ Num(next, i, j, k) = r.num
  <2>1. Stands(next, i, j) /\ k \in DOMAIN List(next, i, j)  BY <1>11 DEF At
  <2>2. CASE i = Len(secs) /\ j = LastSub(secs)
    <3>1. List(next, i, j) = rules /\ Stands(secs, i, j)
            /\ List(secs, i, j) = old  BY <1>9, <1>10, <2>1, <2>2
    <3>2. CASE k \in DOMAIN old  BY <1>4, <3>1, <3>2 DEF At, Num
    <3>3. CASE k = Len(old) + 1  BY <1>4, <2>2, <3>1, <3>3 DEF Num
    <3> QED BY <1>6, <2>1, <3>1, <3>2, <3>3
  <2>3. CASE ~ (i = Len(secs) /\ j = LastSub(secs))
    <3>1. List(next, i, j) = List(secs, i, j) /\ Stands(secs, i, j)  BY <1>9, <2>1, <2>3
    <3> QED BY <2>1, <3>1 DEF At, Num
  <2> QED BY <2>2, <2>3
<1>12. PICK x, y, z, num : x = Len(secs) /\ y = LastSub(secs) /\ z = Len(old) + 1
         /\ num = r.num  OBVIOUS
<1>13. OneMore(secs, next, x, y, z, num)  BY <1>11, <1>12 DEF OneMore
<1>14. num \notin seen  BY <1>12
<1>15. Numbered(next, seen \cup {num})  BY <1>13, <1>14, NumberedWithOneMore
<1> QED BY <1>1, <1>2, <1>8, <1>9, <1>12, <1>15

\* Editing the last rule of a list.
LEMMA LastRuleEdited ==
    ASSUME NEW rules, RulesShape(rules), NEW next, NEW r,
           rules # <<>> => RuleShape(r) /\ r.num = rules[Len(rules)].num,
           next = [k \in DOMAIN rules |-> IF k = Len(rules) THEN r ELSE rules[k]]
    PROVE  Edited(next, rules)
<1>1. Len(rules) \in Nat /\ DOMAIN rules = 1..Len(rules)  BY SeqDomain DEF RulesShape
<1>2. next = [k \in DOMAIN rules |-> next[k]]  OBVIOUS
<1>3. IsSeq(next) /\ DOMAIN next = DOMAIN rules  BY <1>2, SeqMapped DEF RulesShape
<1>4. ASSUME NEW k \in DOMAIN rules
      PROVE  RuleShape(next[k]) /\ next[k].num = rules[k].num
  <2>1. rules # <<>>  BY <1>1, EmptySeq
  <2>2. CASE k = Len(rules)  BY <2>1, <2>2
  <2>3. CASE k # Len(rules)  BY <2>3 DEF RulesShape
  <2> QED BY <2>2, <2>3
<1> QED BY <1>3, <1>4 DEF Edited, RulesShape

LEMMA PointAdded ==
    ASSUME NEW r, RuleShape(r), NEW text
    PROVE  RuleShape(AddPoint(r, text)) /\ AddPoint(r, text).num = r.num
BY DEF AddPoint, RuleShape

LEMMA SubPointAdded ==
    ASSUME NEW r, RuleShape(r), NEW text
    PROVE  RuleShape(AddSub(r, text)) /\ AddSub(r, text).num = r.num
<1>1. PICK q : q = OnLast(r.points, LAMBDA p : [p EXCEPT !.sub = Append(p.sub, text)])  OBVIOUS
<1>2. AddSub(r, text) = [r EXCEPT !.points = q]  BY <1>1 DEF AddSub
<1> QED BY <1>2 DEF RuleShape

LEMMA RuleContinued ==
    ASSUME NEW r, RuleShape(r), NEW words, NEW inPoint
    PROVE  RuleShape(Continued(r, words, inPoint)) /\ Continued(r, words, inPoint).num = r.num
<1>1. PICK q : q = OnLast(r.points, LAMBDA p :
             IF p.sub = <<>> THEN [p EXCEPT !.text = p.text \o words]
             ELSE [p EXCEPT !.sub = OnLast(p.sub, LAMBDA x : x \o words)])
  OBVIOUS
<1>2. Continued(r, words, inPoint) = [r EXCEPT !.points = q]
        \/ Continued(r, words, inPoint) = [r EXCEPT !.text = r.text \o words]
  BY <1>1 DEF Continued
<1> QED BY <1>2 DEF RuleShape

\* What is read of a document so far: the numbers seen, and each of them once.
Reading(d) ==
    {"ok", "intro", "secs", "seen", "inPoint"} \subseteq DOMAIN d /\ SecsShape(d.secs)
      /\ Numbered(d.secs, d.seen)

LEMMA HeadAdded ==
    ASSUME NEW secs, SecsShape(secs), NEW seen, Numbered(secs, seen), NEW title
    PROVE  SecsShape(Append(secs, Section(title))) /\ Numbered(Append(secs, Section(title)), seen)
<1>1. PICK s : s = Section(title)  OBVIOUS
<1>2. PICK next : next = Append(secs, s)  OBVIOUS
<1>3. {"title", "intro", "rules", "subs"} \subseteq DOMAIN s /\ s.rules = <<>> /\ s.subs = <<>>
  BY <1>1 DEF Section
<1>4. IsSeq(<<>>) /\ DOMAIN <<>> = {}  BY DEF IsSeq
<1>5. SectionShape(s)  BY <1>3, <1>4 DEF SectionShape, RulesShape
<1>6. /\ IsSeq(next) /\ DOMAIN next = 1..Len(secs) + 1 /\ next[Len(secs) + 1] = s
      /\ \A i \in DOMAIN secs : next[i] = secs[i]
  BY <1>2, SeqLonger DEF SecsShape
<1>7. Len(secs) \in Nat /\ DOMAIN secs = 1..Len(secs)  BY SeqDomain DEF SecsShape
<1>8. \A i \in DOMAIN next : i \in DOMAIN secs \/ i = Len(secs) + 1  BY <1>6, <1>7
<1>9. SecsShape(next)  BY <1>5, <1>6, <1>8 DEF SecsShape
<1>10. ASSUME NEW i, NEW j, NEW k, At(next, i, j, k)
       PROVE  At(secs, i, j, k) /\ Num(next, i, j, k) = Num(secs, i, j, k)
  <2>1. Stands(next, i, j) /\ k \in DOMAIN List(next, i, j)
          /\ i \in DOMAIN next  BY <1>10 DEF At, Stands
  <2>2. CASE i \in DOMAIN secs
    <3>1. next[i] = secs[i]  BY <1>6, <2>2
    <3> QED BY <2>1, <2>2, <3>1 DEF At, Num, Stands, List
  <2>3. CASE i = Len(secs) + 1
    <3>1. next[i] = s  BY <1>6, <2>3
    <3>2. j = 0  BY <1>3, <1>4, <2>1, <3>1 DEF Stands
    <3>3. List(next, i, j) = <<>>  BY <1>3, <3>1, <3>2 DEF List
    <3> QED BY <1>4, <2>1, <3>3
  <2> QED BY <1>8, <2>1, <2>2, <2>3
<1>11. Numbered(next, seen)  BY <1>10, NumberedAsBefore
<1> QED BY <1>1, <1>2, <1>9, <1>11

LEMMA SubAdded ==
    ASSUME NEW secs, SecsShape(secs), secs # <<>>, NEW seen, Numbered(secs, seen), NEW title
    PROVE  LET next == OnLast(secs, LAMBDA s : [s EXCEPT !.subs = Append(s.subs, Subsection(title))]) IN
           SecsShape(next) /\ Numbered(next, seen)
<1>0. PICK n : n = Len(secs)  OBVIOUS
<1>1. n \in DOMAIN secs /\ SectionShape(secs[n])  BY <1>0, TargetIsLast
<1>2. PICK s : s = secs[n]  OBVIOUS
<1>3. PICK u : u = Subsection(title)  OBVIOUS
<1>4. {"title", "intro", "rules"} \subseteq DOMAIN u /\ u.rules = <<>>  BY <1>3 DEF Subsection
<1>5. IsSeq(<<>>) /\ DOMAIN <<>> = {}  BY DEF IsSeq
<1>6. SubShape(u)  BY <1>4, <1>5 DEF SubShape, RulesShape
<1>7. PICK us : us = Append(s.subs, u)  OBVIOUS
<1>8. /\ IsSeq(us) /\ DOMAIN us = 1..Len(s.subs) + 1 /\ us[Len(s.subs) + 1] = u
      /\ \A j \in DOMAIN s.subs : us[j] = s.subs[j]
  BY <1>1, <1>2, <1>7, SeqLonger DEF SectionShape
<1>9. Len(s.subs) \in Nat /\ DOMAIN s.subs = 1..Len(s.subs)  BY <1>1, <1>2, SeqDomain DEF SectionShape
<1>10. \A j \in DOMAIN us : j \in DOMAIN s.subs \/ j = Len(s.subs) + 1  BY <1>8, <1>9
<1>11. PICK t : t = [s EXCEPT !.subs = us]  OBVIOUS
<1>12. DOMAIN t = DOMAIN s /\ t.rules = s.rules /\ t.subs = us  BY <1>1, <1>2, <1>11 DEF SectionShape
<1>13. SectionShape(t)
  <2>1. \A j \in DOMAIN us : SubShape(us[j])  BY <1>1, <1>2, <1>6, <1>8, <1>10 DEF SectionShape
  <2> QED BY <1>1, <1>2, <1>8, <1>12, <2>1 DEF SectionShape
<1>14. PICK next : next = OnLast(secs, LAMBDA x : [x EXCEPT !.subs = Append(x.subs,
         Subsection(title))])  OBVIOUS
<1>15. next = [i \in DOMAIN secs |-> IF i = n THEN t ELSE secs[i]]
  BY <1>0, <1>2, <1>3, <1>7, <1>11, <1>14 DEF OnLast
<1>16. IsSeq(next) /\ DOMAIN next = DOMAIN secs
  <2>1. next = [i \in DOMAIN secs |-> next[i]]  BY <1>15
  <2> QED BY <2>1, SeqMapped DEF SecsShape
<1>17. SecsShape(next)  BY <1>13, <1>15, <1>16 DEF SecsShape
<1>18. ASSUME NEW i, NEW j, NEW k, At(next, i, j, k)
       PROVE  At(secs, i, j, k) /\ Num(next, i, j, k) = Num(secs, i, j, k)
  <2>1. Stands(next, i, j) /\ k \in DOMAIN List(next, i, j)
          /\ i \in DOMAIN secs  BY <1>16, <1>18 DEF At, Stands
  <2>2. CASE i # n
    <3>1. next[i] = secs[i]  BY <1>15, <2>1, <2>2
    <3> QED BY <2>1, <3>1 DEF At, Num, Stands, List
  <2>3. CASE i = n
    <3>1. next[i] = t /\ secs[i] = s  BY <1>2, <1>15, <2>1, <2>3
    <3>2. j \in {0} \cup DOMAIN us  BY <1>12, <2>1, <3>1 DEF Stands
    <3>3. CASE j = 0  BY <1>12, <2>1, <3>1, <3>3 DEF At, Num, Stands, List
    <3>4. CASE j # 0 /\ j \in DOMAIN s.subs
      <4>1. us[j] = s.subs[j]  BY <1>8, <3>4
      <4> QED BY <1>12, <2>1, <3>1, <3>4, <4>1 DEF At, Num, Stands, List
    <3>5. CASE j # 0 /\ j \notin DOMAIN s.subs
      <4>1. us[j] = u  BY <1>8, <1>10, <3>2, <3>5
      <4>2. List(next, i, j) = <<>>  BY <1>4, <1>12, <3>1, <3>5, <4>1 DEF List
      <4> QED BY <1>5, <2>1, <4>2
    <3> QED BY <3>3, <3>4, <3>5
  <2> QED BY <2>2, <2>3
<1>19. Numbered(next, seen)  BY <1>18, NumberedAsBefore
<1> QED BY <1>14, <1>17, <1>19

\* A line read leaves what is read well numbered.
LEMMA LineRead ==
    ASSUME NEW d, Reading(d), NEW l
    PROVE  Reading(ParseLine(d, l))
<1>1. PICK e : e = ParseLine(d, l)  OBVIOUS
<1>2. PICK secs, seen : secs = d.secs /\ seen = d.seen  OBVIOUS
<1>3. SecsShape(secs) /\ Numbered(secs, seen)
        /\ {"ok", "intro", "secs", "seen", "inPoint"} \subseteq DOMAIN d
  BY <1>2 DEF Reading
<1>4. CASE ~d.ok \/ Misplaced(d, l)
  <2>1. e = [d EXCEPT !.ok = FALSE]  BY <1>1, <1>4 DEF ParseLine
  <2>2. DOMAIN e = DOMAIN d /\ e.secs = secs /\ e.seen = seen  BY <1>2, <1>3, <2>1
  <2> QED BY <1>1, <1>3, <2>2 DEF Reading
<1>5. CASE d.ok /\ ~Misplaced(d, l)
  <2>0. /\ l.is = "head" \/ secs # <<>> \/ l.is = "intro"
        /\ l.is = "rule" => l.num \notin seen
    BY <1>2, <1>5 DEF Misplaced
  <2>1. CASE l.is = "intro" /\ secs = <<>>
    <3>1. e = [d EXCEPT !.intro = Append(d.intro, l.text)]  BY <1>1, <1>2, <1>5, <2>1 DEF ParseLine
    <3>2. DOMAIN e = DOMAIN d /\ e.secs = secs /\ e.seen = seen  BY <1>2, <1>3, <3>1
    <3> QED BY <1>1, <1>3, <3>2 DEF Reading
  <2>2. CASE l.is = "intro" /\ secs # <<>>
    <3>0. PICK next : next = WithIntro(secs, l.text)  OBVIOUS
    <3>1. e = [d EXCEPT !.secs = next]  BY <1>1, <1>2, <1>5, <2>2, <3>0 DEF ParseLine
    <3>2. DOMAIN e = DOMAIN d /\ e.secs = next /\ e.seen = seen  BY <1>2, <1>3, <3>1
    <3>3. /\ SecsShape(next)
          /\ \A i, j : Stands(next, i, j) => Stands(secs, i, j) /\ List(next, i, j) = List(secs, i, j)
      BY <1>3, <2>2, <3>0, WithIntroThere
    <3>4. \A i, j, k : At(next, i, j, k) => At(secs, i, j, k) /\ Num(next, i, j, k) = Num(secs, i, j, k)
      BY <3>3 DEF At, Num
    <3>5. Numbered(next, seen)  BY <1>3, <3>4, NumberedAsBefore
    <3> QED BY <1>1, <1>3, <3>2, <3>3, <3>5 DEF Reading
  <2>3. CASE l.is = "head"
    <3>0. PICK next : next = Append(secs, Section(l.text))  OBVIOUS
    <3>1. e = [d EXCEPT !.secs = next]  BY <1>1, <1>2, <1>5, <2>3, <3>0 DEF ParseLine
    <3>2. DOMAIN e = DOMAIN d /\ e.secs = next /\ e.seen = seen  BY <1>2, <1>3, <3>1
    <3>3. SecsShape(next) /\ Numbered(next, seen)  BY <1>3, <3>0, HeadAdded
    <3> QED BY <1>1, <1>3, <3>2, <3>3 DEF Reading
  <2>4. CASE l.is = "sub"
    <3>0. PICK next : next = OnLast(secs, LAMBDA s : [s EXCEPT !.subs = Append(s.subs,
            Subsection(l.text))])  OBVIOUS
    <3>1. e = [d EXCEPT !.inPoint = FALSE, !.secs = next]  BY <1>1, <1>2, <1>5, <2>4, <3>0 DEF ParseLine
    <3>2. DOMAIN e = DOMAIN d /\ e.secs = next /\ e.seen = seen  BY <1>2, <1>3, <3>1
    <3>3. SecsShape(next) /\ Numbered(next, seen)  BY <1>3, <2>0, <2>4, <3>0, SubAdded
    <3> QED BY <1>1, <1>3, <3>2, <3>3 DEF Reading
  <2>5. CASE l.is = "rule"
    <3>0. PICK r : r = Rule(l.num, l.text)  OBVIOUS
    <3>1. PICK next : next = WithRules(secs, Append(Target(secs), r))  OBVIOUS
    <3>2. e = [d EXCEPT !.inPoint = FALSE, !.seen = seen \cup {l.num}, !.secs = next]
      BY <1>1, <1>2, <1>5, <2>5, <3>0, <3>1 DEF ParseLine
    <3>3. DOMAIN e = DOMAIN d /\ e.secs = next /\ e.seen = seen \cup {l.num}  BY <1>2, <1>3, <3>2
    <3>4. RuleShape(r) /\ r.num = l.num  BY <3>0 DEF Rule, RuleShape
    <3>5. secs # <<>> /\ r.num \notin seen  BY <2>0, <2>5, <3>4
    <3>6. SecsShape(next) /\ Numbered(next, seen \cup {r.num})  BY <1>3, <3>1, <3>4, <3>5, RuleAdded
    <3> QED BY <1>1, <1>3, <3>3, <3>4, <3>6 DEF Reading
  <2>6. CASE l.is \notin {"intro", "head", "sub", "rule"}
    <3>0. secs # <<>>  BY <2>0, <2>6
    <3>1. PICK old : old = Target(secs)  OBVIOUS
    <3>2. RulesShape(old)  BY <1>3, <3>0, <3>1, TargetIsLast
    <3>3. PICK last : last = old[Len(old)]  OBVIOUS
    <3>4. old # <<>> => RuleShape(last)
      <4>1. Len(old) \in Nat /\ DOMAIN old = 1..Len(old)  BY <3>2, SeqDomain DEF RulesShape
      <4>2. old # <<>> => Len(old) # 0  BY <3>2, EmptySeq DEF RulesShape, IsSeq
      <4> QED BY <3>2, <3>3, <4>1, <4>2 DEF RulesShape
    <3>5. PICK r : r = CASE l.is = "point" -> AddPoint(last, l.text)
                         [] l.is = "subpoint" -> IF last.points = <<>> THEN AddPoint(last, l.text)
                           ELSE AddSub(last, l.text)
                         [] OTHER -> Continued(last, l.text, d.inPoint)
      OBVIOUS
    <3>6. old # <<>> => RuleShape(r) /\ r.num = last.num
      BY <3>4, <3>5, PointAdded, SubPointAdded, RuleContinued
    <3>7. PICK rules : rules = [k \in DOMAIN old |-> IF k = Len(old) THEN r ELSE old[k]]  OBVIOUS
    <3>8. Edited(rules, old)  BY <3>2, <3>3, <3>6, <3>7, LastRuleEdited
    <3>9. PICK next : next = WithRules(secs, rules)  OBVIOUS
    <3>10. SecsShape(next) /\ Numbered(next, seen)  BY <1>3, <3>0, <3>1, <3>8, <3>9, EditedInPlace
    <3>11. DOMAIN e = DOMAIN d /\ e.secs = next /\ e.seen = seen
      <4>1. CASE l.is = "point"
        <5>1. rules = OnLast(old, LAMBDA x : AddPoint(x, l.text))  BY <3>3, <3>5, <3>7, <4>1 DEF OnLast
        <5>2. e = [d EXCEPT !.inPoint = TRUE, !.secs = next]
          BY <1>1, <1>2, <1>5, <3>1, <3>9, <4>1, <5>1 DEF ParseLine
        <5> QED BY <1>2, <1>3, <5>2
      <4>2. CASE l.is = "subpoint"
        <5>1. rules = OnLast(old, LAMBDA x : IF x.points = <<>> THEN AddPoint(x, l.text) ELSE AddSub(x,
                l.text))
          BY <3>3, <3>5, <3>7, <4>2 DEF OnLast
        <5>2. e = [d EXCEPT !.inPoint = TRUE, !.secs = next]
          BY <1>1, <1>2, <1>5, <3>1, <3>9, <4>2, <5>1 DEF ParseLine
        <5> QED BY <1>2, <1>3, <5>2
      <4>3. CASE l.is \notin {"point", "subpoint"}
        <5>1. rules = OnLast(old, LAMBDA x : Continued(x, l.text, d.inPoint))  BY <3>3, <3>5, <3>7, <4>3
                DEF OnLast
        <5>2. e = [d EXCEPT !.secs = next]
          BY <1>1, <1>2, <1>5, <2>6, <3>1, <3>9, <4>3, <5>1 DEF ParseLine
        <5> QED BY <1>2, <1>3, <5>2
      <4> QED BY <4>1, <4>2, <4>3
    <3> QED BY <1>1, <1>3, <3>10, <3>11 DEF Reading
  <2> QED BY <2>1, <2>2, <2>3, <2>4, <2>5, <2>6
<1> QED BY <1>4, <1>5

\* A text read to its line n.
ReadTo(f, body, n) == f = [i \in 0..n |-> IF i = 0 THEN Unparsed ELSE ParseLine(f[i - 1], body[i])]

LEMMA Readable ==
    ASSUME NEW body, Len(body) \in Nat, NEW n \in 0..Len(body)
    PROVE  \E f : ReadTo(f, body, n)
<1> DEFINE T == {m \in 0..Len(body) : ~ \E f : ReadTo(f, body, m)}
<1>1. ASSUME T # {} PROVE FALSE
  <2>0. T \subseteq Nat  OBVIOUS
  <2>1. PICK m \in T : \A k \in T : m <= k
    <3> HIDE DEF T
    <3> QED BY <1>1, <2>0, LeastNumber
  <2>2. m \in 0..Len(body) /\ ~ \E f : ReadTo(f, body, m)  BY <2>1
  <2>3. CASE m = 0
    <3>1. PICK f : f = [i \in 0..0 |-> Unparsed]  OBVIOUS
    <3>2. ReadTo(f, body, 0)  BY <3>1 DEF ReadTo
    <3> QED BY <2>2, <2>3, <3>2
  <2>4. CASE m # 0
    <3>1. m - 1 \in 0..Len(body) /\ ~(m <= m - 1)  BY <2>2, <2>4
    <3>2. PICK g : ReadTo(g, body, m - 1)  BY <2>1, <3>1
    <3>3. PICK f : f = [i \in 0..m |-> IF i = m THEN ParseLine(g[m - 1], body[m]) ELSE g[i]]  OBVIOUS
    <3>4. ASSUME NEW i \in 0..m PROVE f[i] = IF i = 0 THEN Unparsed ELSE ParseLine(f[i - 1], body[i])
      <4>1. CASE i = m
        <5>1. f[i] = ParseLine(g[m - 1], body[m]) /\ f[i - 1] = g[m - 1]  BY <2>2, <2>4, <3>3, <4>1
        <5> QED BY <2>4, <4>1, <5>1
      <4>2. CASE i # m
        <5>1. i \in 0..(m - 1)  BY <2>2, <4>2
        <5>2. g[i] = IF i = 0 THEN Unparsed ELSE ParseLine(g[i - 1], body[i])  BY <3>2, <5>1 DEF ReadTo
        <5>3. f[i] = g[i] /\ (i # 0 => f[i - 1] = g[i - 1])  BY <2>2, <3>3, <4>2, <5>1
        <5> QED BY <5>2, <5>3
      <4> QED BY <4>1, <4>2
    <3>5. f = [i \in 0..m |-> f[i]]  BY <3>3
    <3>6. ReadTo(f, body, m)  BY <3>4, <3>5 DEF ReadTo
    <3> QED BY <2>2, <3>6
  <2> QED BY <2>3, <2>4
<1> QED BY <1>1

LEMMA TextRead == ASSUME NEW body, Len(body) \in Nat PROVE Reading(Parsed(body))
<1> DEFINE IsRead(f) == f = [i \in 0..Len(body) |-> IF i = 0 THEN Unparsed ELSE ParseLine(f[i - 1],
      body[i])]
<1>1. Parsed(body) = (CHOOSE f : IsRead(f))[Len(body)]  BY DEF Parsed
<1>2. \A f : IsRead(f) <=> ReadTo(f, body, Len(body))  BY DEF ReadTo
<1>3. \E f : IsRead(f)
  <2>1. \E f : ReadTo(f, body, Len(body))  BY Readable
  <2> QED BY <1>2, <2>1
<1>4. PICK g : g = CHOOSE f : IsRead(f)  OBVIOUS
<1>5. ReadTo(g, body, Len(body))
  <2> HIDE DEF IsRead
  <2> QED BY <1>2, <1>3, <1>4
<1>6. Reading(Unparsed)
  <2>1. IsSeq(<<>>) /\ DOMAIN <<>> = {}  BY DEF IsSeq
  <2>2. SecsShape(<<>>)  BY <2>1 DEF SecsShape
  <2>3. \A i, j, k : ~At(<<>>, i, j, k)  BY <2>1 DEF At, Stands
  <2>4. Numbered(<<>>, {})  BY <2>3 DEF Numbered
  <2> QED BY <2>2, <2>4 DEF Reading, Unparsed
<1>7. ASSUME NEW i \in 0..Len(body), ~Reading(g[i]) PROVE FALSE
  <2> DEFINE T == {m \in 0..Len(body) : ~Reading(g[m])}
  <2>1. T \subseteq Nat /\ T # {}  BY <1>7
  <2>2. PICK m \in T : \A k \in T : m <= k
    <3> HIDE DEF T
    <3> QED BY <2>1, LeastNumber
  <2>3. m \in 0..Len(body) /\ ~Reading(g[m])  BY <2>2
  <2>4. m # 0  BY <1>5, <1>6, <2>3 DEF ReadTo
  <2>5. m - 1 \in 0..Len(body) /\ ~(m <= m - 1)  BY <2>3, <2>4
  <2>6. Reading(g[m - 1])  BY <2>2, <2>5
  <2>7. g[m] = ParseLine(g[m - 1], body[m])  BY <1>5, <2>3, <2>4 DEF ReadTo
  <2> QED BY <2>3, <2>6, <2>7, LineRead
<1>8. Reading(g[Len(body)])  BY <1>7
<1> HIDE DEF IsRead
<1> QED BY <1>1, <1>4, <1>8

LEMMA RulesSomewhere ==
    ASSUME NEW secs, SecsShape(secs), NEW r \in AllRules(secs)
    PROVE  \E i, j, k : At(secs, i, j, k) /\ r = List(secs, i, j)[k]
<1>1. PICK i \in DOMAIN secs :
         \/ r \in ToSet(secs[i].rules)
         \/ \E j \in DOMAIN secs[i].subs : r \in ToSet(secs[i].subs[j].rules)
  BY DEF AllRules
<1>2. SectionShape(secs[i])  BY DEF SecsShape
<1>3. CASE r \in ToSet(secs[i].rules)
  <2>1. PICK k \in DOMAIN secs[i].rules : r = secs[i].rules[k]  BY <1>3 DEF ToSet
  <2>2. Stands(secs, i, 0) /\ List(secs, i, 0) = secs[i].rules  BY DEF Stands, List
  <2>3. At(secs, i, 0, k) /\ r = List(secs, i, 0)[k]  BY <2>1, <2>2 DEF At
  <2> QED BY <2>3
<1>4. ASSUME NEW j \in DOMAIN secs[i].subs, r \in ToSet(secs[i].subs[j].rules)
      PROVE  \E k : At(secs, i, j, k) /\ r = List(secs, i, j)[k]
  <2>1. PICK k \in DOMAIN secs[i].subs[j].rules : r = secs[i].subs[j].rules[k]  BY <1>4 DEF ToSet
  <2>2. j # 0
    <3>1. Len(secs[i].subs) \in Nat
            /\ DOMAIN secs[i].subs = 1..Len(secs[i].subs)  BY <1>2, SeqDomain DEF SectionShape
    <3> QED BY <1>4, <3>1
  <2>3. Stands(secs, i, j) /\ List(secs, i, j) = secs[i].subs[j].rules  BY <2>2 DEF Stands, List
  <2>4. At(secs, i, j, k) /\ r = List(secs, i, j)[k]  BY <2>1, <2>3 DEF At
  <2> QED BY <2>4
<1> QED BY <1>1, <1>3, <1>4

\* A text gives a number to one rule.
LEMMA NumbersOnce ==
    ASSUME NEW body, Len(body) \in Nat,
           NEW r \in AllRules(ParseDoc(body).secs), NEW x \in AllRules(ParseDoc(body).secs),
             r.num = x.num
    PROVE  r = x
<1>1. PICK d : d = Parsed(body) /\ Reading(d)  BY TextRead
<1>2. PICK secs : secs = d.secs  OBVIOUS
<1>0. SecsShape(secs)  BY <1>1, <1>2 DEF Reading
<1>3. ParseDoc(body).secs = secs  BY <1>1, <1>2 DEF ParseDoc, Reading
<1>4. Numbered(secs, d.seen)  BY <1>1, <1>2 DEF Reading
<1>5. PICK i, j, k : At(secs, i, j, k) /\ r = List(secs, i, j)[k]  BY <1>0, <1>3, RulesSomewhere
<1>6. PICK a, b, c : At(secs, a, b, c) /\ x = List(secs, a, b)[c]  BY <1>0, <1>3, RulesSomewhere
<1>7. i = a /\ j = b /\ k = c  BY <1>4, <1>5, <1>6 DEF Numbered, Num
<1> QED BY <1>5, <1>6, <1>7

\* What a version or a save says has changed since a text.
ChangedSince(before, body, changed) == changed = Changed(ParseDoc(before).secs, ParseDoc(body).secs)

LEMMA ChangedTold ==
    ASSUME NEW before, NEW body, Len(body) \in Nat, NEW changed, ChangedSince(before, body, changed),
           NEW r \in AllRules(ParseDoc(body).secs)
    PROVE  r.num \in changed <=> \A x \in AllRules(ParseDoc(before).secs) : Content(x) # Content(r)
<1>1. PICK here, there : here = AllRules(ParseDoc(body).secs)
        /\ there = AllRules(ParseDoc(before).secs)  OBVIOUS
<1>2. changed = {q.num : q \in {y \in here : Content(y) \notin {Content(x) : x \in there}}}
  BY <1>1 DEF ChangedSince, Changed
<1>3. CASE r.num \in changed
  <2>1. PICK q \in here : q.num = r.num /\ Content(q) \notin {Content(x) : x \in there}  BY <1>2, <1>3
  <2>2. q = r  BY <1>1, <2>1, NumbersOnce
  <2> QED BY <1>1, <1>3, <2>1, <2>2
<1>4. CASE r.num \notin changed
  <2>1. Content(r) \in {Content(x) : x \in there}  BY <1>1, <1>2, <1>4
  <2> QED BY <1>1, <1>4, <2>1
<1> QED BY <1>3, <1>4

\* A save that has a text.
Text(q) == {"at", "body", "form"} \subseteq DOMAIN q /\ q.body \in Bodies

RulesInv ==
    /\ IsSeq(versions) /\ \A v \in DOMAIN versions : versions[v].body \in Bodies
    /\ DOMAIN saving = Editors
    /\ \A e \in Editors : saving[e].at \in {"lock", "diff", "publish"} => Text(saving[e])
    \* one save at a time compares and inserts,
    /\ \A e, f \in Editors : saving[e].at \in {"diff", "publish"}
         /\ saving[f].at \in {"diff", "publish"} => e = f
    \* so that what it compared with is still the last version
    /\ \A e \in Editors : saving[e].at = "publish" /\ versions # <<>> =>
          ChangedSince(Last(versions).body, saving[e].body, saving[e].changed)
    /\ \A v \in 2..Len(versions) : ChangedSince(versions[v - 1].body, versions[v].body,
         versions[v].changed)

LEMMA ChangesRead == ASSUME RulesInv PROVE HighlightsTrue
<1>1. Len(versions) \in Nat /\ DOMAIN versions = 1..Len(versions)  BY SeqDomain DEF RulesInv
<1>2. ASSUME NEW v \in 2..Len(versions), NEW r \in AllRules(ParseDoc(versions[v].body).secs)
      PROVE  r.num \in versions[v].changed <=>
             \A x \in AllRules(ParseDoc(versions[v - 1].body).secs) : Content(x) # Content(r)
  <2>1. ChangedSince(versions[v - 1].body, versions[v].body, versions[v].changed)  BY DEF RulesInv
  <2>2. versions[v].body \in Bodies  BY <1>1 DEF RulesInv
  <2>3. Len(versions[v].body) \in Nat  BY <2>2, RulebookAssumption
  <2> QED BY <2>1, <2>3, ChangedTold
<1> QED BY <1>2 DEF HighlightsTrue

LEMMA RulesStart == ASSUME RulebookInit PROVE RulesInv
<1>1. IsSeq(<<>>) /\ DOMAIN <<>> = {} /\ Len(<<>>) = 0  BY DEF IsSeq
<1>2. versions = <<>> /\ DOMAIN saving = Editors /\ \A e \in Editors : saving[e].at = "idle"
  BY DEF RulebookInit, NotSaving
<1> QED BY <1>1, <1>2 DEF RulesInv

\* Only the save of e goes on.
OnlySaving(e) == e \in Editors /\ DOMAIN saving' = Editors
  /\ \A f \in Editors : f # e => saving'[f] = saving[f]

LEMMA SavingOf ==
    ASSUME RulesInv, NEW e \in Editors, NEW next, Saving(e, next) PROVE OnlySaving(e)
             /\ saving'[e] = next
BY DEF Saving, OnlySaving, RulesInv

LEMMA SaveStops ==
    ASSUME RulesInv, NEW e, OnlySaving(e), saving'[e].at \notin {"lock", "diff", "publish"},
             UNCHANGED versions
    PROVE  RulesInv'
<1>1. \A f \in Editors : saving'[f].at \in {"lock", "diff", "publish"} => f # e
        /\ saving'[f] = saving[f]
  BY DEF OnlySaving
<1>2. IsSeq(versions)' /\ (\A v \in DOMAIN versions : versions[v].body \in Bodies)'
        /\ DOMAIN saving' = Editors
  BY DEF RulesInv, OnlySaving
<1>3. \A f \in Editors : saving'[f].at \in {"lock", "diff", "publish"}
        => Text(saving[f])'  BY <1>1 DEF RulesInv, Text
<1>4. \A f, h \in Editors : saving'[f].at \in {"diff", "publish"}
        /\ saving'[h].at \in {"diff", "publish"} => f = h
  BY <1>1 DEF RulesInv
<1>5. \A f \in Editors : saving'[f].at = "publish" /\ versions' # <<>> =>
          ChangedSince(Last(versions').body, saving'[f].body, saving'[f].changed)
  BY <1>1 DEF RulesInv
<1>6. \A v \in 2..Len(versions') : ChangedSince(versions'[v - 1].body, versions'[v].body,
        versions'[v].changed)
  BY DEF RulesInv
<1> QED BY <1>2, <1>3, <1>4, <1>5, <1>6 DEF RulesInv, Text, ChangedSince

LEMMA RulesKeep == ASSUME RulesInv, RulebookNext \/ UNCHANGED ruleVars PROVE RulesInv'
<1>0. CASE UNCHANGED ruleVars
  BY <1>0 DEF RulesInv, ruleVars, Text, ChangedSince
<1>1. ASSUME NEW e \in Editors, NEW body \in Bodies, NEW form, NEW note,
             Saving(e, [at |-> "lock", body |-> body, form |-> form, note |-> note]), UNCHANGED versions
      PROVE  RulesInv'
  <2>1. PICK q : q = [at |-> "lock", body |-> body, form |-> form, note |-> note]  OBVIOUS
  <2>2. OnlySaving(e) /\ saving'[e] = q  BY <1>1, <2>1, SavingOf
  <2>3. q.at = "lock" /\ Text(q)  BY <2>1 DEF Text
  <2>4. \A f \in Editors : saving'[f].at \in {"lock", "diff", "publish"} => Text(saving'[f])
    BY <2>2, <2>3 DEF OnlySaving, RulesInv
  <2>5. \A f \in Editors : saving'[f].at \in {"diff", "publish"} => saving'[f] = saving[f]
    BY <2>2, <2>3 DEF OnlySaving
  <2>6. DOMAIN saving' = Editors  BY <2>2 DEF OnlySaving
  <2>7. \A f, h \in Editors : saving'[f].at \in {"diff", "publish"}
          /\ saving'[h].at \in {"diff", "publish"} => f = h
    BY <2>5 DEF RulesInv
  <2>8. \A f \in Editors : saving'[f].at = "publish" /\ versions' # <<>> =>
            ChangedSince(Last(versions').body, saving'[f].body, saving'[f].changed)
    BY <1>1, <2>5 DEF RulesInv
  <2>9. \A v \in 2..Len(versions') : ChangedSince(versions'[v - 1].body, versions'[v].body,
          versions'[v].changed)
    BY <1>1 DEF RulesInv
  <2>10. IsSeq(versions')
           /\ \A v \in DOMAIN versions' : versions'[v].body \in Bodies  BY <1>1 DEF RulesInv
  <2> QED BY <2>4, <2>6, <2>7, <2>8, <2>9, <2>10 DEF RulesInv, Text, ChangedSince
<1>2. ASSUME NEW e \in Editors, NEW note \in BOOLEAN, NEW body \in TextForms,
               SubmitText(e, body, note) PROVE RulesInv'
  BY <1>1, <1>2 DEF SubmitText, Bodies
<1>3. ASSUME NEW e \in Editors, NEW note \in BOOLEAN, NEW doc \in SectionForms,
               SubmitSections(e, doc, note) PROVE RulesInv'
  <2>1. PICK body, form : body = FormatDoc(CleanDoc(doc)) /\ form = CleanDoc(doc)  OBVIOUS
  <2>2. body \in Bodies  BY <2>1 DEF Bodies
  <2>3. Saving(e, [at |-> "lock", body |-> body, form |-> form, note |-> note]) /\ UNCHANGED versions
    BY <1>3, <2>1 DEF SubmitSections
  <2> QED BY <1>1, <2>2, <2>3
<1>4. ASSUME NEW e \in Editors, LockTable(e) PROVE RulesInv'
  <2>1. PICK p : p = saving[e]  OBVIOUS
  <2>2. p.at = "lock" /\ Text(p) /\ UNCHANGED versions  BY <1>4, <2>1 DEF LockTable, RulesInv
  <2>3. \A f \in Editors : saving[f].at \notin {"diff", "publish"}  BY <1>4 DEF LockTable, Locked
  <2>4. PICK q : q = [p EXCEPT !.at = "diff"]  OBVIOUS
  <2>5. OnlySaving(e) /\ saving'[e] = q  BY <1>4, <2>1, <2>4, SavingOf DEF LockTable
  <2>6. q.at = "diff" /\ Text(q)  BY <2>2, <2>4 DEF Text
  <2>7. \A f \in Editors : saving'[f].at \in {"diff", "publish"} => f = e  BY <2>3, <2>5 DEF OnlySaving
  <2>8. \A f \in Editors : saving'[f].at # "publish"  BY <2>5, <2>6, <2>7
  <2>9. \A f \in Editors : saving'[f].at \in {"lock", "diff", "publish"} => Text(saving'[f])
    BY <2>5, <2>6 DEF OnlySaving, RulesInv
  <2>10. IsSeq(versions') /\ (\A v \in DOMAIN versions' : versions'[v].body \in Bodies)
           /\ DOMAIN saving' = Editors
    BY <2>2, <2>5 DEF RulesInv, OnlySaving
  <2>11. \A v \in 2..Len(versions') : ChangedSince(versions'[v - 1].body, versions'[v].body,
           versions'[v].changed)
    BY <2>2 DEF RulesInv
  <2> QED BY <2>7, <2>8, <2>9, <2>10, <2>11 DEF RulesInv, Text, ChangedSince
<1>5. ASSUME NEW e \in Editors, Diff(e) PROVE RulesInv'
  <2>1. PICK p : p = saving[e]  OBVIOUS
  <2>2. p.at = "diff" /\ Text(p) /\ UNCHANGED versions  BY <1>5, <2>1 DEF Diff, RulesInv
  <2>3. CASE Saving(e, NotSaving)
    <3>1. NotSaving.at \notin {"lock", "diff", "publish"}  BY DEF NotSaving
    <3>2. OnlySaving(e) /\ saving'[e] = NotSaving  BY <2>3, SavingOf
    <3> QED BY <2>2, <3>1, <3>2, SaveStops
  <2>4. CASE ~Saving(e, NotSaving)
    <3>1. PICK changed : changed = IF versions = <<>> THEN {}
                                   ELSE Changed(ParseDoc(Last(versions).body).secs,
                                          ParseDoc(p.body).secs)
      OBVIOUS
    <3>2. PICK q : q = [at |-> "publish", body |-> p.body, form |-> p.form,
            changed |-> changed]  OBVIOUS
    <3>3. Saving(e, q)  BY <1>5, <2>1, <2>4, <3>1, <3>2 DEF Diff
    <3>4. OnlySaving(e) /\ saving'[e] = q  BY <3>3, SavingOf
    <3>5. q.at = "publish" /\ Text(q)  BY <2>2, <3>2 DEF Text
    <3>6. versions # <<>> => ChangedSince(Last(versions).body, q.body, q.changed)  BY <3>1, <3>2
            DEF ChangedSince
    <3>7. \A f \in Editors : saving'[f].at \in {"diff", "publish"} => f = e
      BY <2>1, <2>2, <3>4 DEF OnlySaving, RulesInv
    <3>8. \A f \in Editors : saving'[f].at \in {"lock", "diff", "publish"} => Text(saving'[f])
      BY <3>4, <3>5 DEF OnlySaving, RulesInv
    <3>9. IsSeq(versions') /\ (\A v \in DOMAIN versions' : versions'[v].body \in Bodies)
            /\ DOMAIN saving' = Editors
      BY <2>2, <3>4 DEF RulesInv, OnlySaving
    <3>10. \A v \in 2..Len(versions') : ChangedSince(versions'[v - 1].body, versions'[v].body,
             versions'[v].changed)
      BY <2>2 DEF RulesInv
    <3>11. \A f \in Editors : saving'[f].at = "publish" /\ versions' # <<>> =>
               ChangedSince(Last(versions').body, saving'[f].body, saving'[f].changed)
      BY <2>2, <3>4, <3>6, <3>7
    <3> QED BY <3>7, <3>8, <3>9, <3>10, <3>11 DEF RulesInv, Text, ChangedSince
  <2> QED BY <2>3, <2>4
<1>6. ASSUME NEW e \in Editors, Publish(e) PROVE RulesInv'
  <2>1. PICK p : p = saving[e]  OBVIOUS
  <2>2. p.at = "publish" /\ Text(p)  BY <1>6, <2>1 DEF Publish, RulesInv
  <2>3. PICK n : n = Len(versions)  OBVIOUS
  <2>4. n \in Nat /\ DOMAIN versions = 1..n  BY <2>3, SeqDomain DEF RulesInv
  <2>5. PICK row : row = [body |-> p.body, changed |-> p.changed, form |-> p.form]  OBVIOUS
  <2>6. PICK q : q = [at |-> "labels", version |-> n + 1]  OBVIOUS
  <2>7. versions' = Append(versions, row) /\ Saving(e, q)  BY <1>6, <2>1, <2>3, <2>5, <2>6 DEF Publish
  <2>8. OnlySaving(e) /\ saving'[e] = q /\ q.at = "labels"  BY <2>6, <2>7, SavingOf
  <2>9. /\ IsSeq(versions') /\ Len(versions') = n + 1 /\ DOMAIN versions' = 1..n + 1
             /\ versions'[n + 1] = row
        /\ \A i \in 1..n : versions'[i] = versions[i]
    BY <2>3, <2>4, <2>7, SeqLonger DEF RulesInv
  <2>10. \A f \in Editors : saving'[f].at \notin {"diff", "publish"}
    BY <2>1, <2>2, <2>8 DEF OnlySaving, RulesInv
  <2>11. \A f \in Editors : saving'[f].at = "lock" => Text(saving'[f])  BY <2>8 DEF OnlySaving, RulesInv
  <2>12. \A v \in DOMAIN versions' : versions'[v].body \in Bodies
    <3>1. ASSUME NEW v \in 1..n PROVE versions'[v].body \in Bodies  BY <2>4, <2>9 DEF RulesInv
    <3>2. versions'[n + 1].body \in Bodies  BY <2>2, <2>5, <2>9 DEF Text
    <3>3. \A v \in 1..n + 1 : v \in 1..n \/ v = n + 1  BY <2>4
    <3> QED BY <2>9, <3>1, <3>2, <3>3
  <2>13. ASSUME NEW v \in 2..n + 1
         PROVE  ChangedSince(versions'[v - 1].body, versions'[v].body, versions'[v].changed)
    <3>1. CASE v \in 2..n
      <4>1. v \in 1..n /\ v - 1 \in 1..n  BY <2>4, <3>1
      <4>2. versions'[v] = versions[v] /\ versions'[v - 1] = versions[v - 1]  BY <2>9, <4>1
      <4> QED BY <2>3, <3>1, <4>2 DEF RulesInv
    <3>2. CASE v = n + 1
      <4>1. n \in 1..n /\ v - 1 = n  BY <2>4, <3>2
      <4>2. versions # <<>> /\ Last(versions) = versions[n]  BY <2>3, <4>1 DEF Last
      <4>3. ChangedSince(versions[n].body, p.body, p.changed)  BY <2>1, <2>2, <4>2 DEF RulesInv
      <4>4. versions'[v - 1] = versions[n] /\ versions'[v] = row  BY <2>9, <3>2, <4>1
      <4>5. row.body = p.body /\ row.changed = p.changed  BY <2>5
      <4> QED BY <4>3, <4>4, <4>5
    <3> QED BY <2>4, <3>1, <3>2
  <2>14. DOMAIN saving' = Editors  BY <2>8 DEF OnlySaving
  <2> QED BY <2>9, <2>10, <2>11, <2>12, <2>13, <2>14 DEF RulesInv, Text, ChangedSince
<1>7. ASSUME NEW e \in Editors, NEW next, next.at \notin {"lock", "diff", "publish"}, Saving(e, next),
               UNCHANGED versions
      PROVE  RulesInv'
  <2>1. OnlySaving(e) /\ saving'[e] = next  BY <1>7, SavingOf
  <2> QED BY <1>7, <2>1, SaveStops
<1>8. ASSUME NEW e \in Editors, SaveFails(e) \/ SendNotice(e) PROVE RulesInv'
  <2>1. NotSaving.at \notin {"lock", "diff", "publish"}  BY DEF NotSaving
  <2>2. Saving(e, NotSaving) /\ UNCHANGED versions  BY <1>8 DEF SaveFails, SendNotice
  <2> QED BY <1>7, <2>1, <2>2
<1>9. ASSUME NEW e \in Editors, NEW essential \in BOOLEAN, ReadLabels(e, essential) PROVE RulesInv'
  <2>1. PICK next : next = IF essential
                           THEN [at |-> "notice", version |-> saving[e].version,
                                  labels |-> Last(versions).changed]
                           ELSE NotSaving
    OBVIOUS
  <2>2. next.at \notin {"lock", "diff", "publish"}  BY <2>1 DEF NotSaving
  <2>3. Saving(e, next) /\ UNCHANGED versions  BY <1>9, <2>1 DEF ReadLabels
  <2> QED BY <1>7, <2>2, <2>3
<1> QED BY <1>0, <1>2, <1>3, <1>4, <1>5, <1>6, <1>8, <1>9 DEF RulebookNext

-------------------------------------------------------------------------------
(* The section editor: what is read of what it writes is what was in it.     *)

LEMMA SeqJoined ==
    ASSUME NEW a, IsSeq(a), NEW b, IsSeq(b)
    PROVE  /\ IsSeq(a \o b) /\ Len(a \o b) = Len(a) + Len(b)
           /\ \A i \in 1..Len(a) : (a \o b)[i] = a[i]
           /\ \A i \in 1..Len(b) : (a \o b)[Len(a) + i] = b[i]
<1>1. PICK A : a \in Seq(A)  BY DEF IsSeq
<1>2. PICK B : b \in Seq(B)  BY DEF IsSeq
<1>3. PICK S : S = A \cup B  OBVIOUS
<1>4. a \in Seq(S) /\ b \in Seq(S)  BY <1>1, <1>2, <1>3
<1>5. PICK c : c = a \o b  OBVIOUS
<1>6. c \in Seq(S) /\ Len(c) = Len(a) + Len(b)
      /\ \A i \in 1..Len(a) + Len(b) : c[i] = IF i <= Len(a) THEN a[i] ELSE b[i - Len(a)]
  BY <1>4, <1>5, ConcatProperties
<1>7. Len(a) \in Nat /\ Len(b) \in Nat  BY <1>4
<1>8. \A i \in 1..Len(a) : c[i] = a[i]
  <2> TAKE i \in 1..Len(a)
  <2>1. i \in 1..Len(a) + Len(b) /\ i <= Len(a)  BY <1>7
  <2> QED BY <1>6, <2>1
<1>9. \A i \in 1..Len(b) : c[Len(a) + i] = b[i]
  <2> TAKE i \in 1..Len(b)
  <2>1. Len(a) + i \in 1..Len(a) + Len(b) /\ ~(Len(a) + i <= Len(a)) /\ (Len(a) + i) - Len(a) = i
    BY <1>7
  <2> QED BY <1>6, <2>1
<1> QED BY <1>5, <1>6, <1>8, <1>9 DEF IsSeq

LEMMA SeqOfOne == ASSUME NEW e PROVE IsSeq(<<e>>) /\ Len(<<e>>) = 1 /\ <<e>>[1] = e
<1>1. <<e>> \in Seq({e})  OBVIOUS
<1> QED BY <1>1 DEF IsSeq

LEMMA SeqOfNone == IsSeq(<<>>) /\ Len(<<>>) = 0
<1>1. <<>> \in Seq({})  OBVIOUS
<1> QED BY <1>1 DEF IsSeq

\* What is so of 0, and of each number after one it is so of, is so up to n.
LEMMA UpTo ==
    ASSUME NEW n \in Nat, NEW G, 0 \in G, \A k \in 1..n : k - 1 \in G => k \in G
    PROVE  \A k \in 0..n : k \in G
<1> DEFINE T == {m \in 0..n : m \notin G}
<1>1. ASSUME T # {} PROVE FALSE
  <2>0. T \subseteq Nat  OBVIOUS
  <2>1. PICK m \in T : \A k \in T : m <= k
    <3> HIDE DEF T
    <3> QED BY <1>1, <2>0, LeastNumber
  <2>2. m \in 0..n /\ m \notin G /\ m # 0  BY <2>1
  <2>3. m - 1 \in 0..n /\ ~(m <= m - 1) /\ m \in 1..n  BY <2>2
  <2>4. m - 1 \in G  BY <2>1, <2>3
  <2> QED BY <2>2, <2>3, <2>4
<1> QED BY <1>1

\* The lines of a text are read one after the other.
Goes(d, body, e) ==
    \E f : f[0] = d /\ f[Len(body)] = e /\ \A i \in 1..Len(body) : f[i] = ParseLine(f[i - 1], body[i])

\* What is read so far: these paragraphs and sections, if there was nothing wrong.
SoFar(intro, secs) == [intro |-> intro, secs |-> secs]
Here(d, x) ==
    /\ d = [ok |-> d.ok, intro |-> d.intro, secs |-> d.secs, seen |-> d.seen, inPoint |-> d.inPoint]
    /\ d.ok \in BOOLEAN /\ (d.ok => d.intro = x.intro /\ d.secs = x.secs)

\* What a line, and what a text, adds to what is read before it.
Adds(x, l, y) == \A d : Here(d, x) => Here(ParseLine(d, l), y)
Takes(x, body, y) == \A d, e : Here(d, x) /\ Goes(d, body, e) => Here(e, y)

LEMMA TakesLines ==
    ASSUME NEW body, Len(body) \in Nat, NEW st, \A k \in 1..Len(body) : Adds(st[k - 1], body[k], st[k])
    PROVE  Takes(st[0], body, st[Len(body)])
<1> SUFFICES ASSUME NEW d, NEW e, Here(d, st[0]), Goes(d, body, e) PROVE Here(e, st[Len(body)])
  BY DEF Takes
<1>1. PICK f : f[0] = d /\ f[Len(body)] = e /\ \A i \in 1..Len(body) : f[i] = ParseLine(f[i - 1], body[i])
  BY DEF Goes
<1>2. PICK G : G = {k \in 0..Len(body) : Here(f[k], st[k])}  OBVIOUS
<1>3. 0 \in G  BY <1>1, <1>2
<1>4. ASSUME NEW k \in 1..Len(body), k - 1 \in G PROVE k \in G
  <2>1. Here(f[k - 1], st[k - 1])  BY <1>2, <1>4
  <2>2. Here(ParseLine(f[k - 1], body[k]), st[k])  BY <2>1 DEF Adds
  <2>3. f[k] = ParseLine(f[k - 1], body[k])  BY <1>1
  <2> QED BY <1>2, <2>2, <2>3
<1>5. Len(body) \in G
  <2>1. \A k \in 0..Len(body) : k \in G  BY <1>3, <1>4, UpTo
  <2> QED BY <2>1
<1> QED BY <1>1, <1>2, <1>5

LEMMA TakesNone == \A x : Takes(x, <<>>, x)
BY DEF Takes, Goes

LEMMA TakesOne ==
    ASSUME NEW x, NEW y, NEW l, Adds(x, l, y)
    PROVE  Takes(x, <<l>>, y)
<1>1. Len(<<l>>) = 1 /\ <<l>>[1] = l  OBVIOUS
<1>2. PICK st : st = [k \in 0..1 |-> IF k = 0 THEN x ELSE y]  OBVIOUS
<1>3. st[0] = x /\ st[1] = y  BY <1>2
<1>4. \A k \in 1..1 : k = 1 /\ k - 1 = 0  OBVIOUS
<1>5. PICK body : body = <<l>>  OBVIOUS
<1>6. Len(body) = 1 /\ Len(body) \in Nat /\ body[1] = l  BY <1>1, <1>5
<1>7. \A k \in 1..Len(body) : Adds(st[k - 1], body[k], st[k])  BY <1>3, <1>4, <1>6
<1>8. Takes(st[0], body, st[Len(body)])  BY <1>6, <1>7, TakesLines
<1> QED BY <1>3, <1>5, <1>6, <1>8

LEMMA TakesBoth ==
    ASSUME NEW x, NEW y, NEW z, NEW a, IsSeq(a), NEW b, IsSeq(b), Takes(x, a, y), Takes(y, b, z)
    PROVE  Takes(x, a \o b, z)
<1> SUFFICES ASSUME NEW d, NEW e, Here(d, x), Goes(d, a \o b, e) PROVE Here(e, z)
  BY DEF Takes
<1>1. PICK c : c = a \o b  OBVIOUS
<1>2. Len(a) \in Nat /\ Len(b) \in Nat  BY SeqDomain
<1>3. /\ Len(c) = Len(a) + Len(b)
      /\ \A i \in 1..Len(a) : c[i] = a[i]
      /\ \A i \in 1..Len(b) : c[Len(a) + i] = b[i]
  BY <1>1, SeqJoined
<1>4. PICK f : f[0] = d /\ f[Len(c)] = e /\ \A i \in 1..Len(c) : f[i] = ParseLine(f[i - 1], c[i])
  BY <1>1 DEF Goes
<1>5. PICK m : m = f[Len(a)]  OBVIOUS
<1>6. Goes(d, a, m)
  <2>1. \A i \in 1..Len(a) : i \in 1..Len(c)  BY <1>2, <1>3
  <2>2. \A i \in 1..Len(a) : f[i] = ParseLine(f[i - 1], a[i])  BY <1>3, <1>4, <2>1
  <2> QED BY <1>4, <1>5, <2>2 DEF Goes
<1>7. Goes(m, b, e)
  <2>1. PICK g : g = [i \in 0..Len(b) |-> f[Len(a) + i]]  OBVIOUS
  <2>2. g[0] = m /\ g[Len(b)] = e  BY <1>2, <1>3, <1>4, <1>5, <2>1
  <2>3. ASSUME NEW i \in 1..Len(b) PROVE g[i] = ParseLine(g[i - 1], b[i])
    <3>1. Len(a) + i \in 1..Len(c) /\ (Len(a) + i) - 1 = Len(a) + (i - 1) /\ i - 1 \in 0..Len(b) /\ i \in 0..Len(b)
      BY <1>2, <1>3
    <3>2. f[Len(a) + i] = ParseLine(f[(Len(a) + i) - 1], c[Len(a) + i])  BY <1>4, <3>1
    <3>3. c[Len(a) + i] = b[i]  BY <1>3
    <3>4. g[i] = f[Len(a) + i] /\ g[i - 1] = f[Len(a) + (i - 1)]  BY <2>1, <3>1
    <3> QED BY <3>1, <3>2, <3>3, <3>4
  <2> QED BY <2>2, <2>3 DEF Goes
<1>8. Here(m, y)  BY <1>6 DEF Takes
<1> QED BY <1>7, <1>8 DEF Takes

\* Sequences joined one after the other.
Joins(g, seqs, n) == g = [i \in 1..n |-> IF i = 1 THEN seqs[i] ELSE g[i - 1] \o seqs[i]]

LEMMA JoinsThere == ASSUME NEW n \in Nat, NEW seqs PROVE \E g : Joins(g, seqs, n)
<1>1. PICK G : G = {k \in 0..n : \E g : Joins(g, seqs, k)}  OBVIOUS
<1>2. 0 \in G
  <2>1. PICK g : g = [i \in 1..0 |-> i]  OBVIOUS
  <2>2. g = [i \in 1..0 |-> IF i = 1 THEN seqs[i] ELSE g[i - 1] \o seqs[i]]  BY <2>1
  <2>3. Joins(g, seqs, 0)  BY <2>2 DEF Joins
  <2> QED BY <1>1, <2>3
<1>3. ASSUME NEW k \in 1..n, k - 1 \in G PROVE k \in G
  <2>1. PICK h : Joins(h, seqs, k - 1)  BY <1>1, <1>3
  <2>2. PICK g : g = [i \in 1..k |-> IF i = k THEN (IF k = 1 THEN seqs[k] ELSE h[k - 1] \o seqs[k]) ELSE h[i]]
    OBVIOUS
  <2>3. ASSUME NEW i \in 1..k PROVE g[i] = IF i = 1 THEN seqs[i] ELSE g[i - 1] \o seqs[i]
    <3>1. CASE i = k
      <4>1. k # 1 => k - 1 \in 1..k /\ k - 1 # k  OBVIOUS
      <4>2. k # 1 => g[k - 1] = h[k - 1]  BY <2>2, <4>1
      <4> QED BY <2>2, <3>1, <4>2
    <3>2. CASE i # k
      <4>1. i \in 1..(k - 1)  BY <3>2
      <4>2. h[i] = IF i = 1 THEN seqs[i] ELSE h[i - 1] \o seqs[i]  BY <2>1, <4>1 DEF Joins
      <4>3. g[i] = h[i]  BY <2>2, <3>2
      <4>4. i # 1 => i - 1 \in 1..k /\ i - 1 # k  BY <4>1
      <4>5. i # 1 => g[i - 1] = h[i - 1]  BY <2>2, <4>4
      <4> QED BY <4>2, <4>3, <4>5
    <3> QED BY <3>1, <3>2
  <2>4. g = [i \in 1..k |-> g[i]]  BY <2>2
  <2>5. Joins(g, seqs, k)  BY <2>3, <2>4 DEF Joins
  <2> QED BY <1>1, <2>5
<1>4. n \in G
  <2>1. \A k \in 0..n : k \in G  BY <1>2, <1>3, UpTo
  <2> QED BY <2>1
<1> QED BY <1>1, <1>4

LEMMA Flattened ==
    ASSUME NEW seqs, IsSeq(seqs), \A k \in 1..Len(seqs) : IsSeq(seqs[k])
    PROVE  \E g : /\ g[0] = <<>> /\ FlattenSeq(seqs) = g[Len(seqs)]
                  /\ \A k \in 0..Len(seqs) : IsSeq(g[k])
                  /\ \A k \in 1..Len(seqs) : g[k] = g[k - 1] \o seqs[k]
<1>0. PICK n : n = Len(seqs) /\ n \in Nat  BY SeqDomain
<1> DEFINE Is(f) == f = [i \in 1..n |-> IF i = 1 THEN seqs[i] ELSE f[i - 1] \o seqs[i]]
<1>1. n # 0 => FlattenSeq(seqs) = (CHOOSE f : Is(f))[n]  BY <1>0 DEF FlattenSeq
<1>2. \A f : Is(f) <=> Joins(f, seqs, n)  BY DEF Joins
<1>3. \E f : Is(f)
  <2>1. \E f : Joins(f, seqs, n)  BY <1>0, JoinsThere
  <2> QED BY <1>2, <2>1
<1>4. PICK h : h = CHOOSE f : Is(f)  OBVIOUS
<1>5. Joins(h, seqs, n)
  <2> HIDE DEF Is
  <2> QED BY <1>2, <1>3, <1>4
<1>6. PICK g : g = [k \in 0..n |-> IF k = 0 THEN <<>> ELSE h[k]]  OBVIOUS
<1>7. FlattenSeq(seqs) = g[n]
  <2>1. CASE n = 0
    <3>1. FlattenSeq(seqs) = seqs  BY <1>0, <2>1 DEF FlattenSeq
    <3>2. seqs = <<>>  BY <1>0, <2>1, EmptySeq DEF IsSeq
    <3> QED BY <1>6, <2>1, <3>1, <3>2
  <2>2. CASE n # 0
    <3> HIDE DEF Is
    <3> QED BY <1>0, <1>1, <1>4, <1>6, <2>2
  <2> QED BY <2>1, <2>2
<1> HIDE DEF Is
<1>8. \A k \in 1..n : g[k] = IF k = 1 THEN seqs[k] ELSE g[k - 1] \o seqs[k]
  <2> TAKE k \in 1..n
  <2>1. h[k] = IF k = 1 THEN seqs[k] ELSE h[k - 1] \o seqs[k]  BY <1>5 DEF Joins
  <2>2. k \in 0..n /\ k # 0 /\ g[k] = h[k]  BY <1>0, <1>6
  <2>3. k # 1 => k - 1 \in 0..n /\ k - 1 # 0  BY <1>0
  <2>4. k # 1 => g[k - 1] = h[k - 1]  BY <1>6, <2>3
  <2> QED BY <2>1, <2>2, <2>4
<1>9. g[0] = <<>>  BY <1>0, <1>6
<1>10. \A k \in 1..n : IsSeq(seqs[k])  BY <1>0
<1>11. ASSUME NEW k \in 1..n PROVE g[k] = g[k - 1] \o seqs[k]
  <2>1. CASE k = 1
    <3>1. PICK s : s = seqs[k]  OBVIOUS
    <3>2. PICK S : s \in Seq(S)  BY <1>10, <3>1 DEF IsSeq
    <3>3. <<>> \o s = s  BY <3>2, ConcatEmptySeq
    <3>4. g[k] = s  BY <1>8, <2>1, <3>1
    <3>5. g[k - 1] = <<>>  BY <1>9, <2>1
    <3> QED BY <3>1, <3>3, <3>4, <3>5
  <2>2. CASE k # 1  BY <1>8, <2>2
  <2> QED BY <2>1, <2>2
<1>12. \A k \in 0..n : IsSeq(g[k])
  <2>1. PICK G : G = {k \in 0..n : IsSeq(g[k])}  OBVIOUS
  <2>2. 0 \in G  BY <1>0, <1>9, <2>1, SeqOfNone
  <2>3. ASSUME NEW k \in 1..n, k - 1 \in G PROVE k \in G
    <3>1. IsSeq(g[k - 1]) /\ IsSeq(seqs[k])  BY <1>10, <2>1, <2>3
    <3>2. PICK a, b : a = g[k - 1] /\ b = seqs[k]  OBVIOUS
    <3>3. IsSeq(a \o b)  BY <3>1, <3>2, SeqJoined
    <3>4. IsSeq(g[k])  BY <1>11, <3>2, <3>3
    <3> QED BY <2>1, <3>4
  <2>4. \A k \in 0..n : k \in G  BY <1>0, <2>2, <2>3, UpTo
  <2> QED BY <2>1, <2>4
<1> QED BY <1>0, <1>7, <1>9, <1>11, <1>12

LEMMA TakesFlat ==
    ASSUME NEW seqs, IsSeq(seqs), \A k \in 1..Len(seqs) : IsSeq(seqs[k]),
           NEW st, \A k \in 1..Len(seqs) : Takes(st[k - 1], seqs[k], st[k])
    PROVE  IsSeq(FlattenSeq(seqs)) /\ Takes(st[0], FlattenSeq(seqs), st[Len(seqs)])
<1>0. PICK n : n = Len(seqs) /\ n \in Nat  BY SeqDomain
<1>1. PICK g : /\ g[0] = <<>> /\ FlattenSeq(seqs) = g[n]
               /\ \A k \in 0..n : IsSeq(g[k])
               /\ \A k \in 1..n : g[k] = g[k - 1] \o seqs[k]
  BY <1>0, Flattened
<1>2. PICK G : G = {k \in 0..n : Takes(st[0], g[k], st[k])}  OBVIOUS
<1>3. 0 \in G  BY <1>0, <1>1, <1>2, TakesNone
<1>4. ASSUME NEW k \in 1..n, k - 1 \in G PROVE k \in G
  <2>1. Takes(st[0], g[k - 1], st[k - 1])  BY <1>2, <1>4
  <2>2. Takes(st[k - 1], seqs[k], st[k])  BY <1>0
  <2>3. k - 1 \in 0..n  BY <1>0
  <2>4. IsSeq(g[k - 1]) /\ IsSeq(seqs[k])  BY <1>0, <1>1, <2>3
  <2>5. Takes(st[0], g[k - 1] \o seqs[k], st[k])  BY <2>1, <2>2, <2>4, TakesBoth
  <2>6. g[k] = g[k - 1] \o seqs[k]  BY <1>1
  <2>7. Takes(st[0], g[k], st[k])  BY <2>5, <2>6
  <2> QED BY <1>2, <2>7
<1>5. n \in G
  <2>1. \A k \in 0..n : k \in G  BY <1>0, <1>3, <1>4, UpTo
  <2> QED BY <1>0, <2>1
<1>6. n \in 0..n  BY <1>0
<1> QED BY <1>0, <1>1, <1>2, <1>5, <1>6

\* The first items of a list.
First(s, k) == [i \in 1..k |-> s[i]]

LEMMA FirstItems ==
    ASSUME NEW s, IsSeq(s)
    PROVE  /\ First(s, 0) = <<>> /\ First(s, Len(s)) = s
           /\ \A k \in 0..Len(s) : IsSeq(First(s, k)) /\ Len(First(s, k)) = k
           /\ \A k \in 1..Len(s) : First(s, k) = Append(First(s, k - 1), s[k])
<1>0. PICK S : s \in Seq(S)  BY DEF IsSeq
<1>1. Len(s) \in Nat /\ \A i \in 1..Len(s) : s[i] \in S  BY <1>0
<1>2. ASSUME NEW k \in 0..Len(s) PROVE First(s, k) \in Seq(S) /\ Len(First(s, k)) = k
  <2>1. k \in Nat /\ \A i \in 1..k : s[i] \in S  BY <1>1
  <2>2. PICK t : t = [i \in 1..k |-> s[i]]  OBVIOUS
  <2>3. t \in Seq(S) /\ Len(t) = k  BY <2>1, <2>2
  <2> QED BY <2>2, <2>3 DEF First
<1>3. First(s, 0) = <<>>
  <2>1. 0 \in 0..Len(s)  BY <1>1
  <2>2. First(s, 0) \in Seq(S) /\ Len(First(s, 0)) = 0  BY <1>2, <2>1
  <2> QED BY <2>2, EmptySeq
<1>4. First(s, Len(s)) = s
  <2>1. s = [i \in 1..Len(s) |-> s[i]]  BY <1>0
  <2> QED BY <2>1 DEF First
<1>5. ASSUME NEW k \in 1..Len(s) PROVE First(s, k) = Append(First(s, k - 1), s[k])
  <2>1. k - 1 \in 0..Len(s) /\ k \in 0..Len(s)  BY <1>1
  <2>2. PICK a, b, e : a = First(s, k - 1) /\ b = First(s, k) /\ e = s[k]  OBVIOUS
  <2>3. a \in Seq(S) /\ Len(a) = k - 1 /\ b \in Seq(S) /\ Len(b) = k /\ e \in S
    BY <1>1, <1>2, <2>1, <2>2
  <2>4. PICK c : c = Append(a, e)  OBVIOUS
  <2>5. c \in Seq(S) /\ Len(c) = k /\ c[k] = e /\ \A i \in 1..k - 1 : c[i] = a[i]
    BY <2>3, <2>4, AppendProperties
  <2>6. \A i \in 1..k : c[i] = b[i]
    <3> TAKE i \in 1..k
    <3>1. CASE i = k  BY <2>2, <2>5, <3>1 DEF First
    <3>2. CASE i # k
      <4>1. i \in 1..k - 1  BY <3>2
      <4>2. c[i] = a[i] /\ a[i] = s[i] /\ b[i] = s[i]  BY <2>2, <2>5, <4>1 DEF First
      <4> QED BY <4>2
    <3> QED BY <3>1, <3>2
  <2>7. c = b  BY <2>3, <2>5, <2>6, SeqEqual
  <2> QED BY <2>2, <2>4, <2>7
<1> QED BY <1>2, <1>3, <1>4, <1>5 DEF IsSeq

\* The last item of a list is another.
OtherLast(t, a, q) == t = [i \in DOMAIN a |-> IF i = Len(a) THEN q ELSE a[i]]

LEMMA LastOther ==
    ASSUME NEW s, IsSeq(s), NEW e, NEW a, a = Append(s, e), NEW q, NEW t, OtherLast(t, a, q)
    PROVE  t = Append(s, q)
<1>2. PICK c : c = Append(s, q)  OBVIOUS
<1>3. /\ Len(a) = Len(s) + 1 /\ DOMAIN a = 1..Len(s) + 1
      /\ \A i \in DOMAIN s : a[i] = s[i]
  BY SeqLonger
<1>4. /\ IsSeq(c) /\ Len(c) = Len(s) + 1 /\ DOMAIN c = 1..Len(s) + 1 /\ c[Len(s) + 1] = q
      /\ \A i \in DOMAIN s : c[i] = s[i]
  BY <1>2, SeqLonger
<1>5. Len(s) \in Nat /\ DOMAIN s = 1..Len(s)  BY SeqDomain
<1>6. t = [i \in 1..Len(s) + 1 |-> IF i = Len(s) + 1 THEN q ELSE a[i]]  BY <1>3 DEF OtherLast
<1>7. c = [i \in 1..Len(s) + 1 |-> c[i]]
  <2>1. PICK S : c \in Seq(S)  BY <1>4 DEF IsSeq
  <2>2. c = [i \in 1..Len(c) |-> c[i]]  BY <2>1
  <2> QED BY <1>4, <2>2
<1>8. \A i \in 1..Len(s) + 1 : c[i] = IF i = Len(s) + 1 THEN q ELSE a[i]
  <2> TAKE i \in 1..Len(s) + 1
  <2>1. i # Len(s) + 1 => i \in DOMAIN s  BY <1>5
  <2> QED BY <1>3, <1>4, <2>1
<1> QED BY <1>2, <1>6, <1>7, <1>8

LEMMA LastOfLonger ==
    ASSUME NEW s, IsSeq(s), NEW e
    PROVE  Last(Append(s, e)) = e /\ Append(s, e) # <<>>
<1>1. PICK a : a = Append(s, e)  OBVIOUS
<1>2. Len(a) = Len(s) + 1 /\ a[Len(s) + 1] = e  BY <1>1, SeqLonger
<1>3. Last(a) = e  BY <1>2 DEF Last
<1>4. Len(s) \in Nat  BY SeqDomain
<1>5. a # <<>>  BY <1>2, <1>4, SeqOfNone
<1> QED BY <1>1, <1>3, <1>5

\* A line that does not belong there ends the reading.
LEMMA AddsNothing ==
    ASSUME NEW d, NEW x, Here(d, x), NEW l, ~d.ok \/ Misplaced(d, l), NEW y
    PROVE  Here(ParseLine(d, l), y)
<1>1. PICK e : e = [d EXCEPT !.ok = FALSE]  OBVIOUS
<1>2. ParseLine(d, l) = e  BY <1>1 DEF ParseLine
<1>3. d = [ok |-> d.ok, intro |-> d.intro, secs |-> d.secs, seen |-> d.seen, inPoint |-> d.inPoint]
  BY DEF Here
<1>4. e.ok = FALSE /\ e.intro = d.intro /\ e.secs = d.secs /\ e.seen = d.seen /\ e.inPoint = d.inPoint
  BY <1>1, <1>3
<1>5. e = [ok |-> e.ok, intro |-> e.intro, secs |-> e.secs, seen |-> e.seen, inPoint |-> e.inPoint]
  BY <1>1, <1>3, <1>4
<1> QED BY <1>2, <1>4, <1>5 DEF Here

LEMMA AddsThis ==
    ASSUME NEW intro, NEW secs, NEW seen, NEW inPoint
    PROVE  Here([ok |-> TRUE, intro |-> intro, secs |-> secs, seen |-> seen, inPoint |-> inPoint], SoFar(intro, secs))
BY DEF Here, SoFar

\* Rules go to the same list, however many it has.
Holder(secs) ==
    \A rules, more : /\ WithRules(secs, rules) # <<>> /\ Target(WithRules(secs, rules)) = rules
                     /\ WithRules(WithRules(secs, rules), more) = WithRules(secs, more)

LEMMA AddsRule ==
    ASSUME NEW secs, Holder(secs), NEW rules, NEW intro, NEW num, NEW text
    PROVE  Adds(SoFar(intro, WithRules(secs, rules)), Line("rule", num, text),
                SoFar(intro, WithRules(secs, Append(rules, Rule(num, text)))))
<1> DEFINE x == SoFar(intro, WithRules(secs, rules))
           y == SoFar(intro, WithRules(secs, Append(rules, Rule(num, text))))
<1> SUFFICES ASSUME NEW d, Here(d, x) PROVE Here(ParseLine(d, Line("rule", num, text)), y)
  BY DEF Adds
<1>1. PICK l : l = Line("rule", num, text)  OBVIOUS
<1>2. l.is = "rule" /\ l.num = num /\ l.text = text  BY <1>1 DEF Line
<1>3. CASE ~d.ok \/ Misplaced(d, l)
  <2> HIDE DEF x, y
  <2> QED BY <1>1, <1>3, AddsNothing
<1>4. CASE d.ok /\ ~Misplaced(d, l)
  <2>1. d.intro = intro /\ d.secs = WithRules(secs, rules)  BY <1>4 DEF Here, SoFar
  <2>2. PICK next : next = WithRules(secs, Append(rules, Rule(num, text)))  OBVIOUS
  <2>3. Target(d.secs) = rules /\ WithRules(d.secs, Append(rules, Rule(num, text))) = next
    BY <2>1, <2>2 DEF Holder
  <2>4. PICK e : e = [d EXCEPT !.inPoint = FALSE, !.seen = d.seen \cup {num}, !.secs = next]
    OBVIOUS
  <2>5. ParseLine(d, l) = e  BY <1>2, <1>4, <2>3, <2>4 DEF ParseLine
  <2>6. e = [ok |-> TRUE, intro |-> intro, secs |-> next, seen |-> d.seen \cup {num}, inPoint |-> FALSE]
    BY <1>4, <2>1, <2>4 DEF Here
  <2> QED BY <1>1, <2>2, <2>5, <2>6, AddsThis
<1> QED BY <1>3, <1>4

LEMMA AddsPoint ==
    ASSUME NEW secs, Holder(secs), NEW rules, IsSeq(rules), NEW r, NEW intro, NEW num, NEW text
    PROVE  Adds(SoFar(intro, WithRules(secs, Append(rules, r))), Line("point", num, text),
                SoFar(intro, WithRules(secs, Append(rules, AddPoint(r, text)))))
<1> DEFINE x == SoFar(intro, WithRules(secs, Append(rules, r)))
           y == SoFar(intro, WithRules(secs, Append(rules, AddPoint(r, text))))
<1> SUFFICES ASSUME NEW d, Here(d, x) PROVE Here(ParseLine(d, Line("point", num, text)), y)
  BY DEF Adds
<1>1. PICK l : l = Line("point", num, text)  OBVIOUS
<1>2. l.is = "point" /\ l.text = text  BY <1>1 DEF Line
<1>3. CASE ~d.ok \/ Misplaced(d, l)
  <2> HIDE DEF x, y
  <2> QED BY <1>1, <1>3, AddsNothing
<1>4. CASE d.ok /\ ~Misplaced(d, l)
  <2>1. d.intro = intro /\ d.secs = WithRules(secs, Append(rules, r))  BY <1>4 DEF Here, SoFar
  <2>2. PICK next : next = WithRules(secs, Append(rules, AddPoint(r, text)))  OBVIOUS
  <2>a. OnLast(Append(rules, r), LAMBDA q : AddPoint(q, l.text)) = Append(rules, AddPoint(r, text))
    <3>1. PICK q : q = AddPoint(r, text)  OBVIOUS
    <3>2. PICK t : t = OnLast(Append(rules, r), LAMBDA z : AddPoint(z, l.text))  OBVIOUS
    <3>3. Append(rules, r)[Len(Append(rules, r))] = r  BY SeqLonger
    <3>4. OtherLast(t, Append(rules, r), q)  BY <1>2, <3>1, <3>2, <3>3 DEF OnLast, OtherLast
    <3>5. t = Append(rules, q)  BY <3>4, LastOther
    <3> QED BY <3>1, <3>2, <3>5
  <2>3. Target(d.secs) = Append(rules, r) /\ WithRules(d.secs, Append(rules, AddPoint(r, text))) = next
    BY <2>1, <2>2 DEF Holder
  <2>4. PICK e : e = [d EXCEPT !.inPoint = TRUE, !.secs = next]  OBVIOUS
  <2>5. ParseLine(d, l) = e  BY <1>2, <1>4, <2>3, <2>4, <2>a DEF ParseLine
  <2>6. e = [ok |-> TRUE, intro |-> intro, secs |-> next, seen |-> d.seen, inPoint |-> TRUE]
    BY <1>4, <2>1, <2>4 DEF Here
  <2> QED BY <1>1, <2>2, <2>5, <2>6, AddsThis
<1> QED BY <1>3, <1>4

LEMMA AddsSubpoint ==
    ASSUME NEW secs, Holder(secs), NEW rules, IsSeq(rules), NEW r, r.points # <<>>, NEW intro, NEW num, NEW text
    PROVE  Adds(SoFar(intro, WithRules(secs, Append(rules, r))), Line("subpoint", num, text),
                SoFar(intro, WithRules(secs, Append(rules, AddSub(r, text)))))
<1> DEFINE x == SoFar(intro, WithRules(secs, Append(rules, r)))
           y == SoFar(intro, WithRules(secs, Append(rules, AddSub(r, text))))
<1> SUFFICES ASSUME NEW d, Here(d, x) PROVE Here(ParseLine(d, Line("subpoint", num, text)), y)
  BY DEF Adds
<1>1. PICK l : l = Line("subpoint", num, text)  OBVIOUS
<1>2. l.is = "subpoint" /\ l.text = text  BY <1>1 DEF Line
<1>3. CASE ~d.ok \/ Misplaced(d, l)
  <2> HIDE DEF x, y
  <2> QED BY <1>1, <1>3, AddsNothing
<1>4. CASE d.ok /\ ~Misplaced(d, l)
  <2>1. d.intro = intro /\ d.secs = WithRules(secs, Append(rules, r))  BY <1>4 DEF Here, SoFar
  <2>2. PICK next : next = WithRules(secs, Append(rules, AddSub(r, text)))  OBVIOUS
  <2>a. OnLast(Append(rules, r), LAMBDA q : IF q.points = <<>> THEN AddPoint(q, l.text) ELSE AddSub(q, l.text))
        = Append(rules, AddSub(r, text))
    <3>1. PICK q : q = AddSub(r, text)  OBVIOUS
    <3>2. PICK t : t = OnLast(Append(rules, r),
                              LAMBDA z : IF z.points = <<>> THEN AddPoint(z, l.text) ELSE AddSub(z, l.text))
      OBVIOUS
    <3>3. Append(rules, r)[Len(Append(rules, r))] = r  BY SeqLonger
    <3>4. OtherLast(t, Append(rules, r), q)  BY <1>2, <3>1, <3>2, <3>3 DEF OnLast, OtherLast
    <3>5. t = Append(rules, q)  BY <3>4, LastOther
    <3> QED BY <3>1, <3>2, <3>5
  <2>3. Target(d.secs) = Append(rules, r) /\ WithRules(d.secs, Append(rules, AddSub(r, text))) = next
    BY <2>1, <2>2 DEF Holder
  <2>4. PICK e : e = [d EXCEPT !.inPoint = TRUE, !.secs = next]  OBVIOUS
  <2>5. ParseLine(d, l) = e  BY <1>2, <1>4, <2>3, <2>4, <2>a DEF ParseLine
  <2>6. e = [ok |-> TRUE, intro |-> intro, secs |-> next, seen |-> d.seen, inPoint |-> TRUE]
    BY <1>4, <2>1, <2>4 DEF Here
  <2> QED BY <1>1, <2>2, <2>5, <2>6, AddsThis
<1> QED BY <1>3, <1>4

\* A section and a subsection, as they are read.
Sec(title, intro, rules, subs) == [title |-> title, intro |-> intro, rules |-> rules, subs |-> subs]
Sub(title, intro, rules) == [title |-> title, intro |-> intro, rules |-> rules]

LEMMA RulesOfSection ==
    ASSUME NEW secs, IsSeq(secs), NEW title, NEW intro, NEW rules, NEW more
    PROVE  LET b == Append(secs, Sec(title, intro, rules, <<>>)) IN
           /\ WithRules(b, more) = Append(secs, Sec(title, intro, more, <<>>))
           /\ Target(b) = rules /\ b # <<>>
<1>1. PICK s : s = Sec(title, intro, rules, <<>>)  OBVIOUS
<1>2. PICK b : b = Append(secs, s)  OBVIOUS
<1>3. Last(b) = s /\ b # <<>> /\ b[Len(b)] = s  BY <1>2, LastOfLonger DEF Last
<1>4. Target(b) = rules  BY <1>1, <1>3 DEF Target, Sec
<1>5. PICK q : q = Sec(title, intro, more, <<>>)  OBVIOUS
<1>6. s.subs = <<>> /\ [s EXCEPT !.rules = more] = q  BY <1>1, <1>5 DEF Sec
<1>7. PICK t : t = WithRules(b, more)  OBVIOUS
<1>8. OtherLast(t, b, q)  BY <1>3, <1>6, <1>7 DEF WithRules, OnLast, OtherLast
<1>9. t = Append(secs, q)  BY <1>2, <1>8, LastOther
<1> QED BY <1>1, <1>2, <1>3, <1>4, <1>5, <1>7, <1>9

LEMMA SectionHolds ==
    ASSUME NEW secs, IsSeq(secs), NEW title, NEW intro, NEW rules
    PROVE  Holder(Append(secs, Sec(title, intro, rules, <<>>)))
<1>1. PICK b : b = Append(secs, Sec(title, intro, rules, <<>>))  OBVIOUS
<1>2. ASSUME NEW these, NEW more
      PROVE  /\ WithRules(b, these) # <<>> /\ Target(WithRules(b, these)) = these
             /\ WithRules(WithRules(b, these), more) = WithRules(b, more)
  <2>1. PICK c : c = Append(secs, Sec(title, intro, these, <<>>))  OBVIOUS
  <2>2. WithRules(b, these) = c  BY <1>1, <2>1, RulesOfSection
  <2>3. WithRules(b, more) = Append(secs, Sec(title, intro, more, <<>>))  BY <1>1, RulesOfSection
  <2>4. WithRules(c, more) = Append(secs, Sec(title, intro, more, <<>>)) /\ Target(c) = these /\ c # <<>>
    BY <2>1, RulesOfSection
  <2> QED BY <2>2, <2>3, <2>4
<1> QED BY <1>1, <1>2 DEF Holder

LEMMA RulesOfSubsection ==
    ASSUME NEW secs, IsSeq(secs), NEW title, NEW intro, NEW rules, NEW subs, IsSeq(subs),
           NEW head, NEW words, NEW these, NEW more
    PROVE  LET b == Append(secs, Sec(title, intro, rules, Append(subs, Sub(head, words, these)))) IN
           /\ WithRules(b, more) = Append(secs, Sec(title, intro, rules, Append(subs, Sub(head, words, more))))
           /\ Target(b) = these /\ b # <<>>
<1>0. PICK u, v : u = Sub(head, words, these) /\ v = Sub(head, words, more)  OBVIOUS
<1>a. PICK us, vs : us = Append(subs, u) /\ vs = Append(subs, v)  OBVIOUS
<1>b. us # <<>> /\ Last(us) = u /\ us[Len(us)] = u  BY <1>a, LastOfLonger DEF Last
<1>1. PICK s : s = Sec(title, intro, rules, us)  OBVIOUS
<1>2. PICK b : b = Append(secs, s)  OBVIOUS
<1>3. Last(b) = s /\ b # <<>> /\ b[Len(b)] = s  BY <1>2, LastOfLonger DEF Last
<1>c. s.subs = us /\ u.rules = these /\ [u EXCEPT !.rules = more] = v  BY <1>0, <1>1 DEF Sec, Sub
<1>4. Target(b) = these  BY <1>b, <1>c, <1>3 DEF Target
<1>5. PICK q : q = Sec(title, intro, rules, vs)  OBVIOUS
<1>d. PICK w : w = OnLast(s.subs, LAMBDA x : [x EXCEPT !.rules = more])  OBVIOUS
<1>e. OtherLast(w, us, v)  BY <1>b, <1>c, <1>d DEF OnLast, OtherLast
<1>f. w = vs  BY <1>a, <1>e, LastOther
<1>6. s.subs # <<>> /\ [s EXCEPT !.subs = w] = q  BY <1>1, <1>5, <1>b, <1>c, <1>f DEF Sec
<1>7. PICK t : t = WithRules(b, more)  OBVIOUS
<1>8. OtherLast(t, b, q)  BY <1>3, <1>6, <1>7, <1>d DEF WithRules, OnLast, OtherLast
<1>9. t = Append(secs, q)  BY <1>2, <1>8, LastOther
<1> QED BY <1>0, <1>a, <1>1, <1>2, <1>3, <1>4, <1>5, <1>7, <1>9

LEMMA SubsectionHolds ==
    ASSUME NEW secs, IsSeq(secs), NEW title, NEW intro, NEW rules, NEW subs, IsSeq(subs),
           NEW head, NEW words, NEW list
    PROVE  Holder(Append(secs, Sec(title, intro, rules, Append(subs, Sub(head, words, list)))))
<1>1. PICK b : b = Append(secs, Sec(title, intro, rules, Append(subs, Sub(head, words, list))))
  OBVIOUS
<1>2. ASSUME NEW these, NEW more
      PROVE  /\ WithRules(b, these) # <<>> /\ Target(WithRules(b, these)) = these
             /\ WithRules(WithRules(b, these), more) = WithRules(b, more)
  <2>1. PICK c : c = Append(secs, Sec(title, intro, rules, Append(subs, Sub(head, words, these))))
    OBVIOUS
  <2>2. WithRules(b, these) = c  BY <1>1, <2>1, RulesOfSubsection
  <2>3. PICK e : e = Append(secs, Sec(title, intro, rules, Append(subs, Sub(head, words, more))))
    OBVIOUS
  <2>4. WithRules(b, more) = e  BY <1>1, <2>3, RulesOfSubsection
  <2>5. WithRules(c, more) = e /\ Target(c) = these /\ c # <<>>
    BY <2>1, <2>3, RulesOfSubsection
  <2> QED BY <2>2, <2>4, <2>5
<1> QED BY <1>1, <1>2 DEF Holder

LEMMA AddsHead ==
    ASSUME NEW secs, NEW intro, NEW num, NEW title
    PROVE  Adds(SoFar(intro, secs), Line("head", num, title),
                SoFar(intro, Append(secs, Sec(title, <<>>, <<>>, <<>>))))
<1> DEFINE x == SoFar(intro, secs)
           y == SoFar(intro, Append(secs, Sec(title, <<>>, <<>>, <<>>)))
<1> SUFFICES ASSUME NEW d, Here(d, x) PROVE Here(ParseLine(d, Line("head", num, title)), y)
  BY DEF Adds
<1>1. PICK l : l = Line("head", num, title)  OBVIOUS
<1>2. l.is = "head" /\ l.text = title  BY <1>1 DEF Line
<1>3. CASE ~d.ok \/ Misplaced(d, l)
  <2> HIDE DEF x, y
  <2> QED BY <1>1, <1>3, AddsNothing
<1>4. CASE d.ok /\ ~Misplaced(d, l)
  <2>1. d.intro = intro /\ d.secs = secs  BY <1>4 DEF Here, SoFar
  <2>2. PICK next : next = Append(secs, Sec(title, <<>>, <<>>, <<>>))  OBVIOUS
  <2>3. Append(d.secs, Section(l.text)) = next  BY <1>2, <2>1, <2>2 DEF Section, Sec
  <2>4. PICK e : e = [d EXCEPT !.secs = next]  OBVIOUS
  <2>5. ParseLine(d, l) = e  BY <1>2, <1>4, <2>3, <2>4 DEF ParseLine
  <2>6. e = [ok |-> TRUE, intro |-> intro, secs |-> next, seen |-> d.seen, inPoint |-> d.inPoint]
    BY <1>4, <2>1, <2>4 DEF Here
  <2> QED BY <1>1, <2>2, <2>5, <2>6, AddsThis
<1> QED BY <1>3, <1>4

LEMMA AddsSub ==
    ASSUME NEW secs, IsSeq(secs), NEW intro, NEW num, NEW head, NEW words, NEW rules, NEW subs, NEW title
    PROVE  Adds(SoFar(intro, Append(secs, Sec(head, words, rules, subs))), Line("sub", num, title),
                SoFar(intro, Append(secs, Sec(head, words, rules, Append(subs, Sub(title, <<>>, <<>>))))))
<1> DEFINE x == SoFar(intro, Append(secs, Sec(head, words, rules, subs)))
           y == SoFar(intro, Append(secs, Sec(head, words, rules, Append(subs, Sub(title, <<>>, <<>>)))))
<1> SUFFICES ASSUME NEW d, Here(d, x) PROVE Here(ParseLine(d, Line("sub", num, title)), y)
  BY DEF Adds
<1>1. PICK l : l = Line("sub", num, title)  OBVIOUS
<1>2. l.is = "sub" /\ l.text = title  BY <1>1 DEF Line
<1>3. CASE ~d.ok \/ Misplaced(d, l)
  <2> HIDE DEF x, y
  <2> QED BY <1>1, <1>3, AddsNothing
<1>4. CASE d.ok /\ ~Misplaced(d, l)
  <2>1. d.intro = intro /\ d.secs = Append(secs, Sec(head, words, rules, subs))
    BY <1>4 DEF Here, SoFar
  <2>k. PICK us : us = Append(subs, Sub(title, <<>>, <<>>))  OBVIOUS
  <2>2. PICK q : q = Sec(head, words, rules, us)  OBVIOUS
  <2>3. PICK next : next = Append(secs, q)  OBVIOUS
  <2>a. PICK t : t = OnLast(d.secs, LAMBDA s : [s EXCEPT !.subs = Append(s.subs, Subsection(l.text))])
    OBVIOUS
  <2>b. PICK r, b : r = Sec(head, words, rules, subs) /\ b = Append(secs, r)  OBVIOUS
  <2>c. b[Len(b)] = r  BY <2>b, SeqLonger
  <2>g. Subsection(l.text) = Sub(title, <<>>, <<>>)  BY <1>2 DEF Sub, Subsection
  <2>h. PICK more : more = Append(r.subs, Subsection(l.text))  OBVIOUS
  <2>i. more = us  BY <2>b, <2>g, <2>h, <2>k DEF Sec
  <2>j. [r EXCEPT !.subs = more] = q  BY <2>2, <2>b, <2>i DEF Sec
  <2>d. [r EXCEPT !.subs = Append(r.subs, Subsection(l.text))] = q  BY <2>h, <2>j
  <2>e. OtherLast(t, b, q)  BY <2>1, <2>a, <2>b, <2>c, <2>d DEF OnLast, OtherLast
  <2>f. t = next  BY <2>3, <2>b, <2>e, LastOther
  <2>4. PICK e : e = [d EXCEPT !.inPoint = FALSE, !.secs = next]  OBVIOUS
  <2>5. ParseLine(d, l) = e  BY <1>2, <1>4, <2>a, <2>f, <2>4 DEF ParseLine
  <2>6. e = [ok |-> TRUE, intro |-> intro, secs |-> next, seen |-> d.seen, inPoint |-> FALSE]
    BY <1>4, <2>1, <2>4 DEF Here
  <2> QED BY <1>1, <2>2, <2>3, <2>k, <2>5, <2>6, AddsThis
<1> QED BY <1>3, <1>4

LEMMA AddsParagraph ==
    ASSUME NEW intro, NEW num, NEW text
    PROVE  Adds(SoFar(intro, <<>>), Line("intro", num, text), SoFar(Append(intro, text), <<>>))
<1> DEFINE x == SoFar(intro, <<>>)
           y == SoFar(Append(intro, text), <<>>)
<1> SUFFICES ASSUME NEW d, Here(d, x) PROVE Here(ParseLine(d, Line("intro", num, text)), y)
  BY DEF Adds
<1>1. PICK l : l = Line("intro", num, text)  OBVIOUS
<1>2. l.is = "intro" /\ l.text = text  BY <1>1 DEF Line
<1>3. CASE ~d.ok \/ Misplaced(d, l)
  <2> HIDE DEF x, y
  <2> QED BY <1>1, <1>3, AddsNothing
<1>4. CASE d.ok /\ ~Misplaced(d, l)
  <2>1. d.intro = intro /\ d.secs = <<>>  BY <1>4 DEF Here, SoFar
  <2>2. PICK next : next = Append(intro, text)  OBVIOUS
  <2>4. PICK e : e = [d EXCEPT !.intro = next]  OBVIOUS
  <2>5. ParseLine(d, l) = e  BY <1>2, <1>4, <2>1, <2>2, <2>4 DEF ParseLine
  <2>6. e = [ok |-> TRUE, intro |-> next, secs |-> <<>>, seen |-> d.seen, inPoint |-> d.inPoint]
    BY <1>4, <2>1, <2>4 DEF Here
  <2> QED BY <1>1, <2>2, <2>5, <2>6, AddsThis
<1> QED BY <1>3, <1>4

LEMMA AddsIntro ==
    ASSUME NEW secs, secs # <<>>, NEW intro, NEW num, NEW text
    PROVE  Adds(SoFar(intro, secs), Line("intro", num, text), SoFar(intro, WithIntro(secs, text)))
<1> DEFINE x == SoFar(intro, secs)
           y == SoFar(intro, WithIntro(secs, text))
<1> SUFFICES ASSUME NEW d, Here(d, x) PROVE Here(ParseLine(d, Line("intro", num, text)), y)
  BY DEF Adds
<1>1. PICK l : l = Line("intro", num, text)  OBVIOUS
<1>2. l.is = "intro" /\ l.text = text  BY <1>1 DEF Line
<1>3. CASE ~d.ok \/ Misplaced(d, l)
  <2> HIDE DEF x, y
  <2> QED BY <1>1, <1>3, AddsNothing
<1>4. CASE d.ok /\ ~Misplaced(d, l)
  <2>1. d.intro = intro /\ d.secs = secs  BY <1>4 DEF Here, SoFar
  <2>2. PICK next : next = WithIntro(secs, text)  OBVIOUS
  <2>4. PICK e : e = [d EXCEPT !.secs = next]  OBVIOUS
  <2>5. ParseLine(d, l) = e  BY <1>2, <1>4, <2>1, <2>2, <2>4 DEF ParseLine
  <2>6. e = [ok |-> TRUE, intro |-> intro, secs |-> next, seen |-> d.seen, inPoint |-> d.inPoint]
    BY <1>4, <2>1, <2>4 DEF Here
  <2> QED BY <1>1, <2>2, <2>5, <2>6, AddsThis
<1> QED BY <1>3, <1>4

LEMMA IntroOfSection ==
    ASSUME NEW secs, IsSeq(secs), NEW title, NEW words, IsSeq(words), NEW rules
    PROVE  WithIntro(Append(secs, Sec(title, <<>>, rules, <<>>)), words)
           = Append(secs, Sec(title, words, rules, <<>>))
<1>1. PICK s : s = Sec(title, <<>>, rules, <<>>)  OBVIOUS
<1>2. PICK b : b = Append(secs, s)  OBVIOUS
<1>3. b[Len(b)] = s  BY <1>2, SeqLonger
<1>4. <<>> \o words = words
  <2>1. PICK S : words \in Seq(S)  BY DEF IsSeq
  <2> QED BY <2>1, ConcatEmptySeq
<1>5. PICK q : q = Sec(title, words, rules, <<>>)  OBVIOUS
<1>6. s.subs = <<>> /\ [s EXCEPT !.intro = s.intro \o words] = q  BY <1>1, <1>4, <1>5 DEF Sec
<1>7. PICK t : t = WithIntro(b, words)  OBVIOUS
<1>8. OtherLast(t, b, q)  BY <1>3, <1>6, <1>7 DEF WithIntro, OnLast, OtherLast
<1>9. t = Append(secs, q)  BY <1>2, <1>8, LastOther
<1> QED BY <1>1, <1>2, <1>5, <1>7, <1>9

LEMMA IntroOfSubsection ==
    ASSUME NEW secs, IsSeq(secs), NEW title, NEW intro, NEW rules, NEW subs, IsSeq(subs),
           NEW head, NEW words, IsSeq(words), NEW these
    PROVE  WithIntro(Append(secs, Sec(title, intro, rules, Append(subs, Sub(head, <<>>, these)))), words)
           = Append(secs, Sec(title, intro, rules, Append(subs, Sub(head, words, these))))
<1>0. PICK u, v : u = Sub(head, <<>>, these) /\ v = Sub(head, words, these)  OBVIOUS
<1>a. PICK us, vs : us = Append(subs, u) /\ vs = Append(subs, v)  OBVIOUS
<1>b. us # <<>> /\ us[Len(us)] = u  BY <1>a, LastOfLonger DEF Last
<1>1. PICK s : s = Sec(title, intro, rules, us)  OBVIOUS
<1>2. PICK b : b = Append(secs, s)  OBVIOUS
<1>3. b[Len(b)] = s  BY <1>2, SeqLonger
<1>4. <<>> \o words = words
  <2>1. PICK S : words \in Seq(S)  BY DEF IsSeq
  <2> QED BY <2>1, ConcatEmptySeq
<1>c. s.subs = us /\ [u EXCEPT !.intro = u.intro \o words] = v  BY <1>0, <1>1, <1>4 DEF Sec, Sub
<1>5. PICK q : q = Sec(title, intro, rules, vs)  OBVIOUS
<1>d. PICK w : w = OnLast(s.subs, LAMBDA x : [x EXCEPT !.intro = x.intro \o words])  OBVIOUS
<1>e. OtherLast(w, us, v)  BY <1>b, <1>c, <1>d DEF OnLast, OtherLast
<1>f. w = vs  BY <1>a, <1>e, LastOther
<1>6. s.subs # <<>> /\ [s EXCEPT !.subs = w] = q  BY <1>1, <1>5, <1>b, <1>c, <1>f DEF Sec
<1>7. PICK t : t = WithIntro(b, words)  OBVIOUS
<1>8. OtherLast(t, b, q)  BY <1>3, <1>6, <1>7, <1>d DEF WithIntro, OnLast, OtherLast
<1>9. t = Append(secs, q)  BY <1>2, <1>8, LastOther
<1> QED BY <1>0, <1>a, <1>1, <1>2, <1>5, <1>7, <1>9

\* A rule as it is read, and the lines of a point.
SaidRule(num, text, points) == [num |-> num, text |-> text, points |-> points]
Point(text, sub) == [text |-> text, sub |-> sub]
PointLines(text, sub) ==
    <<Line("point", <<>>, text)>> \o [x \in DOMAIN sub |-> Line("subpoint", <<>>, sub[x])]

LEMMA PointOfRule ==
    ASSUME NEW num, NEW text, NEW points, NEW words
    PROVE  AddPoint(SaidRule(num, text, points), words) = SaidRule(num, text, Append(points, Point(words, <<>>)))
BY DEF AddPoint, SaidRule, Point

LEMMA SubpointOfRule ==
    ASSUME NEW num, NEW text, NEW points, IsSeq(points), NEW words, NEW sub, NEW more
    PROVE  /\ AddSub(SaidRule(num, text, Append(points, Point(words, sub))), more)
              = SaidRule(num, text, Append(points, Point(words, Append(sub, more))))
           /\ SaidRule(num, text, Append(points, Point(words, sub))).points # <<>>
<1>1. PICK p, q : p = Point(words, sub) /\ q = Point(words, Append(sub, more))  OBVIOUS
<1>2. PICK a : a = Append(points, p)  OBVIOUS
<1>3. a # <<>> /\ a[Len(a)] = p  BY <1>2, LastOfLonger DEF Last
<1>4. PICK t : t = OnLast(a, LAMBDA x : [x EXCEPT !.sub = Append(x.sub, more)])  OBVIOUS
<1>5. PICK m : m = Append(sub, more)  OBVIOUS
<1>6. p.sub = sub /\ [p EXCEPT !.sub = m] = q  BY <1>1, <1>5 DEF Point
<1>7. [p EXCEPT !.sub = Append(p.sub, more)] = q  BY <1>5, <1>6
<1>8. OtherLast(t, a, q)  BY <1>3, <1>4, <1>7 DEF OnLast, OtherLast
<1>9. t = Append(points, q)  BY <1>2, <1>8, LastOther
<1>10. PICK r : r = SaidRule(num, text, a)  OBVIOUS
<1>11. r.points = a /\ [r EXCEPT !.points = t] = SaidRule(num, text, t)  BY <1>10 DEF SaidRule
<1>12. AddSub(r, more) = SaidRule(num, text, t)  BY <1>4, <1>11 DEF AddSub
<1> QED BY <1>1, <1>2, <1>3, <1>9, <1>10, <1>11, <1>12

LEMMA TakesPoint ==
    ASSUME NEW secs, Holder(secs), NEW rules, IsSeq(rules), NEW intro, NEW num, NEW text,
           NEW points, IsSeq(points), NEW words, NEW sub, IsSeq(sub)
    PROVE  /\ IsSeq(PointLines(words, sub))
           /\ Takes(SoFar(intro, WithRules(secs, Append(rules, SaidRule(num, text, points)))),
                    PointLines(words, sub),
                    SoFar(intro, WithRules(secs, Append(rules, SaidRule(num, text, Append(points, Point(words, sub)))))))
<1>0. PICK n : n = Len(sub) /\ n \in Nat /\ DOMAIN sub = 1..n  BY SeqDomain
<1>1. PICK ls : ls = [x \in DOMAIN sub |-> Line("subpoint", <<>>, sub[x])]  OBVIOUS
<1>2. IsSeq(ls) /\ Len(ls) = n
  <2>1. ls = [x \in DOMAIN sub |-> ls[x]]  BY <1>1
  <2> QED BY <1>0, <2>1, SeqMapped
<1>3. PICK head : head = <<Line("point", <<>>, words)>>  OBVIOUS
<1>4. PointLines(words, sub) = head \o ls  BY <1>1, <1>3 DEF PointLines
<1>5. IsSeq(head)  BY <1>3, SeqOfOne
<1> DEFINE S(k) == SoFar(intro, WithRules(secs, Append(rules, SaidRule(num, text,
                         Append(points, Point(words, First(sub, k)))))))
<1>6. PICK x : x = SoFar(intro, WithRules(secs, Append(rules, SaidRule(num, text, points))))
  OBVIOUS
<1>7. PICK st : st = [k \in 0..n |-> S(k)]  OBVIOUS
<1>8. Takes(x, head, st[0])
  <2>1. PICK r : r = SaidRule(num, text, points)  OBVIOUS
  <2>2. Adds(SoFar(intro, WithRules(secs, Append(rules, r))), Line("point", <<>>, words),
             SoFar(intro, WithRules(secs, Append(rules, AddPoint(r, words)))))
    BY AddsPoint
  <2>3. AddPoint(r, words) = SaidRule(num, text, Append(points, Point(words, <<>>)))
    BY <2>1, PointOfRule
  <2>4. st[0] = S(0) /\ First(sub, 0) = <<>>  BY <1>0, <1>7, FirstItems
  <2>5. st[0] = SoFar(intro, WithRules(secs, Append(rules, AddPoint(r, words))))  BY <2>3, <2>4
  <2>6. Adds(x, Line("point", <<>>, words), st[0])  BY <1>6, <2>1, <2>2, <2>5
  <2> HIDE DEF S
  <2> QED BY <1>3, <2>6, TakesOne
<1>9. ASSUME NEW k \in 1..n PROVE Adds(st[k - 1], ls[k], st[k])
  <2>0. k \in DOMAIN sub /\ k - 1 \in 0..n /\ k \in 0..n  BY <1>0
  <2>1. ls[k] = Line("subpoint", <<>>, sub[k])  BY <1>1, <2>0
  <2>2. PICK f : f = First(sub, k - 1)  OBVIOUS
  <2>3. First(sub, k) = Append(f, sub[k])  BY <1>0, <2>2, FirstItems
  <2>4. PICK r : r = SaidRule(num, text, Append(points, Point(words, f)))  OBVIOUS
  <2>5. AddSub(r, sub[k]) = SaidRule(num, text, Append(points, Point(words, Append(f, sub[k])))) /\ r.points # <<>>
    BY <2>4, SubpointOfRule
  <2>6. Adds(SoFar(intro, WithRules(secs, Append(rules, r))), Line("subpoint", <<>>, sub[k]),
             SoFar(intro, WithRules(secs, Append(rules, AddSub(r, sub[k])))))
    BY <2>5, AddsSubpoint
  <2>7. st[k - 1] = S(k - 1) /\ st[k] = S(k)  BY <1>7, <2>0
  <2>8. st[k - 1] = SoFar(intro, WithRules(secs, Append(rules, r)))  BY <2>2, <2>4, <2>7
  <2>9. st[k] = SoFar(intro, WithRules(secs, Append(rules, AddSub(r, sub[k]))))  BY <2>3, <2>5, <2>7
  <2> QED BY <2>1, <2>6, <2>8, <2>9
<1> HIDE DEF S
<1>10. Takes(st[0], ls, st[n])  BY <1>0, <1>2, <1>9, TakesLines
<1>11. Takes(x, head \o ls, st[n])  BY <1>2, <1>5, <1>8, <1>10, TakesBoth
<1>12. st[n] = S(n) /\ First(sub, n) = sub  BY <1>0, <1>7, FirstItems
<1>13. st[n] = SoFar(intro, WithRules(secs, Append(rules, SaidRule(num, text, Append(points, Point(words, sub))))))
  BY <1>12 DEF S
<1>14. IsSeq(head \o ls)  BY <1>2, <1>5, SeqJoined
<1> QED BY <1>4, <1>6, <1>11, <1>13, <1>14

\* Points, and rules, as the form has them.
PointsShape(points) ==
    IsSeq(points) /\ \A p \in DOMAIN points : points[p] = Point(points[p].text, points[p].sub) /\ IsSeq(points[p].sub)
FormRules(rules) == IsSeq(rules) /\ \A j \in DOMAIN rules : PointsShape(rules[j].points)

LEMMA TakesRule ==
    ASSUME NEW secs, Holder(secs), NEW rules, IsSeq(rules), NEW intro, NEW num, NEW r, PointsShape(r.points)
    PROVE  /\ IsSeq(RuleLines(num, r))
           /\ Takes(SoFar(intro, WithRules(secs, rules)), RuleLines(num, r),
                    SoFar(intro, WithRules(secs, Append(rules, SaidRule(num, r.text, r.points)))))
<1>0. PICK points : points = r.points /\ PointsShape(points)  OBVIOUS
<1>a. IsSeq(points)  BY <1>0 DEF PointsShape
<1>b. PICK n : n = Len(points) /\ n \in Nat /\ DOMAIN points = 1..n  BY <1>a, SeqDomain
<1>1. PICK seqs : seqs = [p \in DOMAIN points |-> PointLines(points[p].text, points[p].sub)]
  OBVIOUS
<1>2. IsSeq(seqs) /\ Len(seqs) = n
  <2>1. seqs = [p \in DOMAIN points |-> seqs[p]]  BY <1>1
  <2> QED BY <1>a, <1>b, <2>1, SeqMapped
<1>3. PICK head : head = <<Line("rule", num, r.text)>>  OBVIOUS
<1>4. RuleLines(num, r) = head \o FlattenSeq(seqs)  BY <1>0, <1>1, <1>3 DEF RuleLines, PointLines
<1>5. IsSeq(head)  BY <1>3, SeqOfOne
<1>6. PICK text : text = r.text  OBVIOUS
<1> DEFINE S(k) == SoFar(intro, WithRules(secs, Append(rules, SaidRule(num, text, First(points, k)))))
<1>7. PICK st : st = [k \in 0..n |-> S(k)]  OBVIOUS
<1>8. PICK x : x = SoFar(intro, WithRules(secs, rules))  OBVIOUS
<1>9. Takes(x, head, st[0])
  <2>1. Adds(SoFar(intro, WithRules(secs, rules)), Line("rule", num, text),
             SoFar(intro, WithRules(secs, Append(rules, Rule(num, text)))))
    BY AddsRule
  <2>2. st[0] = S(0) /\ First(points, 0) = <<>>  BY <1>a, <1>b, <1>7, FirstItems
  <2>3. Rule(num, text) = SaidRule(num, text, First(points, 0))  BY <2>2 DEF Rule, SaidRule
  <2>4. st[0] = SoFar(intro, WithRules(secs, Append(rules, Rule(num, text))))  BY <2>2, <2>3
  <2>5. Adds(x, Line("rule", num, text), st[0])  BY <1>8, <2>1, <2>4
  <2> HIDE DEF S
  <2> QED BY <1>3, <1>6, <2>5, TakesOne
<1>10. ASSUME NEW k \in 1..n PROVE IsSeq(seqs[k]) /\ Takes(st[k - 1], seqs[k], st[k])
  <2>0. k \in DOMAIN points /\ k - 1 \in 0..n /\ k \in 0..n  BY <1>b
  <2>1. PICK words, sub : words = points[k].text /\ sub = points[k].sub  OBVIOUS
  <2>2. points[k] = Point(words, sub) /\ IsSeq(sub)  BY <1>0, <2>0, <2>1 DEF PointsShape
  <2>3. seqs[k] = PointLines(words, sub)  BY <1>1, <2>0, <2>1
  <2>4. PICK f : f = First(points, k - 1)  OBVIOUS
  <2>5. IsSeq(f)  BY <1>a, <1>b, <2>0, <2>4, FirstItems
  <2>6. First(points, k) = Append(f, Point(words, sub))  BY <1>a, <1>b, <2>2, <2>4, FirstItems
  <2>7. st[k - 1] = S(k - 1) /\ st[k] = S(k)  BY <1>7, <2>0
  <2>8. st[k - 1] = SoFar(intro, WithRules(secs, Append(rules, SaidRule(num, text, f))))
    BY <2>4, <2>7
  <2>9. st[k] = SoFar(intro, WithRules(secs, Append(rules, SaidRule(num, text, Append(f, Point(words, sub))))))
    BY <2>6, <2>7
  <2> HIDE DEF S
  <2> QED BY <2>2, <2>3, <2>5, <2>8, <2>9, TakesPoint
<1> HIDE DEF S
<1>11. IsSeq(FlattenSeq(seqs)) /\ Takes(st[0], FlattenSeq(seqs), st[n])  BY <1>2, <1>10, TakesFlat
<1>12. Takes(x, head \o FlattenSeq(seqs), st[n])  BY <1>5, <1>9, <1>11, TakesBoth
<1>13. st[n] = S(n) /\ First(points, n) = points  BY <1>a, <1>b, <1>7, FirstItems
<1>14. st[n] = SoFar(intro, WithRules(secs, Append(rules, SaidRule(num, text, points))))
  BY <1>13 DEF S
<1>15. IsSeq(head \o FlattenSeq(seqs))  BY <1>5, <1>11, SeqJoined
<1> QED BY <1>0, <1>4, <1>6, <1>8, <1>12, <1>14, <1>15

\* The rules of a list as they are read, with their numbers.
SaidRules(nums, rules) == [j \in DOMAIN rules |-> SaidRule(nums[j], rules[j].text, rules[j].points)]
RulesLines(nums, rules) == FlattenSeq([j \in DOMAIN rules |-> RuleLines(nums[j], rules[j])])

LEMMA TakesRules ==
    ASSUME NEW secs, Holder(secs), NEW intro, NEW nums, NEW rules, FormRules(rules)
    PROVE  /\ IsSeq(RulesLines(nums, rules))
           /\ Takes(SoFar(intro, WithRules(secs, <<>>)), RulesLines(nums, rules),
                    SoFar(intro, WithRules(secs, SaidRules(nums, rules))))
<1>a. IsSeq(rules)  BY DEF FormRules
<1>b. PICK n : n = Len(rules) /\ n \in Nat /\ DOMAIN rules = 1..n  BY <1>a, SeqDomain
<1>1. PICK seqs : seqs = [j \in DOMAIN rules |-> RuleLines(nums[j], rules[j])]  OBVIOUS
<1>2. IsSeq(seqs) /\ Len(seqs) = n
  <2>1. seqs = [j \in DOMAIN rules |-> seqs[j]]  BY <1>1
  <2> QED BY <1>a, <1>b, <2>1, SeqMapped
<1>3. PICK said : said = SaidRules(nums, rules)  OBVIOUS
<1>4. IsSeq(said) /\ Len(said) = n /\ DOMAIN said = 1..n
  <2>1. said = [j \in DOMAIN rules |-> said[j]]  BY <1>3 DEF SaidRules
  <2> QED BY <1>a, <1>b, <2>1, SeqMapped
<1> DEFINE S(k) == SoFar(intro, WithRules(secs, First(said, k)))
<1>5. PICK st : st = [k \in 0..n |-> S(k)]  OBVIOUS
<1>6. ASSUME NEW k \in 1..n PROVE IsSeq(seqs[k]) /\ Takes(st[k - 1], seqs[k], st[k])
  <2>0. k \in DOMAIN rules /\ k - 1 \in 0..n /\ k \in 0..n  BY <1>b
  <2>1. PICK num, r : num = nums[k] /\ r = rules[k]  OBVIOUS
  <2>2. PointsShape(r.points)  BY <2>0, <2>1 DEF FormRules
  <2>3. seqs[k] = RuleLines(num, r)  BY <1>1, <2>0, <2>1
  <2>4. PICK f : f = First(said, k - 1)  OBVIOUS
  <2>5. IsSeq(f)  BY <1>4, <2>0, <2>4, FirstItems
  <2>6. said[k] = SaidRule(num, r.text, r.points)  BY <1>3, <2>0, <2>1 DEF SaidRules
  <2>7. First(said, k) = Append(f, SaidRule(num, r.text, r.points))  BY <1>4, <2>4, <2>6, FirstItems
  <2>8. st[k - 1] = S(k - 1) /\ st[k] = S(k)  BY <1>5, <2>0
  <2>9. st[k - 1] = SoFar(intro, WithRules(secs, f))  BY <2>4, <2>8
  <2>10. st[k] = SoFar(intro, WithRules(secs, Append(f, SaidRule(num, r.text, r.points))))
    BY <2>7, <2>8
  <2> HIDE DEF S
  <2> QED BY <2>2, <2>3, <2>5, <2>9, <2>10, TakesRule
<1> HIDE DEF S
<1>7. IsSeq(FlattenSeq(seqs)) /\ Takes(st[0], FlattenSeq(seqs), st[n])  BY <1>2, <1>6, TakesFlat
<1>8. st[n] = S(n) /\ st[0] = S(0) /\ First(said, n) = said /\ First(said, 0) = <<>>
  BY <1>b, <1>4, <1>5, FirstItems
<1>9. st[n] = SoFar(intro, WithRules(secs, said)) /\ st[0] = SoFar(intro, WithRules(secs, <<>>))
  BY <1>8 DEF S
<1> QED BY <1>1, <1>3, <1>7, <1>9 DEF RulesLines

LEMMA TakesIntro ==
    ASSUME NEW x, NEW y, NEW words, words = <<>> => x = y,
           words # <<>> => Adds(x, Line("intro", <<>>, words), y)
    PROVE  IsSeq(IntroLines(words)) /\ Takes(x, IntroLines(words), y)
<1>1. CASE words = <<>>  BY <1>1, TakesNone, SeqOfNone DEF IntroLines
<1>2. CASE words # <<>>
  <2>1. IntroLines(words) = <<Line("intro", <<>>, words)>>  BY <1>2 DEF IntroLines
  <2> QED BY <1>2, <2>1, TakesOne, SeqOfOne
<1> QED BY <1>1, <1>2

\* Subsections and sections, as the form has them and as they are read.
FormSub(u) == IsSeq(u.intro) /\ FormRules(u.rules)
FormSection(s) ==
    /\ IsSeq(s.intro) /\ FormRules(s.rules) /\ IsSeq(s.subs)
    /\ \A k \in DOMAIN s.subs : FormSub(s.subs[k])
SaidSub(num, u) == Sub(u.title, u.intro, SaidRules([j \in DOMAIN u.rules |-> Append(num, j)], u.rules))
SaidSubs(i, s) == [k \in DOMAIN s.subs |-> SaidSub(<<i, Len(s.rules) + k>>, s.subs[k])]
SaidSection(i, s) ==
    Sec(s.title, s.intro, SaidRules([j \in DOMAIN s.rules |-> <<i, j>>], s.rules), SaidSubs(i, s))

LEMMA TakesSub ==
    ASSUME NEW secs, IsSeq(secs), NEW intro, NEW title, NEW words, NEW rules, NEW subs, IsSeq(subs),
           NEW num, NEW u, FormSub(u)
    PROVE  /\ IsSeq(SubLines(num, u))
           /\ Takes(SoFar(intro, Append(secs, Sec(title, words, rules, subs))), SubLines(num, u),
                    SoFar(intro, Append(secs, Sec(title, words, rules, Append(subs, SaidSub(num, u))))))
<1>1. PICK nums : nums = [j \in DOMAIN u.rules |-> Append(num, j)]  OBVIOUS
<1>2. PICK a, b, c : a = <<Line("sub", <<>>, u.title)>> /\ b = IntroLines(u.intro) /\ c = RulesLines(nums, u.rules)
  OBVIOUS
<1>3. SubLines(num, u) = (a \o b) \o c
  <2>1. \A j \in DOMAIN u.rules : nums[j] = Append(num, j)  BY <1>1
  <2>2. [j \in DOMAIN u.rules |-> RuleLines(Append(num, j), u.rules[j])]
        = [j \in DOMAIN u.rules |-> RuleLines(nums[j], u.rules[j])]  BY <2>1
  <2>3. c = FlattenSeq([j \in DOMAIN u.rules |-> RuleLines(Append(num, j), u.rules[j])])
    BY <1>2, <2>2 DEF RulesLines
  <2> QED BY <1>2, <2>3 DEF SubLines
<1> DEFINE Y(w, r) == Append(secs, Sec(title, words, rules, Append(subs, Sub(u.title, w, r))))
<1>4. PICK x : x = SoFar(intro, Append(secs, Sec(title, words, rules, subs)))  OBVIOUS
<1>5. PICK y : y = SoFar(intro, Y(<<>>, <<>>))  OBVIOUS
<1>6. PICK z : z = SoFar(intro, Y(u.intro, <<>>))  OBVIOUS
<1>7. Takes(x, a, y) /\ IsSeq(a)
  <2>1. Adds(x, Line("sub", <<>>, u.title), y)  BY <1>4, <1>5, AddsSub
  <2> QED BY <1>2, <2>1, TakesOne, SeqOfOne
<1>8. Takes(y, b, z) /\ IsSeq(b)
  <2>1. PICK e : e = Y(<<>>, <<>>)  OBVIOUS
  <2>2. e # <<>>  BY <2>1, LastOfLonger
  <2>3. Adds(SoFar(intro, e), Line("intro", <<>>, u.intro), SoFar(intro, WithIntro(e, u.intro)))
    BY <2>2, AddsIntro
  <2>4. WithIntro(e, u.intro) = Y(u.intro, <<>>)  BY <2>1, IntroOfSubsection DEF FormSub
  <2>5. Adds(y, Line("intro", <<>>, u.intro), z)  BY <1>5, <1>6, <2>1, <2>3, <2>4
  <2>6. u.intro = <<>> => y = z  BY <1>5, <1>6
  <2> QED BY <1>2, <2>5, <2>6, TakesIntro
<1>9. PICK e : e = Y(u.intro, <<>>)  OBVIOUS
<1>10. Holder(e)  BY <1>9, SubsectionHolds
<1>11. \A more : WithRules(e, more) = Y(u.intro, more)  BY <1>9, RulesOfSubsection
<1>12. PICK said : said = SaidRules(nums, u.rules)  OBVIOUS
<1>13. IsSeq(c) /\ Takes(SoFar(intro, WithRules(e, <<>>)), c, SoFar(intro, WithRules(e, said)))
  BY <1>2, <1>10, <1>12, TakesRules DEF FormSub
<1>14. WithRules(e, <<>>) = Y(u.intro, <<>>) /\ WithRules(e, said) = Y(u.intro, said)  BY <1>11
<1>15. SaidSub(num, u) = Sub(u.title, u.intro, said)  BY <1>1, <1>12 DEF SaidSub
<1>16. SoFar(intro, WithRules(e, said)) = SoFar(intro, Append(secs, Sec(title, words, rules, Append(subs, SaidSub(num, u)))))
  BY <1>14, <1>15
<1>17. Takes(z, c, SoFar(intro, Append(secs, Sec(title, words, rules, Append(subs, SaidSub(num, u))))))
  BY <1>6, <1>13, <1>14, <1>16
<1> HIDE DEF Y
<1>18. IsSeq(a \o b) /\ Takes(x, a \o b, z)  BY <1>7, <1>8, TakesBoth, SeqJoined
<1>19. PICK w : w = SoFar(intro, Append(secs, Sec(title, words, rules, Append(subs, SaidSub(num, u)))))
  OBVIOUS
<1>20. IsSeq((a \o b) \o c) /\ Takes(x, (a \o b) \o c, w)
  BY <1>13, <1>17, <1>18, <1>19, TakesBoth, SeqJoined
<1> QED BY <1>3, <1>4, <1>19, <1>20

LEMMA TakesSection ==
    ASSUME NEW secs, IsSeq(secs), NEW intro, NEW i, NEW s, FormSection(s)
    PROVE  /\ IsSeq(SectionLines(i, s))
           /\ Takes(SoFar(intro, secs), SectionLines(i, s), SoFar(intro, Append(secs, SaidSection(i, s))))
<1>1. PICK nums : nums = [j \in DOMAIN s.rules |-> <<i, j>>]  OBVIOUS
<1>2. PICK seqs : seqs = [k \in DOMAIN s.subs |-> SubLines(<<i, Len(s.rules) + k>>, s.subs[k])]
  OBVIOUS
<1>3. PICK a, b, c, d : /\ a = <<Line("head", <<>>, s.title)>> /\ b = IntroLines(s.intro)
                        /\ c = RulesLines(nums, s.rules) /\ d = FlattenSeq(seqs)
  OBVIOUS
<1>4. SectionLines(i, s) = ((a \o b) \o c) \o d
  <2>1. \A j \in DOMAIN s.rules : nums[j] = <<i, j>>  BY <1>1
  <2>2. [j \in DOMAIN s.rules |-> RuleLines(<<i, j>>, s.rules[j])]
        = [j \in DOMAIN s.rules |-> RuleLines(nums[j], s.rules[j])]  BY <2>1
  <2>3. c = FlattenSeq([j \in DOMAIN s.rules |-> RuleLines(<<i, j>>, s.rules[j])])
    BY <1>3, <2>2 DEF RulesLines
  <2> QED BY <1>2, <1>3, <2>3 DEF SectionLines
<1>5. PICK said : said = SaidRules(nums, s.rules)  OBVIOUS
<1>6. PICK subs : subs = SaidSubs(i, s)  OBVIOUS
<1>7. PICK x : x = SoFar(intro, secs)  OBVIOUS
<1>8. PICK y : y = SoFar(intro, Append(secs, Sec(s.title, <<>>, <<>>, <<>>)))  OBVIOUS
<1>9. PICK e : e = Append(secs, Sec(s.title, s.intro, <<>>, <<>>))  OBVIOUS
<1>10. PICK z : z = SoFar(intro, e)  OBVIOUS
<1>11. Takes(x, a, y) /\ IsSeq(a)
  <2>1. Adds(x, Line("head", <<>>, s.title), y)  BY <1>7, <1>8, AddsHead
  <2> QED BY <1>3, <2>1, TakesOne, SeqOfOne
<1>12. Takes(y, b, z) /\ IsSeq(b)
  <2>1. PICK q : q = Append(secs, Sec(s.title, <<>>, <<>>, <<>>))  OBVIOUS
  <2>2. q # <<>>  BY <2>1, LastOfLonger
  <2>3. Adds(SoFar(intro, q), Line("intro", <<>>, s.intro), SoFar(intro, WithIntro(q, s.intro)))
    BY <2>2, AddsIntro
  <2>4. WithIntro(q, s.intro) = e  BY <1>9, <2>1, IntroOfSection DEF FormSection
  <2>5. Adds(y, Line("intro", <<>>, s.intro), z)  BY <1>8, <1>10, <2>1, <2>3, <2>4
  <2>6. s.intro = <<>> => y = z  BY <1>8, <1>9, <1>10
  <2> QED BY <1>3, <2>5, <2>6, TakesIntro
<1>13. Holder(e)  BY <1>9, SectionHolds
<1>14. \A more : WithRules(e, more) = Append(secs, Sec(s.title, s.intro, more, <<>>))
  BY <1>9, RulesOfSection
<1>15. PICK w : w = SoFar(intro, Append(secs, Sec(s.title, s.intro, said, <<>>)))  OBVIOUS
<1>16. IsSeq(c) /\ Takes(z, c, w)
  <2>1. IsSeq(c) /\ Takes(SoFar(intro, WithRules(e, <<>>)), c, SoFar(intro, WithRules(e, said)))
    BY <1>3, <1>5, <1>13, TakesRules DEF FormSection
  <2>2. WithRules(e, <<>>) = e  BY <1>9, <1>14
  <2>3. WithRules(e, said) = Append(secs, Sec(s.title, s.intro, said, <<>>))  BY <1>14
  <2> QED BY <1>10, <1>15, <2>1, <2>2, <2>3
<1>17. IsSeq(s.subs)  BY DEF FormSection
<1>18. PICK n : n = Len(s.subs) /\ n \in Nat /\ DOMAIN s.subs = 1..n  BY <1>17, SeqDomain
<1>19. IsSeq(seqs) /\ Len(seqs) = n
  <2>1. seqs = [k \in DOMAIN s.subs |-> seqs[k]]  BY <1>2
  <2>2. PICK t : t = s.subs  OBVIOUS
  <2> QED BY <1>17, <1>18, <2>1, <2>2, SeqMapped
<1>20. IsSeq(subs) /\ Len(subs) = n
  <2>1. subs = [k \in DOMAIN s.subs |-> subs[k]]  BY <1>6 DEF SaidSubs
  <2>2. PICK t : t = s.subs  OBVIOUS
  <2> QED BY <1>17, <1>18, <2>1, <2>2, SeqMapped
<1> DEFINE S(k) == SoFar(intro, Append(secs, Sec(s.title, s.intro, said, First(subs, k))))
<1>21. PICK st : st = [k \in 0..n |-> S(k)]  OBVIOUS
<1>22. ASSUME NEW k \in 1..n PROVE IsSeq(seqs[k]) /\ Takes(st[k - 1], seqs[k], st[k])
  <2>0. k \in DOMAIN s.subs /\ k - 1 \in 0..n /\ k \in 0..n  BY <1>18
  <2>1. PICK num, u : num = <<i, Len(s.rules) + k>> /\ u = s.subs[k]  OBVIOUS
  <2>2. FormSub(u)  BY <2>0, <2>1 DEF FormSection
  <2>3. seqs[k] = SubLines(num, u)  BY <1>2, <2>0, <2>1
  <2>4. PICK f : f = First(subs, k - 1)  OBVIOUS
  <2>5. IsSeq(f)  BY <1>20, <2>0, <2>4, FirstItems
  <2>6. subs[k] = SaidSub(num, u)  BY <1>6, <2>0, <2>1 DEF SaidSubs
  <2>7. First(subs, k) = Append(f, SaidSub(num, u))  BY <1>20, <2>4, <2>6, FirstItems
  <2>8. st[k - 1] = S(k - 1) /\ st[k] = S(k)  BY <1>21, <2>0
  <2>9. st[k - 1] = SoFar(intro, Append(secs, Sec(s.title, s.intro, said, f)))  BY <2>4, <2>8
  <2>10. st[k] = SoFar(intro, Append(secs, Sec(s.title, s.intro, said, Append(f, SaidSub(num, u)))))
    BY <2>7, <2>8
  <2> HIDE DEF S
  <2> QED BY <2>2, <2>3, <2>5, <2>9, <2>10, TakesSub
<1> HIDE DEF S
<1>23. IsSeq(d) /\ Takes(st[0], d, st[n])  BY <1>3, <1>19, <1>22, TakesFlat
<1>24. st[n] = S(n) /\ st[0] = S(0) /\ First(subs, n) = subs /\ First(subs, 0) = <<>>
  BY <1>18, <1>20, <1>21, FirstItems
<1>25. st[0] = w  BY <1>15, <1>24 DEF S
<1>26. SaidSection(i, s) = Sec(s.title, s.intro, said, subs)  BY <1>1, <1>5, <1>6 DEF SaidSection
<1>27. st[n] = SoFar(intro, Append(secs, SaidSection(i, s)))  BY <1>24, <1>26 DEF S
<1>28. IsSeq(a \o b) /\ Takes(x, a \o b, z)  BY <1>11, <1>12, TakesBoth, SeqJoined
<1>29. IsSeq((a \o b) \o c) /\ Takes(x, (a \o b) \o c, w)  BY <1>16, <1>28, TakesBoth, SeqJoined
<1>30. Takes(w, d, st[n])  BY <1>23, <1>25
<1>31. IsSeq(((a \o b) \o c) \o d) /\ Takes(x, ((a \o b) \o c) \o d, st[n])
  BY <1>23, <1>29, <1>30, TakesBoth, SeqJoined
<1> QED BY <1>4, <1>7, <1>27, <1>31

\* The items of a list that stand at these places.
Picks(g, s, places, n) ==
    g = [i \in 0..n |-> IF i = 0 THEN <<>> ELSE IF i \in places THEN Append(g[i - 1], s[i]) ELSE g[i - 1]]

LEMMA PicksThere == ASSUME NEW n \in Nat, NEW s, NEW places PROVE \E g : Picks(g, s, places, n)
<1>1. PICK G : G = {k \in 0..n : \E g : Picks(g, s, places, k)}  OBVIOUS
<1>2. 0 \in G
  <2>1. PICK g : g = [i \in 0..0 |-> <<>>]  OBVIOUS
  <2>2. g = [i \in 0..0 |-> IF i = 0 THEN <<>> ELSE IF i \in places THEN Append(g[i - 1], s[i]) ELSE g[i - 1]]
    BY <2>1
  <2>3. Picks(g, s, places, 0)  BY <2>2 DEF Picks
  <2> QED BY <1>1, <2>3
<1>3. ASSUME NEW k \in 1..n, k - 1 \in G PROVE k \in G
  <2>1. PICK h : Picks(h, s, places, k - 1)  BY <1>1, <1>3
  <2>2. PICK last : last = IF k \in places THEN Append(h[k - 1], s[k]) ELSE h[k - 1]  OBVIOUS
  <2>3. PICK g : g = [i \in 0..k |-> IF i = k THEN last ELSE h[i]]  OBVIOUS
  <2>4. ASSUME NEW i \in 0..k
        PROVE  g[i] = IF i = 0 THEN <<>> ELSE IF i \in places THEN Append(g[i - 1], s[i]) ELSE g[i - 1]
    <3>1. CASE i = k
      <4>1. k - 1 \in 0..k /\ k - 1 # k /\ k # 0  OBVIOUS
      <4>2. g[k - 1] = h[k - 1] /\ g[k] = last  BY <2>3, <4>1
      <4> QED BY <2>2, <3>1, <4>1, <4>2
    <3>2. CASE i # k
      <4>1. i \in 0..(k - 1)  BY <3>2
      <4>2. h[i] = IF i = 0 THEN <<>> ELSE IF i \in places THEN Append(h[i - 1], s[i]) ELSE h[i - 1]
        BY <2>1, <4>1 DEF Picks
      <4>3. g[i] = h[i]  BY <2>3, <3>2
      <4>4. i # 0 => i - 1 \in 0..k /\ i - 1 # k  BY <4>1
      <4>5. i # 0 => g[i - 1] = h[i - 1]  BY <2>3, <4>4
      <4> QED BY <4>2, <4>3, <4>5
    <3> QED BY <3>1, <3>2
  <2>5. g = [i \in 0..k |-> g[i]]  BY <2>3
  <2>6. Picks(g, s, places, k)  BY <2>4, <2>5 DEF Picks
  <2> QED BY <1>1, <2>6
<1>4. n \in G
  <2>1. \A k \in 0..n : k \in G  BY <1>2, <1>3, UpTo
  <2> QED BY <2>1
<1> QED BY <1>1, <1>4

LEMMA PickedOf ==
    ASSUME NEW S, NEW s \in Seq(S), NEW places
    PROVE  /\ Picked(s, places) \in Seq(S)
           /\ \E g : /\ g[0] = <<>> /\ Picked(s, places) = g[Len(s)]
                     /\ \A k \in 1..Len(s) : g[k] = IF k \in places THEN Append(g[k - 1], s[k]) ELSE g[k - 1]
<1>0. PICK n : n = Len(s) /\ n \in Nat  OBVIOUS
<1> DEFINE Is(f) == f = [i \in 0..n |-> IF i = 0 THEN <<>>
                                        ELSE IF i \in places THEN Append(f[i - 1], s[i]) ELSE f[i - 1]]
<1>1. Picked(s, places) = (CHOOSE f : Is(f))[n]  BY <1>0 DEF Picked
<1>2. \A f : Is(f) <=> Picks(f, s, places, n)  BY DEF Picks
<1>3. \E f : Is(f)
  <2>1. \E f : Picks(f, s, places, n)  BY <1>0, PicksThere
  <2> QED BY <1>2, <2>1
<1>4. PICK g : g = CHOOSE f : Is(f)  OBVIOUS
<1>5. Picks(g, s, places, n)
  <2> HIDE DEF Is
  <2> QED BY <1>2, <1>3, <1>4
<1> HIDE DEF Is
<1>6. g[0] = <<>>  BY <1>0, <1>5 DEF Picks
<1>7. ASSUME NEW k \in 1..n PROVE g[k] = IF k \in places THEN Append(g[k - 1], s[k]) ELSE g[k - 1]
  <2>1. k \in 0..n /\ k # 0  BY <1>0
  <2> QED BY <1>5, <2>1 DEF Picks
<1>8. g[n] \in Seq(S)
  <2>1. PICK G : G = {k \in 0..n : g[k] \in Seq(S)}  OBVIOUS
  <2>a. <<>> \in Seq(S) /\ 0 \in 0..n  BY <1>0
  <2>2. 0 \in G  BY <1>6, <2>1, <2>a
  <2>3. ASSUME NEW k \in 1..n, k - 1 \in G PROVE k \in G
    <3>1. PICK a, e : a = g[k - 1] /\ e = s[k]  OBVIOUS
    <3>2. a \in Seq(S) /\ e \in S  BY <1>0, <2>1, <2>3, <3>1
    <3>3. Append(a, e) \in Seq(S)  BY <3>2
    <3>4. g[k] \in Seq(S)  BY <1>7, <3>1, <3>2, <3>3
    <3> QED BY <2>1, <3>4
  <2>4. \A k \in 0..n : k \in G  BY <1>0, <2>2, <2>3, UpTo
  <2> QED BY <1>0, <2>1, <2>4
<1>9. Picked(s, places) = g[Len(s)]  BY <1>0, <1>1, <1>4
<1>10. \A k \in 1..Len(s) : g[k] = IF k \in places THEN Append(g[k - 1], s[k]) ELSE g[k - 1]
  BY <1>0, <1>7
<1>11. Picked(s, places) \in Seq(S)  BY <1>0, <1>8, <1>9
<1> QED BY <1>6, <1>9, <1>10, <1>11

LEMMA TakesParagraphs ==
    ASSUME NEW texts, IsSeq(texts)
    PROVE  LET lines == FlattenSeq([i \in DOMAIN texts |-> IntroLines(texts[i])]) IN
           IsSeq(lines) /\ Takes(SoFar(<<>>, <<>>), lines, SoFar(NonBlank(texts), <<>>))
<1>0. PICK n : n = Len(texts) /\ n \in Nat /\ DOMAIN texts = 1..n  BY SeqDomain
<1>1. PICK places : places = {i \in DOMAIN texts : texts[i] # <<>>}  OBVIOUS
<1>2. PICK g : /\ g[0] = <<>> /\ Picked(texts, places) = g[n]
               /\ \A k \in 1..n : g[k] = IF k \in places THEN Append(g[k - 1], texts[k]) ELSE g[k - 1]
  <2>1. PICK S : texts \in Seq(S)  BY DEF IsSeq
  <2> QED BY <1>0, <2>1, PickedOf
<1>3. PICK seqs : seqs = [i \in DOMAIN texts |-> IntroLines(texts[i])]  OBVIOUS
<1>4. IsSeq(seqs) /\ Len(seqs) = n
  <2>1. seqs = [i \in DOMAIN texts |-> seqs[i]]  BY <1>3
  <2> QED BY <1>0, <2>1, SeqMapped
<1>5. PICK st : st = [k \in 0..n |-> SoFar(g[k], <<>>)]  OBVIOUS
<1>6. ASSUME NEW k \in 1..n PROVE IsSeq(seqs[k]) /\ Takes(st[k - 1], seqs[k], st[k])
  <2>0. k \in DOMAIN texts /\ k - 1 \in 0..n /\ k \in 0..n  BY <1>0
  <2>1. PICK text, was, is : text = texts[k] /\ was = g[k - 1] /\ is = g[k]  OBVIOUS
  <2>2. is = IF text # <<>> THEN Append(was, text) ELSE was  BY <1>1, <1>2, <2>0, <2>1
  <2>3. st[k - 1] = SoFar(was, <<>>) /\ st[k] = SoFar(is, <<>>)  BY <1>5, <2>0, <2>1
  <2>4. seqs[k] = IntroLines(text)  BY <1>3, <2>0, <2>1
  <2>5. text = <<>> => st[k - 1] = st[k]  BY <2>2, <2>3
  <2>6. text # <<>> => Adds(st[k - 1], Line("intro", <<>>, text), st[k])
    BY <2>2, <2>3, AddsParagraph
  <2> QED BY <2>4, <2>5, <2>6, TakesIntro
<1>7. IsSeq(FlattenSeq(seqs)) /\ Takes(st[0], FlattenSeq(seqs), st[n])  BY <1>4, <1>6, TakesFlat
<1>8. st[0] = SoFar(<<>>, <<>>) /\ st[n] = SoFar(NonBlank(texts), <<>>)
  BY <1>0, <1>1, <1>2, <1>5 DEF NonBlank
<1> QED BY <1>3, <1>7, <1>8

FormDoc(form) ==
    IsSeq(form.intro) /\ IsSeq(form.sections) /\ \A i \in DOMAIN form.sections : FormSection(form.sections[i])
SaidSections(secs) == [i \in DOMAIN secs |-> SaidSection(i, secs[i])]

LEMMA TakesDoc ==
    ASSUME NEW form, FormDoc(form)
    PROVE  /\ IsSeq(FormatDoc(form))
           /\ Takes(SoFar(<<>>, <<>>), FormatDoc(form), SoFar(NonBlank(form.intro), SaidSections(form.sections)))
<1>1. PICK intro, secs, words : intro = form.intro /\ secs = form.sections /\ words = NonBlank(intro)
  OBVIOUS
<1>2. IsSeq(intro) /\ IsSeq(secs)  BY <1>1 DEF FormDoc
<1>3. PICK n : n = Len(secs) /\ n \in Nat /\ DOMAIN secs = 1..n  BY <1>2, SeqDomain
<1>4. PICK a : a = FlattenSeq([i \in DOMAIN intro |-> IntroLines(intro[i])])  OBVIOUS
<1>5. PICK seqs : seqs = [i \in DOMAIN secs |-> SectionLines(i, secs[i])]  OBVIOUS
<1>6. FormatDoc(form) = a \o FlattenSeq(seqs)  BY <1>1, <1>4, <1>5 DEF FormatDoc
<1>7. IsSeq(a) /\ Takes(SoFar(<<>>, <<>>), a, SoFar(words, <<>>))
  BY <1>1, <1>2, <1>4, TakesParagraphs
<1>8. IsSeq(seqs) /\ Len(seqs) = n
  <2>1. seqs = [i \in DOMAIN secs |-> seqs[i]]  BY <1>5
  <2> QED BY <1>2, <1>3, <2>1, SeqMapped
<1>9. PICK said : said = SaidSections(secs)  OBVIOUS
<1>10. IsSeq(said) /\ Len(said) = n
  <2>1. said = [i \in DOMAIN secs |-> said[i]]  BY <1>9 DEF SaidSections
  <2> QED BY <1>2, <1>3, <2>1, SeqMapped
<1>11. PICK st : st = [k \in 0..n |-> SoFar(words, First(said, k))]  OBVIOUS
<1>12. ASSUME NEW k \in 1..n PROVE IsSeq(seqs[k]) /\ Takes(st[k - 1], seqs[k], st[k])
  <2>0. k \in DOMAIN secs /\ k - 1 \in 0..n /\ k \in 0..n  BY <1>3
  <2>1. PICK s : s = secs[k]  OBVIOUS
  <2>2. FormSection(s)  BY <1>1, <2>0, <2>1 DEF FormDoc
  <2>3. seqs[k] = SectionLines(k, s)  BY <1>5, <2>0, <2>1
  <2>4. PICK f : f = First(said, k - 1)  OBVIOUS
  <2>5. IsSeq(f)  BY <1>10, <2>0, <2>4, FirstItems
  <2>6. said[k] = SaidSection(k, s)  BY <1>9, <2>0, <2>1 DEF SaidSections
  <2>7. First(said, k) = Append(f, SaidSection(k, s))  BY <1>10, <2>4, <2>6, FirstItems
  <2>8. st[k - 1] = SoFar(words, f) /\ st[k] = SoFar(words, Append(f, SaidSection(k, s)))
    BY <1>11, <2>0, <2>4, <2>7
  <2> QED BY <2>2, <2>3, <2>5, <2>8, TakesSection
<1>13. IsSeq(FlattenSeq(seqs)) /\ Takes(st[0], FlattenSeq(seqs), st[n])  BY <1>8, <1>12, TakesFlat
<1>14. First(said, n) = said /\ First(said, 0) = <<>>  BY <1>10, FirstItems
<1>15. st[0] = SoFar(words, <<>>) /\ st[n] = SoFar(words, said)  BY <1>3, <1>11, <1>14
<1>16. IsSeq(a \o FlattenSeq(seqs)) /\ Takes(SoFar(<<>>, <<>>), a \o FlattenSeq(seqs), st[n])
  BY <1>7, <1>13, <1>15, TakesBoth, SeqJoined
<1> QED BY <1>1, <1>6, <1>9, <1>15, <1>16

LEMMA ParsedGoes ==
    ASSUME NEW body, Len(body) \in Nat
    PROVE  Goes(Unparsed, body, Parsed(body)) /\ Here(Unparsed, SoFar(<<>>, <<>>))
<1> DEFINE IsRead(f) == f = [i \in 0..Len(body) |-> IF i = 0 THEN Unparsed ELSE ParseLine(f[i - 1], body[i])]
<1>1. Parsed(body) = (CHOOSE f : IsRead(f))[Len(body)]  BY DEF Parsed
<1>2. \A f : IsRead(f) <=> ReadTo(f, body, Len(body))  BY DEF ReadTo
<1>3. \E f : IsRead(f)
  <2>1. \E f : ReadTo(f, body, Len(body))  BY Readable
  <2> QED BY <1>2, <2>1
<1>4. PICK g : g = CHOOSE f : IsRead(f)  OBVIOUS
<1>5. ReadTo(g, body, Len(body))
  <2> HIDE DEF IsRead
  <2> QED BY <1>2, <1>3, <1>4
<1>6. g[0] = Unparsed /\ \A i \in 1..Len(body) : g[i] = ParseLine(g[i - 1], body[i])
  BY <1>5 DEF ReadTo
<1>7. Goes(Unparsed, body, g[Len(body)])  BY <1>6 DEF Goes
<1>8. Here(Unparsed, SoFar(<<>>, <<>>))  BY DEF Here, Unparsed, SoFar
<1> HIDE DEF IsRead
<1> QED BY <1>1, <1>4, <1>7, <1>8

\* What is read of a form that was written.
LEMMA FormRead ==
    ASSUME NEW form, FormDoc(form), ParseDoc(FormatDoc(form)).ok
    PROVE  LET parsed == ParseDoc(FormatDoc(form)) IN
           parsed.intro = NonBlank(form.intro) /\ parsed.secs = SaidSections(form.sections)
<1>1. PICK body : body = FormatDoc(form)  OBVIOUS
<1>2. IsSeq(body) /\ Takes(SoFar(<<>>, <<>>), body, SoFar(NonBlank(form.intro), SaidSections(form.sections)))
  BY <1>1, TakesDoc
<1>3. Len(body) \in Nat  BY <1>2, SeqDomain
<1>4. PICK d : d = Parsed(body)  OBVIOUS
<1>5. Here(d, SoFar(NonBlank(form.intro), SaidSections(form.sections)))
  BY <1>2, <1>3, <1>4, ParsedGoes DEF Takes
<1>6. PICK p : p = [d EXCEPT !.ok = d.ok /\ d.seen # {}]  OBVIOUS
<1>7. p = ParseDoc(body)  BY <1>4, <1>6 DEF ParseDoc
<1>8. p.ok = (d.ok /\ d.seen # {}) /\ p.intro = d.intro /\ p.secs = d.secs
  <2>1. d = [ok |-> d.ok, intro |-> d.intro, secs |-> d.secs, seen |-> d.seen, inPoint |-> d.inPoint]
    BY <1>5 DEF Here
  <2>2. DOMAIN d = {"ok", "intro", "secs", "seen", "inPoint"}  BY <2>1
  <2> QED BY <1>6, <2>2
<1>9. d.ok  BY <1>1, <1>7, <1>8
<1> QED BY <1>1, <1>5, <1>7, <1>8, <1>9 DEF Here, SoFar

LEMMA ListIsSeq ==
    ASSUME NEW s, IsSequence(s)
    PROVE  IsSeq(s) /\ \A i \in DOMAIN s : s[i] \in ToSet(s)
BY DEF IsSequence, IsSeq, ToSet

LEMMA CleanedPoints ==
    ASSUME NEW points, IsSequence(points), \A p \in ToSet(points) : IsPoint(p)
    PROVE  PointsShape(CleanPoints(points))
<1>1. PICK m : m = [p \in DOMAIN points |-> [points[p] EXCEPT !.sub = NonBlank(points[p].sub)]]
  OBVIOUS
<1>2. ASSUME NEW p \in DOMAIN points PROVE m[p] = Point(m[p].text, m[p].sub) /\ IsSeq(m[p].sub)
  <2>1. PICK q, sub : q = points[p] /\ sub = NonBlank(q.sub)  OBVIOUS
  <2>2. IsPoint(q)  BY <2>1, ListIsSeq
  <2>3. m[p] = [q EXCEPT !.sub = sub]  BY <1>1, <2>1
  <2>4. q = [text |-> q.text, sub |-> q.sub]  BY <2>2 DEF IsPoint
  <2>5. m[p] = [text |-> q.text, sub |-> sub]  BY <2>3, <2>4
  <2>6. IsSeq(sub)
    <3>1. PICK texts : texts = q.sub  OBVIOUS
    <3>2. PICK S : texts \in Seq(S)  BY <2>2, <3>1 DEF IsPoint, IsSequence
    <3>3. sub = Picked(texts, {i \in DOMAIN texts : texts[i] # <<>>})  BY <2>1, <3>1 DEF NonBlank
    <3>4. sub \in Seq(S)  BY <3>2, <3>3, PickedOf
    <3> QED BY <3>4 DEF IsSeq
  <2> QED BY <2>5, <2>6 DEF Point
<1>3. PICK S : S = {m[p] : p \in DOMAIN points}  OBVIOUS
<1>4. m \in Seq(S)
  <2>1. Len(points) \in Nat /\ DOMAIN points = 1..Len(points)  BY ListIsSeq, SeqDomain
  <2>2. m = [p \in 1..Len(points) |-> m[p]] /\ \A p \in 1..Len(points) : m[p] \in S
    BY <1>1, <1>3, <2>1
  <2> QED BY <2>1, <2>2
<1>5. PICK c : c = CleanPoints(points)  OBVIOUS
<1>6. c = Picked(m, {p \in DOMAIN points : points[p].text # <<>>})  BY <1>1, <1>5 DEF CleanPoints
<1>7. c \in Seq(S)  BY <1>4, <1>6, PickedOf
<1>8. ASSUME NEW p \in DOMAIN c PROVE c[p] = Point(c[p].text, c[p].sub) /\ IsSeq(c[p].sub)
  <2>1. c[p] \in S  BY <1>7
  <2>2. PICK q \in DOMAIN points : c[p] = m[q]  BY <1>3, <2>1
  <2> QED BY <1>2, <2>2
<1>9. IsSeq(c)  BY <1>7 DEF IsSeq
<1> QED BY <1>5, <1>8, <1>9 DEF PointsShape

LEMMA CleanedRules ==
    ASSUME NEW rules, IsRules(rules)
    PROVE  FormRules(CleanRules(rules))
<1>1. PICK c : c = CleanRules(rules)  OBVIOUS
<1>2. IsSequence(rules)  BY DEF IsRules
<1>3. IsSeq(rules)  BY <1>2, ListIsSeq
<1>4. c = [j \in DOMAIN rules |-> c[j]]  BY <1>1 DEF CleanRules
<1>5. IsSeq(c) /\ DOMAIN c = DOMAIN rules  BY <1>3, <1>4, SeqMapped
<1>6. ASSUME NEW j \in DOMAIN rules PROVE PointsShape(c[j].points)
  <2>1. PICK r, points : r = rules[j] /\ points = CleanPoints(r.points)  OBVIOUS
  <2>2. r \in ToSet(rules)  BY <1>2, <2>1, ListIsSeq
  <2>3. r = [text |-> r.text, points |-> r.points]  BY <2>2 DEF IsRules
  <2>4. IsSequence(r.points) /\ \A p \in ToSet(r.points) : IsPoint(p)  BY <2>2 DEF IsRules
  <2>5. PointsShape(points)  BY <2>1, <2>4, CleanedPoints
  <2>6. c[j] = [r EXCEPT !.points = points]  BY <1>1, <2>1 DEF CleanRules
  <2>7. c[j].points = points  BY <2>3, <2>6
  <2> QED BY <2>5, <2>7
<1> QED BY <1>1, <1>5, <1>6 DEF FormRules

\* What is left of a form is a form.
LEMMA CleanedDoc ==
    ASSUME NEW doc, IsForm(doc)
    PROVE  FormDoc(CleanDoc(doc))
<1>1. PICK form, old : form = CleanDoc(doc) /\ old = doc.sections  OBVIOUS
<1>2. IsSeq(doc.intro) /\ IsSequence(old) /\ IsSeq(old)  BY <1>1, ListIsSeq DEF IsForm
<1> DEFINE Clean(s) == [s EXCEPT !.rules = CleanRules(s.rules),
                   !.subs = [j \in DOMAIN s.subs |-> [s.subs[j] EXCEPT !.rules = CleanRules(s.subs[j].rules)]]]
<1>3. PICK new : new = [i \in DOMAIN old |-> Clean(old[i])]  OBVIOUS
<1>4. form = [doc EXCEPT !.sections = new]  BY <1>1, <1>3 DEF CleanDoc
<1>5. doc = [intro |-> doc.intro, sections |-> doc.sections]  BY DEF IsForm
<1>6. form.intro = doc.intro /\ form.sections = new  BY <1>4, <1>5
<1>7. IsSeq(new) /\ DOMAIN new = DOMAIN old
  <2>1. new = [i \in DOMAIN old |-> new[i]]  BY <1>3
  <2> QED BY <1>2, <2>1, SeqMapped
<1>8. ASSUME NEW i \in DOMAIN old PROVE FormSection(new[i])
  <2>1. PICK s : s = old[i]  OBVIOUS
  <2>2. s \in ToSet(old)  BY <1>2, <2>1, ListIsSeq
  <2>3. /\ s = [title |-> s.title, intro |-> s.intro, rules |-> s.rules, subs |-> s.subs]
        /\ IsSequence(s.intro) /\ IsRules(s.rules) /\ IsSequence(s.subs)
        /\ \A u \in ToSet(s.subs) :
              u = [title |-> u.title, intro |-> u.intro, rules |-> u.rules] /\ IsSequence(u.intro) /\ IsRules(u.rules)
    BY <1>1, <2>2 DEF IsForm
  <2>4. PICK us : us = s.subs  OBVIOUS
  <2>5. PICK rules : rules = CleanRules(s.rules)  OBVIOUS
  <2>6. PICK subs : subs = [j \in DOMAIN us |-> [us[j] EXCEPT !.rules = CleanRules(us[j].rules)]]
    OBVIOUS
  <2>7. new[i] = [s EXCEPT !.rules = rules, !.subs = subs]  BY <1>3, <2>1, <2>4, <2>5, <2>6
  <2>8. new[i].intro = s.intro /\ new[i].rules = rules /\ new[i].subs = subs  BY <2>3, <2>7
  <2>9. IsSeq(s.intro) /\ IsSequence(us) /\ IsSeq(us)  BY <2>3, <2>4, ListIsSeq
  <2>10. FormRules(rules)  BY <2>3, <2>5, CleanedRules
  <2>11. IsSeq(subs) /\ DOMAIN subs = DOMAIN us
    <3>1. subs = [j \in DOMAIN us |-> subs[j]]  BY <2>6
    <3> QED BY <2>9, <3>1, SeqMapped
  <2>12. ASSUME NEW j \in DOMAIN us PROVE FormSub(subs[j])
    <3>1. PICK u, list : u = us[j] /\ list = CleanRules(u.rules)  OBVIOUS
    <3>2. u \in ToSet(us)  BY <2>9, <3>1, ListIsSeq
    <3>3. u = [title |-> u.title, intro |-> u.intro, rules |-> u.rules] /\ IsSequence(u.intro) /\ IsRules(u.rules)
      BY <2>3, <2>4, <3>2
    <3>4. subs[j] = [u EXCEPT !.rules = list]  BY <2>6, <3>1
    <3>5. subs[j].intro = u.intro /\ subs[j].rules = list  BY <3>3, <3>4
    <3>6. IsSeq(u.intro) /\ FormRules(list)  BY <3>1, <3>3, ListIsSeq, CleanedRules
    <3> QED BY <3>5, <3>6 DEF FormSub
  <2> QED BY <2>8, <2>9, <2>10, <2>11, <2>12 DEF FormSection
<1> QED BY <1>1, <1>2, <1>6, <1>7, <1>8 DEF FormDoc

\* What is read of a form is all there.
AllThere(doc, parsed) ==
    LET said(rules) == [r \in DOMAIN rules |-> Content(rules[r])]
        same(a, b) == a.title = b.title /\ a.intro = b.intro /\ said(a.rules) = said(b.rules)
    IN  /\ parsed.intro = NonBlank(doc.intro)
        /\ Len(parsed.secs) = Len(doc.sections)
        /\ \A i \in DOMAIN doc.sections :
              LET s == parsed.secs[i] t == doc.sections[i] IN
              /\ same(s, t) /\ Len(s.subs) = Len(t.subs)
              /\ \A j \in DOMAIN t.subs : same(s.subs[j], t.subs[j])
              /\ \A j \in DOMAIN s.rules : s.rules[j].num = <<i, j>>

LEMMA ContentSaid ==
    ASSUME NEW nums, NEW rules
    PROVE  LET list == SaidRules(nums, rules) IN
           /\ [r \in DOMAIN list |-> Content(list[r])] = [r \in DOMAIN rules |-> Content(rules[r])]
           /\ DOMAIN list = DOMAIN rules /\ \A j \in DOMAIN list : list[j].num = nums[j]
<1>1. PICK list : list = SaidRules(nums, rules)  OBVIOUS
<1>2. DOMAIN list = DOMAIN rules  BY <1>1 DEF SaidRules
<1>3. ASSUME NEW j \in DOMAIN rules PROVE Content(list[j]) = Content(rules[j]) /\ list[j].num = nums[j]
  <2>1. list[j] = SaidRule(nums[j], rules[j].text, rules[j].points)  BY <1>1 DEF SaidRules
  <2> QED BY <2>1 DEF Content, SaidRule
<1> QED BY <1>1, <1>2, <1>3

LEMMA NothingIsLost ==
    ASSUME NEW doc, IsForm(doc), NEW form, form = CleanDoc(doc), NEW body, body = FormatDoc(form), ParseDoc(body).ok
    PROVE  AllThere(form, ParseDoc(body))
<1>1. FormDoc(form)  BY CleanedDoc
<1>2. PICK parsed : parsed = ParseDoc(body)  OBVIOUS
<1>3. parsed.intro = NonBlank(form.intro) /\ parsed.secs = SaidSections(form.sections)
  BY <1>1, <1>2, FormRead
<1>4. PICK secs, said : secs = form.sections /\ said = SaidSections(secs)  OBVIOUS
<1>5. IsSeq(secs) /\ \A i \in DOMAIN secs : FormSection(secs[i])  BY <1>1, <1>4 DEF FormDoc
<1>6. Len(said) = Len(secs) /\ DOMAIN said = DOMAIN secs
  <2>1. said = [i \in DOMAIN secs |-> said[i]]  BY <1>4 DEF SaidSections
  <2> QED BY <1>5, <2>1, SeqMapped
<1> DEFINE Words(rules) == [r \in DOMAIN rules |-> Content(rules[r])]
           Same(a, b) == a.title = b.title /\ a.intro = b.intro /\ Words(a.rules) = Words(b.rules)
<1>7. ASSUME NEW i \in DOMAIN secs
      PROVE  /\ Same(said[i], secs[i]) /\ Len(said[i].subs) = Len(secs[i].subs)
             /\ \A j \in DOMAIN secs[i].subs : Same(said[i].subs[j], secs[i].subs[j])
             /\ \A j \in DOMAIN said[i].rules : said[i].rules[j].num = <<i, j>>
  <2>1. PICK t, s : t = secs[i] /\ s = said[i]  OBVIOUS
  <2>2. PICK nums : nums = [j \in DOMAIN t.rules |-> <<i, j>>]  OBVIOUS
  <2>3. PICK rules, subs : rules = SaidRules(nums, t.rules) /\ subs = SaidSubs(i, t)  OBVIOUS
  <2>4. s = Sec(t.title, t.intro, rules, subs)
    <3>1. s = SaidSection(i, t)  BY <1>4, <2>1 DEF SaidSections
    <3> QED BY <2>2, <2>3, <3>1 DEF SaidSection
  <2>5. s.title = t.title /\ s.intro = t.intro /\ s.rules = rules /\ s.subs = subs  BY <2>4 DEF Sec
  <2>6. Words(rules) = Words(t.rules) /\ DOMAIN rules = DOMAIN t.rules /\ \A j \in DOMAIN rules : rules[j].num = nums[j]
    BY <2>3, ContentSaid
  <2>7. \A j \in DOMAIN rules : rules[j].num = <<i, j>>  BY <2>2, <2>6
  <2>8. Len(subs) = Len(t.subs)
    <3>1. PICK us : us = t.subs /\ IsSeq(us)  BY <1>5, <2>1 DEF FormSection
    <3>2. subs = [k \in DOMAIN us |-> subs[k]]  BY <2>3, <3>1 DEF SaidSubs
    <3> QED BY <3>1, <3>2, SeqMapped
  <2>9. ASSUME NEW j \in DOMAIN t.subs PROVE Same(subs[j], t.subs[j])
    <3>1. PICK u, num : u = t.subs[j] /\ num = <<i, Len(t.rules) + j>>  OBVIOUS
    <3>2. PICK ns : ns = [k \in DOMAIN u.rules |-> Append(num, k)]  OBVIOUS
    <3>3. PICK list : list = SaidRules(ns, u.rules)  OBVIOUS
    <3>4. subs[j] = SaidSub(num, u)  BY <2>3, <3>1 DEF SaidSubs
    <3>5. subs[j] = Sub(u.title, u.intro, list)  BY <3>2, <3>3, <3>4 DEF SaidSub
    <3>6. subs[j].title = u.title /\ subs[j].intro = u.intro /\ subs[j].rules = list
      BY <3>5 DEF Sub
    <3>7. Words(list) = Words(u.rules)  BY <3>3, ContentSaid
    <3> HIDE DEF Words
    <3> QED BY <3>1, <3>6, <3>7
  <2> HIDE DEF Words
  <2>10. Same(s, t)  BY <2>5, <2>6
  <2> HIDE DEF Same
  <2> QED BY <2>1, <2>5, <2>7, <2>8, <2>9, <2>10
<1>8. parsed.secs = said  BY <1>3, <1>4
<1> QED BY <1>2, <1>3, <1>4, <1>6, <1>7, <1>8 DEF AllThere

\* A save, or a version, made in the section editor: the form it was written from.
FromForm(q) ==
    q.form # None => \E doc \in SectionForms :
        q.form = CleanDoc(doc) /\ q.body = FormatDoc(q.form) /\ ParseDoc(q.body).ok

FormsInv ==
    /\ \A v \in DOMAIN versions : FromForm(versions[v])
    /\ \A e \in Editors : saving[e].at \in {"lock", "diff", "publish"} => FromForm(saving[e])

LEMMA FormsRead == ASSUME FormsInv PROVE NothingLost
<1>1. ASSUME NEW v \in DOMAIN versions, versions[v].form # None
      PROVE  AllThere(versions[v].form, ParseDoc(versions[v].body))
  <2>1. PICK q : q = versions[v]  OBVIOUS
  <2>2. PICK doc \in SectionForms : q.form = CleanDoc(doc) /\ q.body = FormatDoc(q.form) /\ ParseDoc(q.body).ok
    BY <1>1, <2>1 DEF FormsInv, FromForm
  <2>3. IsForm(doc)  BY RulebookAssumption
  <2>4. AllThere(q.form, ParseDoc(q.body))  BY <2>2, <2>3, NothingIsLost
  <2> QED BY <2>1, <2>4
<1> QED BY <1>1 DEF NothingLost, AllThere

LEMMA FormsStart == ASSUME RulebookInit PROVE FormsInv
BY DEF RulebookInit, NotSaving, FormsInv

\* A save goes on with what it was written from, or ends.
LEMMA FormsGoOn ==
    ASSUME RulesInv, FormsInv, NEW e \in Editors, NEW q, Saving(e, q), UNCHANGED versions,
           q.at \in {"lock", "diff", "publish"} => FromForm(q)
    PROVE  FormsInv'
<1>1. OnlySaving(e) /\ saving'[e] = q  BY SavingOf
<1>2. \A v \in DOMAIN versions' : FromForm(versions'[v])  BY DEF FormsInv
<1>3. ASSUME NEW f \in Editors, saving'[f].at \in {"lock", "diff", "publish"} PROVE FromForm(saving'[f])
  <2>1. CASE f = e  BY <1>1, <1>3, <2>1
  <2>2. CASE f # e
    <3>1. saving'[f] = saving[f]  BY <1>1, <2>2 DEF OnlySaving
    <3> QED BY <1>3, <3>1 DEF FormsInv
  <2> QED BY <2>1, <2>2
<1> QED BY <1>2, <1>3 DEF FormsInv, FromForm

LEMMA FormsKeep == ASSUME RulesInv, FormsInv, RulebookNext \/ UNCHANGED ruleVars PROVE FormsInv'
<1>0. CASE UNCHANGED ruleVars
  BY <1>0 DEF FormsInv, ruleVars, FromForm
<1>1. ASSUME NEW e \in Editors, NEW q, Saving(e, q), UNCHANGED versions, q.at \notin {"lock", "diff", "publish"}
      PROVE  FormsInv'
  BY <1>1, FormsGoOn
<1>2. ASSUME NEW e \in Editors, NEW note \in BOOLEAN, NEW body \in TextForms, SubmitText(e, body, note)
      PROVE  FormsInv'
  <2>1. PICK q : q = [at |-> "lock", body |-> body, form |-> None, note |-> note]  OBVIOUS
  <2>2. Saving(e, q) /\ UNCHANGED versions  BY <1>2, <2>1 DEF SubmitText
  <2>3. FromForm(q)  BY <2>1 DEF FromForm
  <2> QED BY <2>2, <2>3, FormsGoOn
<1>3. ASSUME NEW e \in Editors, NEW note \in BOOLEAN, NEW doc \in SectionForms, SubmitSections(e, doc, note)
      PROVE  FormsInv'
  <2>0. PICK form, body : form = CleanDoc(doc) /\ body = FormatDoc(form)  OBVIOUS
  <2>1. PICK q : q = [at |-> "lock", body |-> body, form |-> form, note |-> note]  OBVIOUS
  <2>2. Saving(e, q) /\ UNCHANGED versions /\ ParseDoc(body).ok
    BY <1>3, <2>0, <2>1 DEF SubmitSections
  <2>3. q.form = form /\ q.body = body  BY <2>1
  <2>4. FromForm(q)  BY <2>0, <2>2, <2>3 DEF FromForm
  <2> QED BY <2>2, <2>4, FormsGoOn
<1>4. ASSUME NEW e \in Editors, LockTable(e) PROVE FormsInv'
  <2>1. PICK p : p = saving[e]  OBVIOUS
  <2>2. p.at = "lock" /\ Text(p) /\ FromForm(p) /\ UNCHANGED versions
    BY <1>4, <2>1 DEF LockTable, RulesInv, FormsInv
  <2>3. PICK q : q = [p EXCEPT !.at = "diff"]  OBVIOUS
  <2>4. Saving(e, q)  BY <1>4, <2>1, <2>3 DEF LockTable
  <2>5. q.form = p.form /\ q.body = p.body  BY <2>2, <2>3 DEF Text
  <2>6. FromForm(q)  BY <2>2, <2>5 DEF FromForm
  <2> QED BY <2>2, <2>4, <2>6, FormsGoOn
<1>5. ASSUME NEW e \in Editors, Diff(e) PROVE FormsInv'
  <2>1. PICK p : p = saving[e]  OBVIOUS
  <2>2. p.at = "diff" /\ FromForm(p) /\ UNCHANGED versions  BY <1>5, <2>1 DEF Diff, FormsInv
  <2>3. CASE Saving(e, NotSaving)
    <3>1. NotSaving.at \notin {"lock", "diff", "publish"}  BY DEF NotSaving
    <3> QED BY <1>1, <2>2, <2>3, <3>1
  <2>4. CASE ~Saving(e, NotSaving)
    <3>1. PICK changed : changed = IF versions = <<>> THEN {}
                                   ELSE Changed(ParseDoc(Last(versions).body).secs, ParseDoc(p.body).secs)
      OBVIOUS
    <3>2. PICK q : q = [at |-> "publish", body |-> p.body, form |-> p.form, changed |-> changed]
      OBVIOUS
    <3>3. Saving(e, q)  BY <1>5, <2>1, <2>4, <3>1, <3>2 DEF Diff
    <3>4. q.form = p.form /\ q.body = p.body  BY <3>2
    <3>5. FromForm(q)  BY <2>2, <3>4 DEF FromForm
    <3> QED BY <2>2, <3>3, <3>5, FormsGoOn
  <2> QED BY <2>3, <2>4
<1>6. ASSUME NEW e \in Editors, Publish(e) PROVE FormsInv'
  <2>1. PICK p : p = saving[e]  OBVIOUS
  <2>2. p.at = "publish" /\ FromForm(p)  BY <1>6, <2>1 DEF Publish, FormsInv
  <2>3. PICK n : n = Len(versions)  OBVIOUS
  <2>4. n \in Nat /\ DOMAIN versions = 1..n  BY <2>3, SeqDomain DEF RulesInv
  <2>5. PICK row : row = [body |-> p.body, changed |-> p.changed, form |-> p.form]  OBVIOUS
  <2>6. PICK q : q = [at |-> "labels", version |-> n + 1]  OBVIOUS
  <2>7. versions' = Append(versions, row) /\ Saving(e, q)
    BY <1>6, <2>1, <2>3, <2>5, <2>6 DEF Publish
  <2>8. OnlySaving(e) /\ saving'[e] = q /\ q.at = "labels"  BY <2>6, <2>7, SavingOf
  <2>9. /\ DOMAIN versions' = 1..n + 1 /\ versions'[n + 1] = row
        /\ \A i \in 1..n : versions'[i] = versions[i]
    BY <2>3, <2>4, <2>7, SeqLonger DEF RulesInv
  <2>10. FromForm(row)
    <3>1. row.form = p.form /\ row.body = p.body  BY <2>5
    <3> QED BY <2>2, <3>1 DEF FromForm
  <2>11. ASSUME NEW v \in DOMAIN versions' PROVE FromForm(versions'[v])
    <3>1. CASE v \in 1..n
      <4>1. versions'[v] = versions[v] /\ v \in DOMAIN versions  BY <2>4, <2>9, <3>1
      <4> QED BY <4>1 DEF FormsInv
    <3>2. CASE v = n + 1  BY <2>9, <2>10, <3>2
    <3> QED BY <2>4, <2>9, <3>1, <3>2
  <2>12. ASSUME NEW f \in Editors, saving'[f].at \in {"lock", "diff", "publish"} PROVE FromForm(saving'[f])
    <3>1. f # e  BY <2>8, <2>12
    <3>2. saving'[f] = saving[f]  BY <2>8, <3>1 DEF OnlySaving
    <3> QED BY <2>12, <3>2 DEF FormsInv
  <2> QED BY <2>11, <2>12 DEF FormsInv, FromForm
<1>7. ASSUME NEW e \in Editors, SaveFails(e) \/ SendNotice(e) PROVE FormsInv'
  <2>1. NotSaving.at \notin {"lock", "diff", "publish"}  BY DEF NotSaving
  <2>2. Saving(e, NotSaving) /\ UNCHANGED versions  BY <1>7 DEF SaveFails, SendNotice
  <2> QED BY <1>1, <2>1, <2>2
<1>8. ASSUME NEW e \in Editors, NEW essential \in BOOLEAN, ReadLabels(e, essential) PROVE FormsInv'
  <2>1. PICK next : next = IF essential
                           THEN [at |-> "notice", version |-> saving[e].version, labels |-> Last(versions).changed]
                           ELSE NotSaving
    OBVIOUS
  <2>2. next.at \notin {"lock", "diff", "publish"}  BY <2>1 DEF NotSaving
  <2>3. Saving(e, next) /\ UNCHANGED versions  BY <1>8, <2>1 DEF ReadLabels
  <2> QED BY <1>1, <2>2, <2>3
<1> QED BY <1>0, <1>2, <1>3, <1>4, <1>5, <1>6, <1>7, <1>8 DEF RulebookNext

-------------------------------------------------------------------------------
(* The drives: nothing written into a document is lost.                      *)

Depts == {f.dept : f \in Forms}
Sights == {f.vis : f \in Forms}
Files == [kind : {"doc", "file"}, dept : Depts, vis : Sights, folder : Nat, text : Texts,
  gone : BOOLEAN]
Drawers == [dept : Depts, vis : Sights, parent : Nat, gone : BOOLEAN]
Placings == [dept : Depts, vis : Sights, folder : Nat]

DriveTypes ==
    /\ items \in Seq(Files) /\ folders \in Seq(Drawers)
    /\ copies \in Seq(Seq(Texts)) /\ wrote \in Seq(Seq(Texts))
    /\ Len(copies) = Len(items) /\ Len(wrote) = Len(items)
    /\ DOMAIN hand = Hands
    /\ \A h \in Hands :
          /\ hand[h].at \in {"insert", "save"} => hand[h].in \in Placings /\ hand[h].text \in Texts
          /\ hand[h].at = "insert" => hand[h].kind \in {"doc", "file"}
          /\ hand[h].at \in {"save", "archive"} => hand[h].item \in DOMAIN items
          /\ hand[h].at = "folder" => hand[h].folder \in DOMAIN folders

\* Who saves a document holds its row, so what was read is what it still says.
HoldsRow(h) == hand[h].at \in {"save", "archive"}
Savers ==
    /\ \A h, k \in Hands : HoldsRow(h) /\ HoldsRow(k) /\ hand[h].item = hand[k].item => h = k
    /\ \A h \in Hands : hand[h].at = "save" => hand[h].old = items[hand[h].item].text

DriveInv == DriveTypes /\ Savers /\ VersionsComplete

LEMMA DriveStart == DriveInit => DriveInv
BY DEF DriveInit, DriveInv, DriveTypes, Savers, VersionsComplete, Resting, HoldsRow

LEMMA InputsPlaced ==
    ASSUME DriveTypes, NEW in \in Inputs, in.folder # 0 => FolderThere(in.folder)
    PROVE  Placed(in) \in Placings /\ in.vis \in Sights /\ in.folder \in Nat
<1>1. PICK f \in Forms,
        d \in {0} \cup DOMAIN folders : in = [dept |-> f.dept, vis |-> f.vis, folder |-> d]
  BY DEF Inputs, Input
<1>2. d \in Nat
  <2>1. folders \in Seq(Drawers)  BY DEF DriveTypes
  <2> QED BY <1>1, <2>1
<1>3. in.folder # 0 => folders[in.folder].dept \in Depts
  <2>1. folders \in Seq(Drawers)  BY DEF DriveTypes
  <2>2. \A x \in DOMAIN folders : folders[x] \in Drawers  BY <2>1
  <2> QED BY <2>2 DEF FolderThere, Drawers
<1>4. f.dept \in Depts /\ f.vis \in Sights  BY DEF Depts, Sights
<1>5. in.dept = f.dept /\ in.vis = f.vis /\ in.folder = d  BY <1>1
<1>6. \A e \in Depts : [in EXCEPT !.dept = e] \in Placings
  BY <1>1, <1>2, <1>4 DEF Placings
<1> QED BY <1>2, <1>3, <1>4, <1>5, <1>6 DEF Placed

LEMMA DriveKeeps ==
    ASSUME DriveInv, [DriveNext]_driveVars
    PROVE  DriveInv'
<1> USE DEF Holds, Resting, HoldsRow
<1>0. DriveTypes /\ Savers /\ VersionsComplete  BY DEF DriveInv
<1>z. /\ DOMAIN items = 1 .. Len(items) /\ DOMAIN copies = 1 .. Len(items)
           /\ DOMAIN wrote = 1 .. Len(items)
      /\ Len(items) \in Nat /\ DOMAIN hand = Hands /\ DOMAIN folders = 1 .. Len(folders)
  BY <1>0 DEF DriveTypes
\* A request that neither holds a row nor writes.
<1>i. ASSUME NEW h \in Hands, NEW q, Holds(h, q), q.at \notin {"insert", "save", "archive", "folder"},
             UNCHANGED <<folders, items, copies, wrote>>
      PROVE  DriveInv'
  <2>1. hand'[h].at \notin {"insert", "save", "archive", "folder"}
        /\ DOMAIN hand' = Hands /\ \A k \in Hands \ {h} : hand'[k] = hand[k]
    BY <1>i, <1>z
  <2>2. DriveTypes'  BY <1>0, <1>i, <2>1 DEF DriveTypes
  <2>3. Savers'  BY <1>0, <1>i, <2>1 DEF Savers
  <2>4. VersionsComplete'  BY <1>0, <1>i DEF VersionsComplete
  <2> QED BY <2>2, <2>3, <2>4 DEF DriveInv
<1>1. ASSUME NEW p \in Readers, NEW s \in Standings, StandingChanges(p, s)
      PROVE  DriveInv'
  BY <1>0, <1>1 DEF StandingChanges, DriveInv, DriveTypes, Savers, VersionsComplete
<1>2. ASSUME NEW h \in Hands, NEW p \in Readers, NEW page \in {"command", "members"}, Look(h, p, page)
      PROVE  DriveInv'
  <2>1. PICK q : q = [at |-> "look", by |-> p, page |-> page,
            view |-> IF page = "members" THEN AsMember(Viewer(standing[p]))
              ELSE Viewer(standing[p])]  OBVIOUS
  <2>2. q.at = "look"  BY <2>1
  <2>3. Holds(h, q)  BY <1>2, <2>1 DEF Look
  <2> QED BY <1>2, <1>i, <2>2, <2>3 DEF Look
<1>3. ASSUME NEW h \in Hands, NEW p \in Readers, NEW doing \in {"new", "edit", "remove"},
               Start(h, p, doing)
      PROVE  DriveInv'
  <2>1. PICK q : q = [at |-> doing, by |-> p, view |-> Viewer(standing[p])]  OBVIOUS
  <2>2. q.at = doing  BY <2>1
  <2>3. Holds(h, q)  BY <1>3, <2>1 DEF Start
  <2> QED BY <1>3, <1>i, <2>2, <2>3 DEF Start
<1>4. ASSUME NEW h \in Hands, NEW shown, Show(h, shown)
      PROVE  DriveInv'
  <2>1. PICK q : q = Resting  OBVIOUS
  <2>2. q.at = "idle"  BY <2>1
  <2>3. Holds(h, q)  BY <1>4, <2>1 DEF Show
  <2> QED BY <1>4, <1>i, <2>2, <2>3 DEF Show
<1>5. ASSUME NEW h \in Hands, LetGo(h)
      PROVE  DriveInv'
  <2>1. PICK q : q = Resting  OBVIOUS
  <2>2. q.at = "idle"  BY <2>1
  <2>3. Holds(h, q)  BY <1>5, <2>1 DEF LetGo
  <2> QED BY <1>5, <1>i, <2>2, <2>3 DEF LetGo
<1>6. ASSUME NEW h \in Hands, NEW in \in Inputs, NEW text \in Texts, NEW kind \in {"doc", "file"},
             Place(h, in, text, kind)
      PROVE  DriveInv'
  <2>1. Placed(in) \in Placings  BY <1>0, <1>6, InputsPlaced DEF Place, MayPlace
  <2>2. /\ hand'[h].at = "insert" /\ hand'[h].in = Placed(in) /\ hand'[h].text = text
             /\ hand'[h].kind = kind
        /\ DOMAIN hand' = Hands /\ \A k \in Hands \ {h} : hand'[k] = hand[k]
    BY <1>6, <1>z DEF Place
  <2>3. UNCHANGED <<folders, items, copies, wrote>>  BY <1>6 DEF Place
  <2>4. DriveTypes'  BY <1>0, <2>1, <2>2, <2>3 DEF DriveTypes
  <2>5. Savers'  BY <1>0, <2>2, <2>3 DEF Savers
  <2>6. VersionsComplete'  BY <1>0, <2>3 DEF VersionsComplete
  <2> QED BY <2>4, <2>5, <2>6 DEF DriveInv
<1>7. ASSUME NEW h \in Hands, InsertItem(h)
      PROVE  DriveInv'
  <2> DEFINE q == hand[h]
             row == [kind |-> q.kind, dept |-> q.in.dept, vis |-> q.in.vis,
                     folder |-> q.in.folder, text |-> q.text, gone |-> FALSE]
  <2>1. q.at = "insert" /\ q.in \in Placings /\ q.text \in Texts /\ q.kind \in {"doc", "file"}
    BY <1>0, <1>7 DEF InsertItem, DriveTypes
  <2>2. row \in Files  BY <2>1 DEF Placings, Files
  <2>3. items' = Append(items, row) /\ wrote' = Append(wrote, <<q.text>>)
          /\ copies' = Append(copies, <<>>)
        /\ folders' = folders
    BY <1>7 DEF InsertItem
  <2>4. /\ hand'[h].at = "idle" /\ DOMAIN hand' = Hands /\ \A k \in Hands \ {h} : hand'[k] = hand[k]
    BY <1>7, <1>z DEF InsertItem
  <2>5. /\ items' \in Seq(Files) /\ Len(items') = Len(items) + 1
        /\ \A i \in 1 .. Len(items) : items'[i] = items[i]
        /\ items'[Len(items) + 1] = row
    BY <2>2, <2>3, <1>0 DEF DriveTypes
  <2>6. /\ wrote' \in Seq(Seq(Texts)) /\ Len(wrote') = Len(items) + 1
        /\ \A i \in 1 .. Len(items) : wrote'[i] = wrote[i]
        /\ wrote'[Len(items) + 1] = <<q.text>>
    <3>1. <<q.text>> \in Seq(Texts)  BY <2>1
    <3>2. wrote \in Seq(Seq(Texts)) /\ Len(wrote) = Len(items)  BY <1>0 DEF DriveTypes
    <3> HIDE DEF q
    <3> QED BY <2>3, <3>1, <3>2, AppendProperties
  <2>7. /\ copies' \in Seq(Seq(Texts)) /\ Len(copies') = Len(items) + 1
        /\ \A i \in 1 .. Len(items) : copies'[i] = copies[i]
        /\ copies'[Len(items) + 1] = <<>>
    <3>1. <<>> \in Seq(Texts)  OBVIOUS
    <3>2. copies \in Seq(Seq(Texts)) /\ Len(copies) = Len(items)  BY <1>0 DEF DriveTypes
    <3> QED BY <2>3, <3>1, <3>2, AppendProperties
  <2>8. row.text = q.text  OBVIOUS
  <2> HIDE DEF q, row
  <2>9. DOMAIN items' = 1 .. Len(items) + 1  BY <2>5
  <2>10. DriveTypes'
    <3>1. \A i \in DOMAIN items : i \in DOMAIN items'  BY <2>9, <1>z
    <3>2. \A k \in Hands : hand'[k] = hand[k] \/ hand'[k].at = "idle"  BY <2>4
    <3> QED BY <1>0, <2>3, <2>4, <2>5, <2>6, <2>7, <3>1, <3>2 DEF DriveTypes
  <2>11. Savers'
    <3>1. \A k \in Hands : hand[k].at \in {"save", "archive"} => hand[k].item \in 1 .. Len(items)
      BY <1>0, <1>z DEF DriveTypes
    <3> QED BY <1>0, <2>4, <2>5, <3>1 DEF Savers
  <2>12. VersionsComplete'
    <3>1. \A i \in 1 .. Len(items) : wrote'[i] = Append(copies'[i], items'[i].text)
      BY <1>0, <1>z, <2>5, <2>6, <2>7 DEF VersionsComplete
    <3>2. <<q.text>> = Append(<<>>, q.text)  OBVIOUS
    <3>3. wrote'[Len(items) + 1] = Append(copies'[Len(items) + 1], items'[Len(items) + 1].text)
      BY <2>5, <2>6, <2>7, <2>8, <3>2
    <3> QED BY <1>z, <2>9, <3>1, <3>3 DEF VersionsComplete
  <2> QED BY <2>10, <2>11, <2>12 DEF DriveInv
<1>8. ASSUME NEW h \in Hands, NEW i \in DOMAIN items, NEW in \in Inputs, NEW text \in Texts,
             OpenDoc(h, i, in, text)
      PROVE  DriveInv'
  <2>1. Placed(in) \in Placings  BY <1>0, <1>8, InputsPlaced DEF OpenDoc, MayPlace
  <2>2. /\ hand'[h].at = "save" /\ hand'[h].in = Placed(in) /\ hand'[h].text = text
        /\ hand'[h].item = i /\ hand'[h].old = items[i].text
        /\ DOMAIN hand' = Hands /\ \A k \in Hands \ {h} : hand'[k] = hand[k]
    BY <1>8, <1>z DEF OpenDoc
  <2>3. UNCHANGED <<folders, items, copies, wrote>> /\ ~RowLocked(i)  BY <1>8 DEF OpenDoc
  <2>4. DriveTypes'  BY <1>0, <2>1, <2>2, <2>3 DEF DriveTypes
  <2>5. \A k \in Hands : hand[k].at \in {"save", "archive"} => hand[k].item # i  BY <2>3 DEF RowLocked
  <2>6. Savers'  BY <1>0, <2>2, <2>3, <2>5 DEF Savers
  <2>7. VersionsComplete'  BY <1>0, <2>3 DEF VersionsComplete
  <2> QED BY <2>4, <2>6, <2>7 DEF DriveInv
<1>9. ASSUME NEW h \in Hands, SaveDoc(h)
      PROVE  DriveInv'
  <2> DEFINE q == hand[h]
             j == q.item
  <2>1. /\ q.at = "save" /\ q.in \in Placings /\ q.text \in Texts /\ j \in DOMAIN items
             /\ q.old = items[j].text
        /\ \A k \in Hands \ {h} : hand[k].at \in {"save", "archive"} => hand[k].item # j
    BY <1>0, <1>9 DEF SaveDoc, DriveTypes, Savers
  <2>2. items[j] \in Files /\ copies[j] \in Seq(Texts) /\ wrote[j] \in Seq(Texts)
    BY <1>0, <1>z, <2>1 DEF DriveTypes
  <2>3. PICK row : row = [items[j] EXCEPT !.text = q.text, !.dept = q.in.dept, !.vis = q.in.vis,
          !.folder = q.in.folder]
    OBVIOUS
  <2>4. row \in Files /\ row.text = q.text  BY <2>1, <2>2, <2>3 DEF Files, Placings
  <2>5. items' = [items EXCEPT ![j] = row]  BY <1>9, <2>3 DEF SaveDoc
  <2>6. /\ copies' = [copies EXCEPT ![j] = Append(copies[j], q.old)]
        /\ wrote' = [wrote EXCEPT ![j] = Append(wrote[j], q.text)] /\ folders' = folders
    BY <1>9 DEF SaveDoc
  <2>7. /\ hand'[h].at = "idle" /\ DOMAIN hand' = Hands /\ \A k \in Hands \ {h} : hand'[k] = hand[k]
    BY <1>9, <1>z DEF SaveDoc
  <2>8. /\ items' \in Seq(Files) /\ Len(items') = Len(items) /\ DOMAIN items' = DOMAIN items
        /\ \A i \in DOMAIN items : items'[i] = IF i = j THEN row ELSE items[i]
    BY <1>0, <2>1, <2>4, <2>5 DEF DriveTypes
  <2>9. PICK c \in Seq(Texts) : c = Append(copies[j], q.old)
    <3>1. q.old \in Texts  BY <2>1, <2>2 DEF Files
    <3>2. copies[j] \in Seq(Texts)  BY <2>2
    <3> HIDE DEF q, j
    <3>3. Append(copies[j], q.old) \in Seq(Texts)  BY <3>1, <3>2, AppendProperties
    <3> QED BY <3>3
  <2>10. /\ copies' \in Seq(Seq(Texts)) /\ Len(copies') = Len(items)
         /\ \A i \in DOMAIN items : copies'[i] = IF i = j THEN c ELSE copies[i]
    <3>1. copies \in Seq(Seq(Texts)) /\ Len(copies) = Len(items)  BY <1>0 DEF DriveTypes
    <3>2. j \in 1 .. Len(copies) /\ DOMAIN copies = DOMAIN items  BY <2>1, <1>z, <3>1
    <3> HIDE DEF q, j
    <3> QED BY <2>6, <2>9, <3>1, <3>2
  <2>11. PICK w \in Seq(Texts) : w = Append(wrote[j], q.text)
    <3>1. q.text \in Texts /\ wrote[j] \in Seq(Texts)  BY <2>1, <2>2
    <3> HIDE DEF q, j
    <3>2. Append(wrote[j], q.text) \in Seq(Texts)  BY <3>1, AppendProperties
    <3> QED BY <3>2
  <2>12. /\ wrote' \in Seq(Seq(Texts)) /\ Len(wrote') = Len(items)
         /\ \A i \in DOMAIN items : wrote'[i] = IF i = j THEN w ELSE wrote[i]
    <3>1. wrote \in Seq(Seq(Texts)) /\ Len(wrote) = Len(items)  BY <1>0 DEF DriveTypes
    <3>2. j \in 1 .. Len(wrote) /\ DOMAIN wrote = DOMAIN items  BY <2>1, <1>z, <3>1
    <3> HIDE DEF q, j
    <3> QED BY <2>6, <2>11, <3>1, <3>2
  <2>13. wrote[j] = c  BY <1>0, <2>1, <2>9 DEF VersionsComplete
  <2> HIDE DEF q, j
  <2>14. DriveTypes'
    <3>2. \A k \in Hands : hand'[k] = hand[k] \/ hand'[k].at = "idle"  BY <2>7
    <3> QED BY <1>0, <2>6, <2>7, <2>8, <2>10, <2>12, <3>2 DEF DriveTypes
  <2>15. Savers'
    <3>1. \A k \in Hands : hand[k].at = "save" => hand[k].item \in DOMAIN items
      BY <1>0 DEF DriveTypes
    <3> QED BY <1>0, <2>1, <2>7, <2>8, <3>1 DEF Savers
  <2>16. VersionsComplete'
    <3> SUFFICES ASSUME NEW i \in DOMAIN items PROVE wrote'[i] = Append(copies'[i], items'[i].text)
      BY <2>8 DEF VersionsComplete
    <3>1. CASE i = j  BY <3>1, <2>4, <2>8, <2>10, <2>11, <2>12, <2>13
    <3>2. CASE i # j  BY <3>2, <1>0, <2>8, <2>10, <2>12 DEF VersionsComplete
    <3> QED BY <3>1, <3>2
  <2> QED BY <2>14, <2>15, <2>16 DEF DriveInv
<1>10. ASSUME NEW h \in Hands, NEW i \in DOMAIN items, OpenItem(h, i)
      PROVE  DriveInv'
  <2>2. /\ hand'[h].at = "archive" /\ hand'[h].item = i
        /\ DOMAIN hand' = Hands /\ \A k \in Hands \ {h} : hand'[k] = hand[k]
    BY <1>10, <1>z DEF OpenItem
  <2>3. UNCHANGED <<folders, items, copies, wrote>> /\ ~RowLocked(i)  BY <1>10 DEF OpenItem
  <2>4. DriveTypes'  BY <1>0, <2>2, <2>3 DEF DriveTypes
  <2>5. \A k \in Hands : hand[k].at \in {"save", "archive"} => hand[k].item # i  BY <2>3 DEF RowLocked
  <2>6. Savers'  BY <1>0, <2>2, <2>3, <2>5 DEF Savers
  <2>7. VersionsComplete'  BY <1>0, <2>3 DEF VersionsComplete
  <2> QED BY <2>4, <2>6, <2>7 DEF DriveInv
<1>11. ASSUME NEW h \in Hands, ArchiveItem(h)
      PROVE  DriveInv'
  <2>1. PICK j : j = hand[h].item  OBVIOUS
  <2>2. hand[h].at = "archive" /\ j \in DOMAIN items /\ items[j] \in Files
    BY <1>0, <1>11, <2>1 DEF ArchiveItem, DriveTypes
  <2>3. PICK row : row = [items[j] EXCEPT !.gone = TRUE]  OBVIOUS
  <2>4. row \in Files /\ row.text = items[j].text  BY <2>2, <2>3 DEF Files
  <2>5. items' = [items EXCEPT ![j] = row] /\ UNCHANGED <<folders, copies, wrote>>
    BY <1>11, <2>1, <2>3 DEF ArchiveItem
  <2>6. /\ hand'[h].at = "idle" /\ DOMAIN hand' = Hands /\ \A k \in Hands \ {h} : hand'[k] = hand[k]
    BY <1>11, <1>z DEF ArchiveItem
  <2>7. /\ items' \in Seq(Files) /\ Len(items') = Len(items) /\ DOMAIN items' = DOMAIN items
        /\ \A i \in DOMAIN items : items'[i].text = items[i].text
    BY <1>0, <2>2, <2>4, <2>5 DEF DriveTypes
  <2>8. \A k \in Hands : hand'[k] = hand[k] \/ hand'[k].at = "idle"  BY <2>6
  <2>9. DriveTypes'  BY <1>0, <2>5, <2>6, <2>7, <2>8 DEF DriveTypes
  <2>10. Savers'
    <3>1. \A k \in Hands : hand[k].at = "save" => hand[k].item \in DOMAIN items
      BY <1>0 DEF DriveTypes
    <3> QED BY <1>0, <2>6, <2>7, <3>1 DEF Savers
  <2>11. VersionsComplete'  BY <1>0, <2>5, <2>7 DEF VersionsComplete
  <2> QED BY <2>9, <2>10, <2>11 DEF DriveInv
<1>12. ASSUME NEW h \in Hands, NEW in \in Inputs, CreateFolder(h, in)
      PROVE  DriveInv'
  <2>1. Placed(in) \in Placings /\ in.vis \in Sights /\ in.folder \in Nat
    BY <1>0, <1>12, InputsPlaced DEF CreateFolder, MayPlace
  <2>2. PICK row : row = [dept |-> Placed(in).dept, vis |-> in.vis, parent |-> in.folder,
          gone |-> FALSE]
    OBVIOUS
  <2>3. row \in Drawers  BY <2>1, <2>2 DEF Drawers, Placings
  <2>4. folders' = Append(folders, row) /\ UNCHANGED <<items, copies, wrote>>
    BY <1>12, <2>2 DEF CreateFolder
  <2>5. folders' \in Seq(Drawers) /\ \A f \in DOMAIN folders : f \in DOMAIN folders'
    BY <1>0, <2>3, <2>4 DEF DriveTypes
  <2>6. /\ hand'[h].at = "idle" /\ DOMAIN hand' = Hands /\ \A k \in Hands \ {h} : hand'[k] = hand[k]
    BY <1>12, <1>z DEF CreateFolder
  <2>7. \A k \in Hands : hand'[k] = hand[k] \/ hand'[k].at = "idle"  BY <2>6
  <2>8. DriveTypes'  BY <1>0, <2>4, <2>5, <2>6, <2>7 DEF DriveTypes
  <2>9. Savers'  BY <1>0, <2>4, <2>6 DEF Savers
  <2>10. VersionsComplete'  BY <1>0, <2>4 DEF VersionsComplete
  <2> QED BY <2>8, <2>9, <2>10 DEF DriveInv
<1>13. ASSUME NEW h \in Hands, NEW f \in DOMAIN folders, CountFolder(h, f)
      PROVE  DriveInv'
  <2>2. /\ hand'[h].at = "folder" /\ hand'[h].folder = f
        /\ DOMAIN hand' = Hands /\ \A k \in Hands \ {h} : hand'[k] = hand[k]
    BY <1>13, <1>z DEF CountFolder
  <2>3. UNCHANGED <<folders, items, copies, wrote>>  BY <1>13 DEF CountFolder
  <2>4. DriveTypes'  BY <1>0, <2>2, <2>3 DEF DriveTypes
  <2>6. Savers'  BY <1>0, <2>2, <2>3 DEF Savers
  <2>7. VersionsComplete'  BY <1>0, <2>3 DEF VersionsComplete
  <2> QED BY <2>4, <2>6, <2>7 DEF DriveInv
<1>14. ASSUME NEW h \in Hands, ArchiveFolder(h)
      PROVE  DriveInv'
  <2>1. PICK f : f = hand[h].folder  OBVIOUS
  <2>2. hand[h].at = "folder" /\ f \in DOMAIN folders /\ folders[f] \in Drawers
    BY <1>0, <1>14, <2>1 DEF ArchiveFolder, DriveTypes
  <2>3. PICK row : row = [folders[f] EXCEPT !.gone = TRUE]  OBVIOUS
  <2>4. row \in Drawers  BY <2>2, <2>3 DEF Drawers
  <2>5. folders' = [folders EXCEPT ![f] = row] /\ UNCHANGED <<items, copies, wrote>>
    BY <1>14, <2>1, <2>3 DEF ArchiveFolder
  <2>6. folders' \in Seq(Drawers) /\ DOMAIN folders' = DOMAIN folders
    BY <1>0, <2>2, <2>4, <2>5 DEF DriveTypes
  <2>7. /\ hand'[h].at = "idle" /\ DOMAIN hand' = Hands /\ \A k \in Hands \ {h} : hand'[k] = hand[k]
    BY <1>14, <1>z DEF ArchiveFolder
  <2>8. \A k \in Hands : hand'[k] = hand[k] \/ hand'[k].at = "idle"  BY <2>7
  <2>9. DriveTypes'  BY <1>0, <2>5, <2>6, <2>7, <2>8 DEF DriveTypes
  <2>10. Savers'  BY <1>0, <2>5, <2>7 DEF Savers
  <2>11. VersionsComplete'  BY <1>0, <2>5 DEF VersionsComplete
  <2> QED BY <2>9, <2>10, <2>11 DEF DriveInv
<1>15. ASSUME UNCHANGED driveVars
      PROVE  DriveInv'
  BY <1>0, <1>15 DEF driveVars, DriveInv, DriveTypes, Savers, VersionsComplete
<1>16. ASSUME NEW h \in Hands,
              \/ ListDrive(h, 0)
              \/ \E f \in DOMAIN folders : ListDrive(h, f)
              \/ \E i \in DOMAIN items : GetItem(h, i) \/ EditorOpens(h, i) \/ ServeFile(h, i)
      PROVE  DriveInv'
  <2>1. \E shown : Show(h, shown)  BY <1>16 DEF ListDrive, GetItem, EditorOpens, ServeFile
  <2> QED BY <1>4, <1>16, <2>1
<1> QED BY <1>1, <1>2, <1>3, <1>5, <1>6, <1>7, <1>8, <1>9, <1>10, <1>11, <1>12, <1>13, <1>14, <1>15,
      <1>16
        DEF DriveNext

-------------------------------------------------------------------------------
(* The project board: a card lands where it was dropped.                     *)

\* The powers of two are what their definition says.
PowersTo(f, n) == f = [i \in 0..n |-> IF i = 0 THEN 1 ELSE 2 * f[i - 1]]

LEMMA PowersThere == ASSUME NEW n \in Nat PROVE \E f : PowersTo(f, n)
<1> DEFINE T == {m \in Nat : ~\E f : PowersTo(f, m)}
<1>1. ASSUME T # {} PROVE FALSE
  <2>1. PICK m \in T : \A k \in T : m <= k
    <3>1. T \subseteq Nat  OBVIOUS
    <3> HIDE DEF T
    <3> QED BY <1>1, <3>1, LeastNumber
  <2>2. m \in Nat /\ ~\E f : PowersTo(f, m)  BY <2>1
  <2>3. m # 0
    <3>1. PICK f : f = [i \in 0..0 |-> 1]  OBVIOUS
    <3>2. PowersTo(f, 0)  BY <3>1 DEF PowersTo
    <3> QED BY <2>2, <3>2
  <2>4. m - 1 \in Nat /\ ~(m <= m - 1)  BY <2>2, <2>3
  <2>5. m - 1 \notin T
    <3> HIDE DEF T
    <3> QED BY <2>1, <2>4
  <2>6. PICK f : PowersTo(f, m - 1)  BY <2>4, <2>5
  <2>7. \A i \in 0..m - 1 : f[i] = IF i = 0 THEN 1 ELSE 2 * f[i - 1]  BY <2>6 DEF PowersTo
  <2>8. PICK g : g = [i \in 0..m |-> IF i = m THEN 2 * f[m - 1] ELSE f[i]]  OBVIOUS
  <2>9. ASSUME NEW i \in 0..m PROVE g[i] = IF i = 0 THEN 1 ELSE 2 * g[i - 1]
    <3>1. CASE i = m
      <4>1. g[i] = 2 * f[m - 1] /\ g[i - 1] = f[m - 1]  BY <2>2, <2>3, <2>8, <3>1
      <4> QED BY <2>3, <3>1, <4>1
    <3>2. CASE i # m
      <4>1. i \in 0..m - 1 /\ g[i] = f[i] /\ (i # 0 => g[i - 1] = f[i - 1])  BY <2>2, <2>8, <3>2
      <4> QED BY <2>7, <4>1
    <3> QED BY <3>1, <3>2
  <2>10. g = [i \in 0..m |-> g[i]]  BY <2>8
  <2>11. PowersTo(g, m)  BY <2>9, <2>10 DEF PowersTo
  <2> QED BY <2>2, <2>11
<1> QED BY <1>1

LEMMA Powers ==
    /\ Power[0] = 1
    /\ \A k \in 1..Precision : Power[k] = 2 * Power[k - 1]
<1>0. Precision \in Nat  BY BoardAssumption
<1>1. \E f : PowersTo(f, Precision)  BY <1>0, PowersThere
<1>2. Power = CHOOSE f : PowersTo(f, Precision)  BY DEF Power, PowersTo
<1>3. PowersTo(Power, Precision)
  <2> HIDE DEF Power
  <2> QED BY <1>1, <1>2
<1>4. \A i \in 0..Precision : Power[i] = IF i = 0 THEN 1 ELSE 2 * Power[i - 1]
  <2> HIDE DEF Power
  <2> QED BY <1>3 DEF PowersTo
<1> HIDE DEF Power
<1> QED BY <1>0, <1>4

LEMMA PowersAreIntegers == \A k \in 0..Precision : Power[k] \in Nat
<1> DEFINE T == {m \in Nat : m <= Precision /\ Power[m] \notin Nat}
<1>0. Precision \in Nat  BY BoardAssumption
<1>1. ASSUME T # {} PROVE FALSE
  <2>1. PICK m \in T : \A k \in T : m <= k
    <3>1. T \subseteq Nat  OBVIOUS
    <3> HIDE DEF T
    <3> QED BY <1>1, <3>1, LeastNumber
  <2>2. m \in Nat /\ m <= Precision /\ Power[m] \notin Nat  BY <2>1
  <2>3. m # 0  BY <2>2, Powers
  <2>4. m - 1 \in Nat /\ m - 1 <= Precision /\ ~(m <= m - 1)  BY <1>0, <2>2, <2>3
  <2>5. m - 1 \notin T
    <3> HIDE DEF T
    <3> QED BY <2>1, <2>4
  <2>6. Power[m - 1] \in Nat  BY <2>4, <2>5
  <2>7. Power[m] = 2 * Power[m - 1]  BY <1>0, <2>2, <2>3, Powers
  <2> QED BY <2>2, <2>6, <2>7
<1> QED BY <1>0, <1>1

\* A number on the grid of a gap halved often enough.
Grid(k, x) == \E n \in Int : x = Power[k] * n

LEMMA GridFiner ==
    ASSUME NEW k \in 1..Precision, NEW x, Grid(k, x) PROVE Grid(k - 1, x) /\ x \in Int
<1>0. Precision \in Nat  BY BoardAssumption
<1>1. PICK n \in Int : x = Power[k] * n  BY DEF Grid
<1>2. PICK h \in Nat : h = Power[k - 1]  BY <1>0, PowersAreIntegers
<1>3. Power[k] = 2 * h  BY <1>2, Powers
<1>4. x = h * (2 * n) /\ 2 * n \in Int  BY <1>1, <1>3
<1> QED BY <1>2, <1>4 DEF Grid

\* Two numbers that can be told apart have room for one between them.
LEMMA GridMean ==
    ASSUME NEW k \in 1..Precision, NEW x, NEW y, Grid(k, x), Grid(k, y)
    PROVE  x \in Int /\ y \in Int /\ Grid(k - 1, (x + y) \div 2) /\ 2 * ((x + y) \div 2) = x + y
<1>0. Precision \in Nat  BY BoardAssumption
<1>1. PICK n \in Int : x = Power[k] * n  BY DEF Grid
<1>2. PICK m \in Int : y = Power[k] * m  BY DEF Grid
<1>3. PICK h \in Nat : h = Power[k - 1]  BY <1>0, PowersAreIntegers
<1>4. Power[k] = 2 * h  BY <1>3, Powers
<1>5. PICK u \in Int : u = h * n  OBVIOUS
<1>6. PICK v \in Int : v = h * m  OBVIOUS
<1>7. x = 2 * u /\ y = 2 * v  BY <1>1, <1>2, <1>4, <1>5, <1>6
<1>8. (x + y) \div 2 = u + v  BY <1>7
<1>9. u + v = h * (n + m) /\ n + m \in Int  BY <1>5, <1>6
<1> QED BY <1>3, <1>7, <1>8, <1>9 DEF Grid

LEMMA GridSum ==
    ASSUME NEW k \in 0..Precision, NEW x, NEW y, Grid(k, x), Grid(k, y)
    PROVE  x \in Int /\ y \in Int /\ Grid(k, x + y) /\ Grid(k, x - y)
<1>1. PICK n \in Int : x = Power[k] * n  BY DEF Grid
<1>2. PICK m \in Int : y = Power[k] * m  BY DEF Grid
<1>3. PICK h \in Nat : h = Power[k]  BY PowersAreIntegers
<1>4. x \in Int /\ y \in Int  BY <1>1, <1>2, <1>3
<1>5. x + y = h * (n + m) /\ n + m \in Int  BY <1>1, <1>2, <1>3
<1>6. x - y = h * (n - m) /\ n - m \in Int  BY <1>1, <1>2, <1>3
<1> QED BY <1>3, <1>4, <1>5, <1>6 DEF Grid

LEMMA GridUnit == \A k \in 0..Precision : Grid(k, Unit) /\ Grid(k, 0)
<1>0. Precision \in Nat  BY BoardAssumption
<1> DEFINE T == {m \in Nat : m <= Precision /\ ~Grid(Precision - m, Unit)}
<1>1. ASSUME T # {} PROVE FALSE
  <2>1. PICK m \in T : \A k \in T : m <= k
    <3>1. T \subseteq Nat  OBVIOUS
    <3> HIDE DEF T
    <3> QED BY <1>1, <3>1, LeastNumber
  <2>2. m \in Nat /\ m <= Precision /\ ~Grid(Precision - m, Unit)  BY <2>1
  <2>3. m # 0
    <3>1. PICK h \in Nat : h = Power[Precision]  BY <1>0, PowersAreIntegers
    <3>2. Unit = h * 1 /\ 1 \in Int  BY <3>1 DEF Unit
    <3>3. Grid(Precision, Unit)  BY <3>1, <3>2 DEF Grid
    <3> QED BY <1>0, <2>2, <3>3
  <2>4. m - 1 \in Nat /\ m - 1 <= Precision /\ ~(m <= m - 1)  BY <1>0, <2>2, <2>3
  <2>5. m - 1 \notin T
    <3> HIDE DEF T
    <3> QED BY <2>1, <2>4
  <2>6. Grid(Precision - (m - 1), Unit)  BY <2>4, <2>5
  <2>7. PICK k \in 1..Precision : k = Precision - (m - 1)  BY <1>0, <2>2, <2>3
  <2>8. Grid(k - 1, Unit)  BY <2>6, <2>7, GridFiner
  <2>9. k - 1 = Precision - m  BY <1>0, <2>2, <2>7
  <2> QED BY <2>2, <2>8, <2>9
<1>2. ASSUME NEW k \in 0..Precision PROVE Grid(k, Unit)
  <2>1. Precision - k \in Nat /\ Precision - k <= Precision /\ Precision - (Precision - k) = k  BY <1>0
  <2>2. Precision - k \notin T  BY <1>1
  <2> QED BY <2>1, <2>2
<1>3. ASSUME NEW k \in 0..Precision PROVE Grid(k, 0)
  <2>1. PICK h \in Nat : h = Power[k]  BY PowersAreIntegers
  <2>2. 0 = h * 0 /\ 0 \in Int  BY <2>1
  <2> QED BY <2>1, <2>2 DEF Grid
<1> QED BY <1>2, <1>3

LEMMA UnitIsPositive == Unit > 0
<1>0. Precision \in Nat  BY BoardAssumption
<1> DEFINE T == {m \in Nat : m <= Precision /\ ~(Power[m] > 0)}
<1>1. ASSUME T # {} PROVE FALSE
  <2>1. PICK m \in T : \A k \in T : m <= k
    <3>1. T \subseteq Nat  OBVIOUS
    <3> HIDE DEF T
    <3> QED BY <1>1, <3>1, LeastNumber
  <2>2. m \in Nat /\ m <= Precision /\ ~(Power[m] > 0)  BY <2>1
  <2>3. m # 0  BY <2>2, Powers
  <2>4. m - 1 \in Nat /\ m - 1 <= Precision /\ ~(m <= m - 1)  BY <1>0, <2>2, <2>3
  <2>5. m - 1 \notin T
    <3> HIDE DEF T
    <3> QED BY <2>1, <2>4
  <2>6. Power[m - 1] > 0 /\ Power[m - 1] \in Nat  BY <1>0, <2>4, <2>5, PowersAreIntegers
  <2>7. Power[m] = 2 * Power[m - 1]  BY <1>0, <2>2, <2>3, Powers
  <2> QED BY <2>2, <2>6, <2>7
<1> QED BY <1>0, <1>1 DEF Unit

\* Of some cards, one is lowest on the board.
LEMMA HighestCard ==
    ASSUME NEW n \in Nat, NEW S, S \subseteq 1..n, S # {}, NEW f, \A c \in S : f[c] \in Int
    PROVE  \E c \in S : \A d \in S : f[d] <= f[c]
<1> DEFINE Good(m) == S \cap 1..m = {} \/ \E c \in S \cap 1..m : \A d \in S \cap 1..m : f[d] <= f[c]
<1> DEFINE T == {m \in Nat : ~Good(m)}
<1>1. ASSUME T # {} PROVE FALSE
  <2>1. PICK m \in T : \A k \in T : m <= k
    <3>1. T \subseteq Nat  OBVIOUS
    <3> HIDE DEF T
    <3> QED BY <1>1, <3>1, LeastNumber
  <2>2. m \in Nat /\ ~Good(m)  BY <2>1
  <2>3. m # 0  BY <2>2
  <2>4. m - 1 \in Nat /\ ~(m <= m - 1)  BY <2>2, <2>3
  <2>5. m - 1 \notin T
    <3> HIDE DEF T
    <3> QED BY <2>1, <2>4
  <2>6. Good(m - 1)  BY <2>4, <2>5
  <2>7. \A d \in S \cap 1..m : d \in S \cap 1..m - 1 \/ d = m  BY <2>2, <2>3
  <2>8. S \cap 1..m - 1 \subseteq S \cap 1..m  BY <2>2
  <2>9. m \in S
    <3>1. ASSUME m \notin S PROVE FALSE
      <4>1. S \cap 1..m = S \cap 1..m - 1  BY <2>7, <2>8, <3>1
      <4> QED BY <2>2, <2>6, <4>1
    <3> QED BY <3>1
  <2>10. CASE S \cap 1..m - 1 = {}
    <3>1. \A d \in S \cap 1..m : d = m  BY <2>7, <2>10
    <3>2. m \in S \cap 1..m /\ f[m] <= f[m]  BY <2>2, <2>3, <2>9
    <3> QED BY <2>2, <3>1, <3>2
  <2>11. CASE S \cap 1..m - 1 # {}
    <3>1. PICK c \in S \cap 1..m - 1 : \A d \in S \cap 1..m - 1 : f[d] <= f[c]  BY <2>6, <2>11
    <3>2. c \in S \cap 1..m /\ m \in S \cap 1..m  BY <2>2, <2>3, <2>8, <2>9
    <3>3. f[c] \in Int /\ f[m] \in Int /\ \A d \in S : f[d] \in Int  BY <2>9
    <3>4. CASE f[m] <= f[c]
      <4>1. \A d \in S \cap 1..m : f[d] <= f[c]  BY <2>7, <3>1, <3>4
      <4> QED BY <2>2, <3>2, <4>1
    <3>5. CASE f[c] <= f[m]
      <4>1. \A d \in S \cap 1..m : f[d] <= f[m]  BY <2>7, <3>1, <3>3, <3>5
      <4> QED BY <2>2, <3>2, <4>1
    <3> QED BY <3>3, <3>4, <3>5
  <2> QED BY <2>10, <2>11
<1>2. Good(n)  BY <1>1
<1>3. S \cap 1..n = S  OBVIOUS
<1> QED BY <1>2, <1>3

\* Who drags a card and has not worked out where to: the gap they will halve is counted.
Pending == {b \in Benches : bench[b].at \in {"lock", "place"}}
Halved == moves - Cardinality(Pending)
Fineness == Precision - Halved

BoardTypes ==
    /\ \E S : cards \in Seq(S)
    /\ moves \in 0..MaxMoves
    /\ DOMAIN bench = Benches /\ \A b \in Benches : "at" \in DOMAIN bench[b]
    /\ Cardinality(Pending) <= moves

\* All numbers are on a grid that is as fine as gaps were halved.
GridInv ==
    /\ \A c \in DOMAIN cards : Grid(Fineness, cards[c].sort)
    /\ \A b \in Benches : /\ bench[b].at = "write" => Grid(Fineness, bench[b].top)
                          /\ bench[b].at = "move" => Grid(Fineness, bench[b].sort)

LockInv == \A a, b \in Benches : Moving(a) => ~Writing(b) /\ (Moving(b) => a = b)

\* The place that was worked out is right of the cards as they are.
RightPlace(q) ==
    LET others == InColumn(q.col) \ {q.task} IN
    IF q.before \in {0, q.task} THEN \A c \in others : cards[c].sort < q.sort
    ELSE /\ q.before \in others /\ q.sort < cards[q.before].sort
         /\ \A c \in others : cards[c].sort < cards[q.before].sort => cards[c].sort < q.sort

BoardInv ==
    /\ BoardTypes /\ GridInv /\ LockInv
    /\ \A b \in Benches : bench[b].at = "move" => RightPlace(bench[b])

LEMMA FinenessInRange == BoardTypes => Fineness \in 0..Precision /\ Cardinality(Pending) \in Nat
  /\ IsFiniteSet(Pending)
<1> SUFFICES ASSUME BoardTypes PROVE Fineness \in 0..Precision /\ Cardinality(Pending) \in Nat
                      /\ IsFiniteSet(Pending)
  OBVIOUS
<1>0. IsFiniteSet(Benches) /\ Precision \in Nat /\ MaxMoves \in 0..Precision  BY BoardAssumption
<1>1. IsFiniteSet(Pending)  BY <1>0, FS_Subset DEF Pending
<1>2. Cardinality(Pending) \in Nat  BY <1>1, FS_CardinalityType
<1> QED BY <1>0, <1>1, <1>2 DEF BoardTypes, Fineness, Halved

LEMMA MaxOfSorts ==
    ASSUME BoardTypes, GridInv, NEW cs \in SUBSET DOMAIN cards, cs # {}
    PROVE  \E c \in cs : Max(Sorts(cs)) = cards[c].sort /\ \A d \in cs : cards[d].sort <= cards[c].sort
<1>1. \A c \in DOMAIN cards : cards[c].sort \in Int
  <2>1. Fineness \in 0..Precision  BY FinenessInRange
  <2> QED BY <2>1, GridSum DEF GridInv
<1>2. DOMAIN cards = 1..Len(cards) /\ Len(cards) \in Nat  BY DEF BoardTypes
<1>3. PICK f : f = [c \in DOMAIN cards |-> cards[c].sort]  OBVIOUS
<1>4. \A c \in cs : f[c] \in Int  BY <1>1, <1>3
<1>5. PICK c \in cs : \A d \in cs : f[d] <= f[c]  BY <1>2, <1>4, HighestCard
<1>6. \A d \in cs : cards[d].sort <= cards[c].sort /\ cards[d].sort \in Int  BY <1>1, <1>3, <1>5
<1>7. cards[c].sort \in Sorts(cs) /\ \A x \in Sorts(cs) : x \in Int
        /\ cards[c].sort >= x  BY <1>6 DEF Sorts
<1>8. Max(Sorts(cs)) = cards[c].sort
  <2>1. PICK S : S = Sorts(cs)  OBVIOUS
  <2>2. PICK t \in Int : t = cards[c].sort  BY <1>6
  <2>3. t \in S /\ \A x \in S : x \in Int /\ t >= x  BY <1>7, <2>1, <2>2
  <2>4. Max(S) \in S /\ \A x \in S : Max(S) >= x  BY <2>3 DEF Max
  <2>5. PICK m : m = Max(S)  OBVIOUS
  <2>6. m \in Int /\ m <= t /\ t <= m
    <3>1. m \in S /\ m >= t  BY <2>3, <2>4, <2>5
    <3> QED BY <2>3, <3>1
  <2>7. m = t  BY <2>6
  <2> QED BY <2>1, <2>2, <2>5, <2>7
<1> QED BY <1>6, <1>8

LEMMA HighestOnGrid ==
    ASSUME BoardTypes, GridInv, NEW cs \in SUBSET DOMAIN cards
    PROVE  /\ Grid(Fineness, Highest(cs)) /\ Highest(cs) \in Int
           /\ \A c \in cs : cards[c].sort \in Int /\ cards[c].sort <= Highest(cs)
<1>1. Fineness \in 0..Precision  BY FinenessInRange
<1>2. \A c \in DOMAIN cards : cards[c].sort \in Int  BY <1>1, GridSum DEF GridInv
<1>3. CASE cs = {}
  <2>1. Highest(cs) = 0  BY <1>3 DEF Highest
  <2>2. Grid(Fineness, 0)  BY <1>1, GridUnit
  <2> QED BY <1>3, <2>1, <2>2
<1>4. CASE cs # {}
  <2>1. PICK c \in cs : Max(Sorts(cs)) = cards[c].sort /\ \A d \in cs : cards[d].sort <= cards[c].sort
    BY <1>4, MaxOfSorts
  <2>2. Highest(cs) = cards[c].sort  BY <1>4, <2>1 DEF Highest
  <2>3. Grid(Fineness, cards[c].sort)  BY DEF GridInv
  <2> QED BY <1>2, <2>1, <2>2, <2>3
<1> QED BY <1>3, <1>4

\* Where Move says the card lands is the right place, and on the next finer grid.
LEMMA LandingRight ==
    ASSUME BoardTypes, GridInv, Fineness \in 1..Precision, NEW q,
           q.before \in {0, q.task} \/ q.before \in InColumn(q.col)
    PROVE  Grid(Fineness - 1, Landing(q)) /\
           LET others == InColumn(q.col) \ {q.task} IN
           IF q.before \in {0, q.task} THEN \A c \in others : cards[c].sort < Landing(q)
           ELSE /\ q.before \in others /\ Landing(q) < cards[q.before].sort
                /\ \A c \in others : cards[c].sort < cards[q.before].sort => cards[c].sort < Landing(q)
<1>0. Precision \in Nat  BY BoardAssumption
<1>a. PICK k \in 1..Precision : k = Fineness  OBVIOUS
<1>k. k \in 0..Precision  BY <1>0
<1>b. PICK others : others = InColumn(q.col) \ {q.task}  OBVIOUS
<1>c. others \in SUBSET DOMAIN cards  BY <1>b DEF InColumn
<1>d. \A c \in DOMAIN cards : Grid(k, cards[c].sort)
        /\ cards[c].sort \in Int  BY <1>a, <1>k, GridSum DEF GridInv
<1>e. Grid(k, Unit) /\ Unit \in Nat /\ Unit > 0 /\ Grid(k, 0)
  <2>1. Grid(k, Unit) /\ Grid(k, 0)  BY <1>k, GridUnit
  <2>2. Unit \in Nat  BY <1>0, PowersAreIntegers DEF Unit
  <2> QED BY <2>1, <2>2, UnitIsPositive
<1>1. CASE q.before \in {0, q.task} /\ others = {}
  <2>1. Landing(q) = Unit  BY <1>1, <1>b DEF Landing
  <2> QED BY <1>1, <1>a, <1>b, <1>e, <2>1, GridFiner
<1>2. CASE q.before \in {0, q.task} /\ others # {}
  <2>1. Landing(q) = Highest(others) + Unit  BY <1>2, <1>b DEF Landing
  <2>2. /\ Grid(k, Highest(others)) /\ Highest(others) \in Int
        /\ \A c \in others : cards[c].sort \in Int /\ cards[c].sort <= Highest(others)
    BY <1>a, <1>c, HighestOnGrid
  <2>3. Grid(k, Highest(others) + Unit)  BY <1>e, <1>k, <2>2, GridSum
  <2>4. Grid(k - 1, Highest(others) + Unit)  BY <2>3, GridFiner
  <2>5. \A c \in others : cards[c].sort < Highest(others) + Unit  BY <1>e, <2>2
  <2> QED BY <1>2, <1>a, <1>b, <2>1, <2>4, <2>5
<1>3. ASSUME q.before \notin {0, q.task}
      PROVE  /\ Grid(k - 1, Landing(q)) /\ q.before \in others /\ Landing(q) < cards[q.before].sort
             /\ \A c \in others : cards[c].sort < cards[q.before].sort => cards[c].sort < Landing(q)
  <2>1. q.before \in others /\ q.before \in DOMAIN cards  BY <1>3, <1>b, <1>c
  <2>2. PICK t \in Int : t = cards[q.before].sort /\ Grid(k, t)  BY <1>d, <2>1
  <2>3. PICK above : above = {c \in others : cards[c].sort < t}  OBVIOUS
  <2>4. CASE above = {}
    <3>1. Landing(q) = t - Unit  BY <1>3, <1>b, <2>2, <2>3, <2>4 DEF Landing
    <3>2. Grid(k, t - Unit)  BY <1>e, <1>k, <2>2, GridSum
    <3>3. Grid(k - 1, t - Unit)  BY <3>2, GridFiner
    <3>4. t - Unit < t  BY <1>e
    <3> QED BY <2>1, <2>2, <2>3, <2>4, <3>1, <3>3, <3>4
  <2>5. CASE above # {}
    <3>1. above \in SUBSET DOMAIN cards  BY <1>c, <2>3
    <3>2. PICK c \in above : Max(Sorts(above)) = cards[c].sort
            /\ \A d \in above : cards[d].sort <= cards[c].sort
      BY <2>5, <3>1, MaxOfSorts
    <3>3. PICK s \in Int : s = cards[c].sort /\ Grid(k, s)  BY <1>d, <3>1, <3>2
    <3>4. PICK l : l = (s + t) \div 2  OBVIOUS
    <3>5. Landing(q) = l
      <4>1. Landing(q) = (Max(Sorts(above)) + t) \div 2  BY <1>3, <1>b, <2>2, <2>3, <2>5 DEF Landing
      <4> QED BY <3>2, <3>3, <3>4, <4>1
    <3>6. Grid(k - 1, l) /\ 2 * l = s + t /\ l \in Int  BY <2>2, <3>3, <3>4, GridMean
    <3>7. s < t  BY <2>3, <3>2, <3>3
    <3>8. s < l /\ l < t  BY <3>6, <3>7
    <3>9. \A d \in others : cards[d].sort < t => cards[d].sort \in Int /\ cards[d].sort <= s
      BY <1>c, <1>d, <2>3, <3>2, <3>3
    <3>10. \A d \in others : cards[d].sort < t => cards[d].sort < l  BY <3>6, <3>8, <3>9
    <3> QED BY <2>1, <2>2, <3>5, <3>6, <3>8, <3>10
  <2> QED BY <2>4, <2>5
<1> QED BY <1>1, <1>2, <1>3, <1>a, <1>b

\* The gaps that are still to be halved, after a request has turned to something else.
LEMMA PendingCount ==
    ASSUME BoardTypes, NEW b \in Benches, NEW q, bench' = [bench EXCEPT ![b] = q]
    PROVE  Cardinality(Pending)' =
             IF q.at \in {"lock", "place"} /\ b \notin Pending THEN Cardinality(Pending) + 1
             ELSE IF q.at \notin {"lock", "place"} /\ b \in Pending THEN Cardinality(Pending) - 1
             ELSE Cardinality(Pending)
<1>1. IsFiniteSet(Pending)  BY FinenessInRange
<1>2. DOMAIN bench = Benches  BY DEF BoardTypes
<1>3. Pending' = IF q.at \in {"lock", "place"} THEN Pending \cup {b} ELSE Pending \ {b}
  BY <1>2 DEF Pending
<1>4. PICK P : P = Pending  OBVIOUS
<1>5. Cardinality(P \cup {b}) = IF b \in P THEN Cardinality(P) ELSE Cardinality(P) + 1  BY <1>1, <1>4,
        FS_AddElement
<1>6. Cardinality(P \ {b}) = IF b \in P THEN Cardinality(P) - 1 ELSE Cardinality(P)  BY <1>1, <1>4,
        FS_RemoveElement
<1>7. Cardinality(Pending)' = IF q.at \in {"lock", "place"} THEN Cardinality(P \cup {b})
        ELSE Cardinality(P \ {b})
  BY <1>3, <1>4
<1> QED BY <1>4, <1>5, <1>6, <1>7

LEMMA BoardStart == ASSUME BoardInit PROVE BoardInv
<1>1. Pending = {}  BY DEF BoardInit, Pending, Unbusy
<1>2. Cardinality(Pending) = 0  BY <1>1, FS_EmptySet
<1>3. cards = [c \in 1..2 |-> Card("todo", c * Unit, {}, 0)]  BY DEF BoardInit
<1>4. \E S : cards \in Seq(S)
  <2>1. PICK S : S = {Card("todo", c * Unit, {}, 0) : c \in 1..2}  OBVIOUS
  <2>2. \A c \in 1..2 : cards[c] \in S  BY <1>3, <2>1
  <2>3. cards = [c \in 1..2 |-> cards[c]] /\ 2 \in Nat  BY <1>3
  <2>4. cards \in Seq(S)  BY <2>2, <2>3
  <2> QED BY <2>4
<1>5. MaxMoves \in Nat /\ Precision \in Nat /\ Precision \in 0..Precision  BY BoardAssumption
<1>6. BoardTypes
  <2>1. "at" \in DOMAIN Unbusy  BY DEF Unbusy
  <2> QED BY <1>2, <1>4, <1>5, <2>1 DEF BoardInit, BoardTypes
<1>7. Fineness = Precision  BY <1>2, <1>5 DEF Fineness, Halved, BoardInit
<1>8. Grid(Precision, 1 * Unit) /\ Grid(Precision, 2 * Unit)
  <2>1. Grid(Precision, Unit)  BY <1>5, GridUnit
  <2>2. Unit \in Int /\ Grid(Precision, Unit + Unit)  BY <1>5, <2>1, GridSum
  <2>3. 1 * Unit = Unit /\ 2 * Unit = Unit + Unit  BY <2>2
  <2> QED BY <2>1, <2>2, <2>3
<1>9. \A b \in Benches : bench[b] = Unbusy  BY DEF BoardInit
<1>10. \A c \in DOMAIN cards : cards[c].sort = 1 * Unit \/ cards[c].sort = 2 * Unit
  <2>1. \A c \in 1..2 : cards[c].sort = c * Unit  BY <1>3 DEF Card
  <2>2. \A c \in 1..2 : c = 1 \/ c = 2  OBVIOUS
  <2> QED BY <1>3, <2>1, <2>2
<1>11. GridInv  BY <1>7, <1>8, <1>9, <1>10 DEF GridInv, Unbusy
<1>12. LockInv  BY <1>9 DEF LockInv, Moving, Unbusy
<1> QED BY <1>6, <1>9, <1>11, <1>12 DEF BoardInv, Unbusy

LEMMA BoardKeeps == ASSUME BoardInv, OrderNext \/ UNCHANGED boardVars PROVE BoardInv'
<1>0. BoardTypes /\ GridInv /\ LockInv
        /\ \A b \in Benches : bench[b].at = "move" => RightPlace(bench[b])  BY DEF BoardInv
<1>f. Fineness \in 0..Precision /\ Cardinality(Pending) \in Nat /\ Precision \in Nat
        /\ MaxMoves \in 0..Precision
  BY <1>0, FinenessInRange, BoardAssumption
<1>s. DOMAIN bench = Benches /\ moves \in 0..MaxMoves /\ moves \in Nat /\ Cardinality(Pending) <= moves
  BY <1>0, <1>f DEF BoardTypes
\* One request turns to something else, and the cards stay.
<1>b. ASSUME NEW b \in Benches, NEW q, "at" \in DOMAIN q, bench' = [bench EXCEPT ![b] = q],
               UNCHANGED cards,
             moves' \in 0..MaxMoves, Cardinality(Pending)' \in Nat, Cardinality(Pending)' <= moves',
             Halved' = Halved \/ (Halved' = Halved + 1 /\ q.at # "write"),
             q.at = "write" => Grid(Fineness, q.top),
             q.at = "move" => Grid(Fineness', q.sort) /\ RightPlace(q),
             q.at \in {"place", "move"} => \A o \in Benches \ {b} : ~Moving(o) /\ ~Writing(o),
             q.at = "write" => \A o \in Benches : ~Moving(o)
      PROVE  BoardInv'
  <2>1. DOMAIN bench' = Benches /\ bench'[b] = q
          /\ \A o \in Benches \ {b} : bench'[o] = bench[o]  BY <1>b, <1>s
  <2>2. BoardTypes'  BY <1>0, <1>b, <2>1 DEF BoardTypes
  <2>3. Fineness' \in 0..Precision
          /\ (Fineness' = Fineness \/ (Fineness \in 1..Precision /\ Fineness' = Fineness - 1))
    <3>1. Fineness' = Precision - Halved'
            /\ Halved' = moves' - Cardinality(Pending)'  BY DEF Fineness, Halved
    <3>2. Fineness' \in 0..Precision  BY <1>b, <1>f, <3>1
    <3> QED BY <1>b, <1>f, <1>s, <3>1, <3>2 DEF Fineness, Halved
  <2>4. \A x : Grid(Fineness, x) => Grid(Fineness', x)  BY <2>3, GridFiner
  <2>5. GridInv'
    <3>1. \A c \in DOMAIN cards' : Grid(Fineness', cards'[c].sort)  BY <1>0, <1>b, <2>4 DEF GridInv
    <3>2. \A o \in Benches : /\ bench'[o].at = "write" => Grid(Fineness', bench'[o].top)
                             /\ bench'[o].at = "move" => Grid(Fineness', bench'[o].sort)
      BY <1>0, <1>b, <2>1, <2>4 DEF GridInv
    <3> QED BY <2>1, <3>1, <3>2 DEF GridInv
  <2>6. LockInv'  BY <1>0, <1>b, <2>1 DEF LockInv, Moving, Writing
  <2>8. q.at = "move" => RightPlace(q)'  BY <1>b DEF RightPlace, InColumn
  <2>9. ASSUME NEW o \in Benches, bench'[o].at = "move" PROVE RightPlace(bench[o])'
    <3>1. PICK r : r = bench'[o]  OBVIOUS
    <3>2. RightPlace(r)'
      <4>1. CASE o = b  BY <2>1, <2>8, <2>9, <3>1, <4>1
      <4>2. CASE o # b
        <5>1. r = bench[o] /\ RightPlace(r)  BY <1>0, <2>1, <2>9, <3>1, <4>2
        <5> QED BY <1>b, <5>1 DEF RightPlace, InColumn
      <4> QED BY <4>1, <4>2
    <3> QED BY <3>1, <3>2 DEF RightPlace, InColumn
  <2> QED BY <2>2, <2>5, <2>6, <2>9 DEF BoardInv
\* The same of a request that halves no gap.
<1>i. ASSUME NEW b \in Benches, NEW q, "at" \in DOMAIN q, bench' = [bench EXCEPT ![b] = q],
               UNCHANGED cards,
             b \notin Pending, q.at \notin {"lock", "place", "move"},
             moves' = moves \/ (moves < MaxMoves /\ moves' = moves + 1 /\ q.at # "write"),
             q.at = "write" => Grid(Fineness, q.top) /\ \A o \in Benches : ~Moving(o)
      PROVE  BoardInv'
  <2>1. Cardinality(Pending)' = Cardinality(Pending)  BY <1>0, <1>i, PendingCount
  <2>2. moves' \in 0..MaxMoves /\ Cardinality(Pending)' \in Nat /\ Cardinality(Pending)' <= moves'
    BY <1>f, <1>i, <1>s, <2>1
  <2>3. Halved' = Halved
          \/ (Halved' = Halved + 1 /\ q.at # "write")  BY <1>f, <1>i, <1>s, <2>1 DEF Halved
  <2>4. q.at \notin {"place", "move"}  BY <1>i
  <2> QED BY <1>b, <1>i, <2>2, <2>3, <2>4
\* A request writes its card.
<1>c. ASSUME NEW b \in Benches, Writing(b)
               \/ bench[b].at = "move", bench' = [bench EXCEPT ![b] = Unbusy],
             UNCHANGED moves, \E S : cards' \in Seq(S),
               \A c \in DOMAIN cards' : Grid(Fineness, cards'[c].sort)
      PROVE  BoardInv'
  <2>1. DOMAIN bench' = Benches /\ bench'[b] = Unbusy
          /\ \A o \in Benches \ {b} : bench'[o] = bench[o]  BY <1>c, <1>s
  <2>2. b \notin Pending  BY <1>c DEF Pending, Writing
  <2>3. Cardinality(Pending)' = Cardinality(Pending)
    <3>1. PICK q : q = Unbusy  OBVIOUS
    <3>2. bench' = [bench EXCEPT ![b] = q] /\ q.at \notin {"lock", "place"}  BY <1>c, <3>1 DEF Unbusy
    <3> QED BY <1>0, <2>2, <3>2, PendingCount
  <2>4. BoardTypes'
    <3>1. "at" \in DOMAIN Unbusy  BY DEF Unbusy
    <3> QED BY <1>0, <1>c, <2>1, <2>3, <3>1 DEF BoardTypes
  <2>5. Fineness' = Fineness  BY <1>c, <2>3 DEF Fineness, Halved
  <2>6. GridInv'  BY <1>0, <1>c, <2>1, <2>5 DEF GridInv, Unbusy
  <2>7. LockInv'  BY <1>0, <2>1 DEF LockInv, Moving, Writing, Unbusy
  <2>8. \A o \in Benches : bench'[o].at # "move"  BY <1>0, <1>c, <2>1 DEF LockInv, Moving, Unbusy
  <2> QED BY <2>4, <2>6, <2>7, <2>8 DEF BoardInv
<1>1. ASSUME NEW b \in Benches, NEW c, NEW col, NEW names, TaskForm(b, c, col, names) PROVE BoardInv'
  <2>1. PICK q : q = IF names = {} THEN [at |-> "ready", task |-> c, col |-> col, names |-> {}]
                     ELSE [at |-> "match", task |-> c, col |-> col, names |-> names, saved |-> labels]
    OBVIOUS
  <2>2. bench' = [bench EXCEPT ![b] = q] /\ bench[b] = Unbusy /\ UNCHANGED cards
        /\ (moves' = moves \/ (moves < MaxMoves /\ moves' = moves + 1))
    BY <1>1, <2>1 DEF TaskForm, Doing
  <2>3. "at" \in DOMAIN q /\ q.at \in {"ready", "match"}  BY <2>1
  <2>4. b \notin Pending  BY <2>2 DEF Pending, Unbusy
  <2> QED BY <1>i, <2>2, <2>3, <2>4
<1>2. ASSUME NEW b \in Benches, MatchLabels(b) PROVE BoardInv'
  <2>1. PICK names : bench' = [bench EXCEPT ![b] = [at |-> "ready", task |-> bench[b].task,
          col |-> bench[b].col, names |-> names]]
    BY <1>2 DEF MatchLabels, Doing
  <2>2. PICK q : q = [at |-> "ready", task |-> bench[b].task, col |-> bench[b].col,
          names |-> names]  OBVIOUS
  <2>3. bench' = [bench EXCEPT ![b] = q]  BY <2>1, <2>2
  <2>4. "at" \in DOMAIN q /\ q.at = "ready"  BY <2>2
  <2>5. b \notin Pending /\ UNCHANGED <<cards, moves>>  BY <1>2 DEF Pending, MatchLabels
  <2> QED BY <1>i, <2>3, <2>4, <2>5
<1>3. ASSUME NEW b \in Benches, BeginWrite(b) PROVE BoardInv'
  <2>1. PICK q : q = [at |-> "write", task |-> bench[b].task, col |-> bench[b].col,
          names |-> bench[b].names,
                      top |-> Highest(InColumn(bench[b].col))]
    OBVIOUS
  <2>2. bench' = [bench EXCEPT ![b] = q] /\ UNCHANGED <<cards, moves>> /\ \A o \in Benches : ~Moving(o)
    BY <1>3, <2>1 DEF BeginWrite, Doing
  <2>3. "at" \in DOMAIN q /\ q.at = "write" /\ q.top = Highest(InColumn(bench[b].col))  BY <2>1
  <2>4. InColumn(bench[b].col) \in SUBSET DOMAIN cards  BY DEF InColumn
  <2>5. Grid(Fineness, q.top)  BY <1>0, <2>3, <2>4, HighestOnGrid
  <2>6. b \notin Pending  BY <1>3 DEF BeginWrite, Pending
  <2> QED BY <1>i, <2>2, <2>3, <2>5, <2>6
<1>4. ASSUME NEW b \in Benches, CreateTask(b) PROVE BoardInv'
  <2>1. PICK card : card = Card(bench[b].col, bench[b].top + Unit, bench[b].names, DoneAt(bench[b].col,
          0))  OBVIOUS
  <2>2. Writing(b) /\ cards' = Append(cards, card) /\ UNCHANGED moves
          /\ bench' = [bench EXCEPT ![b] = Unbusy]
    BY <1>4, <2>1 DEF CreateTask, Doing
  <2>3. Grid(Fineness, card.sort)
    <3>1. Grid(Fineness, bench[b].top)
            /\ Grid(Fineness, Unit)  BY <1>0, <1>f, <2>2, GridUnit DEF GridInv, Writing
    <3> QED BY <1>f, <2>1, <3>1, GridSum DEF Card
  <2>4. PICK S : cards \in Seq(S)  BY <1>0 DEF BoardTypes
  <2>5. PICK R : R = S \cup {card}  OBVIOUS
  <2>6. cards \in Seq(R) /\ card \in R  BY <2>4, <2>5
  <2>7. cards' \in Seq(R) /\ \A c \in DOMAIN cards' : (c \in DOMAIN cards /\ cards'[c] = cards[c])
          \/ cards'[c] = card
    BY <2>2, <2>6, AppendProperties
  <2>8. \A c \in DOMAIN cards' : Grid(Fineness, cards'[c].sort)  BY <1>0, <2>3, <2>7 DEF GridInv
  <2> QED BY <1>c, <2>2, <2>7, <2>8
<1>w. ASSUME NEW b \in Benches, Writing(b) \/ bench[b].at = "move", NEW t \in DOMAIN cards, NEW card,
             cards' = [cards EXCEPT ![t] = card], Grid(Fineness, card.sort), UNCHANGED moves,
             bench' = [bench EXCEPT ![b] = Unbusy]
      PROVE  BoardInv'
  <2>1. PICK S : cards \in Seq(S)  BY <1>0 DEF BoardTypes
  <2>2. PICK R : R = S \cup {card}  OBVIOUS
  <2>3. cards \in Seq(R) /\ card \in R  BY <2>1, <2>2
  <2>4. cards' \in Seq(R) /\ DOMAIN cards' = DOMAIN cards
        /\ \A c \in DOMAIN cards' : cards'[c] = cards[c] \/ cards'[c] = card
    BY <1>w, <2>3
  <2>5. \A c \in DOMAIN cards' : Grid(Fineness, cards'[c].sort)  BY <1>0, <1>w, <2>4 DEF GridInv
  <2> QED BY <1>c, <1>w, <2>4, <2>5
<1>5. ASSUME NEW b \in Benches, UpdateTask(b) PROVE BoardInv'
  <2>1. PICK t : t = bench[b].task  OBVIOUS
  <2>2. PICK card : card = Card(bench[b].col, IF cards[t].col = bench[b].col THEN cards[t].sort
          ELSE bench[b].top + Unit,
                                bench[b].names, DoneAt(bench[b].col, cards[t].doneAt))
    OBVIOUS
  <2>3. Writing(b) /\ t \in DOMAIN cards /\ cards' = [cards EXCEPT ![t] = card] /\ UNCHANGED moves
        /\ bench' = [bench EXCEPT ![b] = Unbusy]
    BY <1>5, <2>1, <2>2 DEF UpdateTask, Doing, There
  <2>4. Grid(Fineness, card.sort)
    <3>1. Grid(Fineness, bench[b].top) /\ Grid(Fineness, Unit) /\ Grid(Fineness, cards[t].sort)
      BY <1>0, <1>f, <2>3, GridUnit DEF GridInv, Writing
    <3>2. Grid(Fineness, bench[b].top + Unit)  BY <1>f, <3>1, GridSum
    <3> QED BY <2>2, <3>1, <3>2 DEF Card
  <2> QED BY <1>w, <2>3, <2>4
<1>6. ASSUME NEW b \in Benches, MoveTask(b) PROVE BoardInv'
  <2>1. PICK t : t = bench[b].task  OBVIOUS
  <2>2. PICK card : card = Card(bench[b].col, bench[b].sort, cards[t].labels, DoneAt(bench[b].col,
          cards[t].doneAt))  OBVIOUS
  <2>3. bench[b].at = "move" /\ t \in DOMAIN cards /\ cards' = [cards EXCEPT ![t] = card]
          /\ UNCHANGED moves
        /\ bench' = [bench EXCEPT ![b] = Unbusy]
    BY <1>6, <2>1, <2>2 DEF MoveTask, Doing, There
  <2>4. Grid(Fineness, card.sort)  BY <1>0, <2>2, <2>3 DEF GridInv, Card
  <2> QED BY <1>w, <2>3, <2>4
<1>7. ASSUME NEW b \in Benches, Dropped(b) PROVE BoardInv'
  <2>1. bench' = [bench EXCEPT ![b] = Unbusy] /\ UNCHANGED <<cards, moves>>  BY <1>7 DEF Dropped, Doing
  <2>2. "at" \in DOMAIN Unbusy /\ Unbusy.at = "idle"  BY DEF Unbusy
  <2>3. CASE b \notin Pending  BY <1>i, <2>1, <2>2, <2>3
  <2>4. CASE b \in Pending
    <3>1. Cardinality(Pending)' = Cardinality(Pending) - 1  BY <1>0, <2>1, <2>2, <2>4, PendingCount
    <3>2. Cardinality(Pending) > 0
      <4>1. Cardinality(Pending) # 0  BY <1>0, <2>4, FinenessInRange, FS_EmptySet
      <4> QED BY <1>f, <4>1
    <3>3. moves' \in 0..MaxMoves /\ Cardinality(Pending)' \in Nat /\ Cardinality(Pending)' <= moves'
      BY <1>f, <1>s, <2>1, <3>1, <3>2
    <3>4. Halved' = Halved + 1  BY <1>f, <1>s, <2>1, <3>1 DEF Halved
    <3>5. Unbusy.at \notin {"write", "place", "move"}  BY <2>2
    <3> QED BY <1>b, <2>1, <2>2, <3>3, <3>4, <3>5
  <2> QED BY <2>3, <2>4
<1>8. ASSUME NEW b \in Benches, NEW c, NEW col, NEW before, DragTask(b, c, col, before) PROVE BoardInv'
  <2>1. PICK q : q = [at |-> "lock", task |-> c, col |-> col, before |-> before]  OBVIOUS
  <2>2. bench' = [bench EXCEPT ![b] = q] /\ UNCHANGED cards /\ moves < MaxMoves /\ moves' = moves + 1
          /\ bench[b] = Unbusy
    BY <1>8, <2>1 DEF DragTask, Doing
  <2>3. "at" \in DOMAIN q /\ q.at = "lock"  BY <2>1
  <2>4. b \notin Pending  BY <2>2 DEF Pending, Unbusy
  <2>5. Cardinality(Pending)' = Cardinality(Pending) + 1  BY <1>0, <2>2, <2>3, <2>4, PendingCount
  <2>6. moves' \in 0..MaxMoves /\ Cardinality(Pending)' \in Nat /\ Cardinality(Pending)' <= moves'
    BY <1>f, <1>s, <2>2, <2>5
  <2>7. Halved' = Halved  BY <1>f, <1>s, <2>2, <2>5 DEF Halved
  <2>8. q.at \notin {"write", "place", "move"}  BY <2>3
  <2> QED BY <1>b, <2>2, <2>3, <2>6, <2>7, <2>8
<1>9. ASSUME NEW b \in Benches, LockBoard(b) PROVE BoardInv'
  <2>1. PICK q : q = [bench[b] EXCEPT !.at = "place"]  OBVIOUS
  <2>2. bench' = [bench EXCEPT ![b] = q] /\ UNCHANGED <<cards, moves>> /\ bench[b].at = "lock"
        /\ \A o \in Benches : ~Writing(o) /\ ~Moving(o)
    BY <1>9, <2>1 DEF LockBoard, Doing
  <2>3. "at" \in DOMAIN q /\ q.at = "place"  BY <1>0, <2>1 DEF BoardTypes
  <2>4. b \in Pending  BY <2>2 DEF Pending
  <2>5. Cardinality(Pending)' = Cardinality(Pending)  BY <1>0, <2>2, <2>3, <2>4, PendingCount
  <2>6. moves' \in 0..MaxMoves /\ Cardinality(Pending)' \in Nat /\ Cardinality(Pending)' <= moves'
    BY <1>f, <1>s, <2>2, <2>5
  <2>7. Halved' = Halved  BY <2>2, <2>5 DEF Halved
  <2> QED BY <1>b, <2>2, <2>3, <2>6, <2>7
<1>10. ASSUME NEW b \in Benches, FindPlace(b) PROVE BoardInv'
  <2>1. PICK q : q = bench[b]  OBVIOUS
  <2>2. PICK r : r = IF q.before \notin {0, q.task} /\ q.before \notin InColumn(q.col) THEN Unbusy
                     ELSE [at |-> "move", task |-> q.task, col |-> q.col, before |-> q.before,
                            sort |-> Landing(q)]
    OBVIOUS
  <2>3. bench' = [bench EXCEPT ![b] = r] /\ UNCHANGED <<cards, moves>> /\ q.at = "place"
    BY <1>10, <2>1, <2>2 DEF FindPlace, Doing
  <2>4. "at" \in DOMAIN r /\ r.at \in {"idle", "move"}  BY <2>2 DEF Unbusy
  <2>5. b \in Pending /\ Moving(b)  BY <2>1, <2>3 DEF Pending, Moving
  <2>6. Cardinality(Pending)' = Cardinality(Pending) - 1  BY <1>0, <2>3, <2>4, <2>5, PendingCount
  <2>7. Cardinality(Pending) > 0
    <3>1. Cardinality(Pending) # 0  BY <1>0, <2>5, FinenessInRange, FS_EmptySet
    <3> QED BY <1>f, <3>1
  <2>8. Fineness \in 1..Precision
          /\ Fineness' = Fineness - 1  BY <1>f, <1>s, <2>3, <2>6, <2>7 DEF Fineness, Halved
  <2>9. ASSUME r.at = "move" PROVE Grid(Fineness', r.sort) /\ RightPlace(r)
    <3>1. q.before \in {0, q.task} \/ q.before \in InColumn(q.col)  BY <2>2, <2>9 DEF Unbusy
    <3>2. r.task = q.task /\ r.col = q.col /\ r.before = q.before /\ r.sort = Landing(q)  BY <2>2, <3>1
    <3>3. Grid(Fineness - 1, Landing(q))  BY <1>0, <2>8, <3>1, LandingRight
    <3>4. RightPlace(r)
      <4>1. LET others == InColumn(q.col) \ {q.task} IN
            IF q.before \in {0, q.task} THEN \A c \in others : cards[c].sort < Landing(q)
            ELSE /\ q.before \in others /\ Landing(q) < cards[q.before].sort
                 /\ \A c \in others : cards[c].sort < cards[q.before].sort => cards[c].sort < Landing(q)
        BY <1>0, <2>8, <3>1, LandingRight
      <4> QED BY <3>2, <4>1 DEF RightPlace
    <3> QED BY <2>8, <3>2, <3>3, <3>4
  <2>10. \A o \in Benches \ {b} : ~Moving(o) /\ ~Writing(o)  BY <1>0, <2>5 DEF LockInv
  <2>11. moves' \in 0..MaxMoves /\ Cardinality(Pending)' \in Nat /\ Cardinality(Pending)' <= moves'
    BY <1>f, <1>s, <2>3, <2>6, <2>7
  <2>12. Halved' = Halved + 1  BY <1>f, <1>s, <2>3, <2>6 DEF Halved
  <2>13. r.at # "write"  BY <2>4
  <2> QED BY <1>b, <2>3, <2>4, <2>9, <2>10, <2>11, <2>12, <2>13
<1>11. CASE UNCHANGED boardVars
  <2>1. UNCHANGED <<cards, moves, bench>>  BY <1>11 DEF boardVars
  <2> QED BY <1>0, <2>1
        DEF BoardInv, BoardTypes, GridInv, LockInv, RightPlace, InColumn, Fineness, Halved, Pending,
          Moving, Writing
<1>12. CASE OrderNext
  <2>1. PICK b \in Benches :
          \/ \E c \in {0} \cup DOMAIN cards, col \in Columns : TaskForm(b, c, col, {})
          \/ \E c \in DOMAIN cards, col \in Columns,
               before \in {0} \cup DOMAIN cards : DragTask(b, c, col, before)
          \/ MatchLabels(b) \/ BeginWrite(b) \/ CreateTask(b) \/ UpdateTask(b) \/ Dropped(b)
          \/ LockBoard(b) \/ FindPlace(b) \/ MoveTask(b)
    BY <1>12 DEF OrderNext
  <2> QED BY <1>1, <1>2, <1>3, <1>4, <1>5, <1>6, <1>7, <1>8, <1>9, <1>10, <2>1
<1> QED BY <1>11, <1>12

\* In the other scenes of the board no card is moved.
NoDrags == \A b \in Benches : bench[b].at \notin {"lock", "place", "move"}

LEMMA DragsStayAway ==
    ASSUME NoDrags, DOMAIN bench = Benches, PartsNext \/ LabelsNext \/ UNCHANGED boardVars
    PROVE  NoDrags' /\ DOMAIN bench' = Benches
<1>1. ASSUME NEW b \in Benches, NEW q, Doing(b, q), q.at \notin {"lock", "place", "move"} PROVE NoDrags'
               /\ DOMAIN bench' = Benches
  BY <1>1 DEF NoDrags, Doing
<1>2. CASE UNCHANGED bench  BY <1>2 DEF NoDrags
<1>3. ASSUME NEW b \in Benches, NEW c, NEW col, NEW names, TaskForm(b, c, col, names) PROVE NoDrags'
               /\ DOMAIN bench' = Benches
  <2>1. PICK q : q = IF names = {} THEN [at |-> "ready", task |-> c, col |-> col, names |-> {}]
                     ELSE [at |-> "match", task |-> c, col |-> col, names |-> names, saved |-> labels]
    OBVIOUS
  <2>2. Doing(b, q) /\ q.at \in {"ready", "match"}  BY <1>3, <2>1 DEF TaskForm
  <2> QED BY <1>1, <2>2
<1>4. ASSUME NEW b \in Benches, MatchLabels(b) PROVE NoDrags' /\ DOMAIN bench' = Benches
  <2>1. PICK q : q.at = "ready" /\ Doing(b, q)  BY <1>4 DEF MatchLabels
  <2> QED BY <1>1, <2>1
<1>5. ASSUME NEW b \in Benches, BeginWrite(b) PROVE NoDrags' /\ DOMAIN bench' = Benches
  <2>1. PICK q : q.at = "write" /\ Doing(b, q)  BY <1>5 DEF BeginWrite
  <2> QED BY <1>1, <2>1
<1>6. ASSUME NEW b \in Benches, CreateTask(b) \/ UpdateTask(b) \/ Dropped(b) \/ AddLink(b)
      PROVE  NoDrags' /\ DOMAIN bench' = Benches
  <2>1. Doing(b, Unbusy)
          /\ Unbusy.at = "idle"  BY <1>6 DEF CreateTask, UpdateTask, Dropped, AddLink, Unbusy
  <2> QED BY <1>1, <2>1
<1>7. ASSUME NEW b \in Benches, NEW c, NEW d, NEW reversed, FindLink(b, c, d, reversed) PROVE NoDrags'
               /\ DOMAIN bench' = Benches
  <2>1. PICK q : q.at = "link" /\ Doing(b, q)  BY <1>7 DEF FindLink
  <2> QED BY <1>1, <2>1
<1>8. CASE LabelsNext
  <2>1. ASSUME NEW l, NEW n, SaveLabel(l, n)
                 \/ DeleteLabel(l) PROVE UNCHANGED bench  BY <2>1 DEF SaveLabel, DeleteLabel
  <2> QED BY <1>2, <1>3, <1>4, <1>5, <1>6, <1>8, <2>1 DEF LabelsNext
<1>9. CASE PartsNext
  <2>1. ASSUME NEW c \in DOMAIN cards, NEW p \in Authors,
               \/ AddChecklist(c) \/ AddComment(p, c) \/ DeleteTask(c)
               \/ \E i \in DOMAIN parts : \/ AddItem(c, i) \/ DeletePart(p, i)
                                          \/ \E done \in BOOLEAN : SetItem(p, i, done)
        PROVE  UNCHANGED bench
    BY <2>1 DEF AddChecklist, AddComment, DeleteTask, AddItem, DeletePart, SetItem
  <2>2. ASSUME NEW c, NEW d, RemoveLink(c, d) PROVE UNCHANGED bench  BY <2>2 DEF RemoveLink
  <2> QED BY <1>2, <1>6, <1>7, <1>9, <2>1, <2>2 DEF PartsNext
<1>10. UNCHANGED boardVars => UNCHANGED bench  BY DEF boardVars
<1> QED BY <1>2, <1>8, <1>9, <1>10

\* Of a step: the card that is moved by it.
CardLands ==
    \A b \in Benches : \A q \in {bench[b]} :
        q.at = "move" /\ cards' # cards /\ bench'[b] = Unbusy /\ q.col # "done" => Lands(q)'

LEMMA NobodyLands == ASSUME NoDrags PROVE CardLands
BY DEF NoDrags, CardLands

LEMMA CardsLand == ASSUME BoardInv, OrderNext \/ UNCHANGED boardVars PROVE CardLands
<1> SUFFICES ASSUME NEW b \in Benches, NEW q, q = bench[b], q.at = "move", cards' # cards,
                      bench'[b] = Unbusy, q.col # "done"
             PROVE  Lands(q)'
  BY DEF CardLands
<1>0. BoardTypes /\ GridInv /\ LockInv /\ RightPlace(q)  BY DEF BoardInv
<1>1. PICK o \in Benches : CreateTask(o) \/ UpdateTask(o) \/ MoveTask(o)
  <2>1. OrderNext  BY DEF boardVars
  <2> QED BY <2>1 DEF OrderNext, TaskForm, DragTask, MatchLabels, BeginWrite, Dropped, LockBoard,
        FindPlace
<1>2. MoveTask(o) /\ o = b
  <2>1. Moving(b) /\ ~Writing(o)  BY <1>0 DEF Moving, LockInv
  <2>2. MoveTask(o)  BY <1>1, <2>1 DEF CreateTask, UpdateTask
  <2>3. Moving(o)  BY <2>2 DEF MoveTask, Moving
  <2> QED BY <1>0, <2>1, <2>2, <2>3 DEF LockInv
<1>3. PICK t \in DOMAIN cards : t = q.task  BY <1>2 DEF MoveTask, There
<1>4. PICK card : card = Card(q.col, q.sort, cards[t].labels, DoneAt(q.col, cards[t].doneAt))  OBVIOUS
<1>5. cards' = [cards EXCEPT ![t] = card]  BY <1>2, <1>3, <1>4 DEF MoveTask
<1>6. card.there /\ card.col = q.col /\ card.sort = q.sort  BY <1>4 DEF Card
<1>7. DOMAIN cards' = DOMAIN cards /\ cards'[t] = card
        /\ \A c \in DOMAIN cards \ {t} : cards'[c] = cards[c]  BY <1>5
<1>8. PICK others : others = InColumn(q.col) \ {t}  OBVIOUS
<1>9. InColumn(q.col)' = others \cup {t}  BY <1>6, <1>7, <1>8 DEF InColumn
<1>10. others \in SUBSET DOMAIN cards /\ t \notin others  BY <1>8 DEF InColumn
<1>11. DOMAIN cards = 1..Len(cards) /\ Len(cards) \in Nat  BY <1>0 DEF BoardTypes
<1>12. \A c \in DOMAIN cards : cards[c].sort \in Int
  <2>1. Fineness \in 0..Precision  BY <1>0, FinenessInRange
  <2> QED BY <1>0, <2>1, GridSum DEF GridInv
<1>13. q.sort \in Int
  <2>1. Fineness \in 0..Precision /\ Grid(Fineness, q.sort)  BY <1>0, FinenessInRange DEF GridInv
  <2> QED BY <2>1, GridSum
<1>14. \A c \in others : cards'[c].sort = cards[c].sort /\ cards[c].sort \in Int /\ c \in Nat /\ c # t
  BY <1>7, <1>10, <1>11, <1>12
<1>15. cards'[t].sort = q.sort /\ t \in Nat  BY <1>6, <1>7, <1>11
<1>16. \A c, d : Above(q.col, c, d)' <=>
          cards'[c].sort < cards'[d].sort \/ (cards'[c].sort = cards'[d].sort /\ c < d)
  BY DEF Above
<1>17. CASE q.before \in {0, q.task}
  <2>1. \A c \in others : cards[c].sort < q.sort  BY <1>0, <1>3, <1>8, <1>17 DEF RightPlace
  <2>2. \A c \in others : Above(q.col, c, t)'  BY <1>14, <1>15, <1>16, <2>1
  <2> QED BY <1>3, <1>9, <1>17, <2>2 DEF Lands
<1>18. CASE q.before \notin {0, q.task} /\ ~Tied(q.before)'
  <2>1. PICK u \in others : u = q.before  BY <1>0, <1>3, <1>8, <1>18 DEF RightPlace
  <2>2. q.sort < cards[u].sort
          /\ \A c \in others : cards[c].sort < cards[u].sort => cards[c].sort < q.sort
    BY <1>0, <1>3, <1>8, <1>18, <2>1 DEF RightPlace
  <2>3. Above(q.col, t, u)'  BY <1>13, <1>14, <1>15, <1>16, <2>2
  <2>4. \A c \in others \ {u} : cards[c].sort # cards[u].sort
    <3>1. cards'[u].col = q.col  BY <1>7, <1>8, <1>10, <2>1 DEF InColumn
    <3>2. \A c \in InColumn(q.col)' \ {u} : cards'[c].sort # cards'[u].sort  BY <1>18, <2>1, <3>1
            DEF Tied, InColumn
    <3> QED BY <1>9, <1>14, <3>2
  <2>5. ASSUME NEW c \in others \cup {t}, Above(q.col, t, c)', Above(q.col, c, u)' PROVE FALSE
    <3>1. c # t  BY <1>13, <1>15, <1>16, <2>5
    <3>2. c \in others /\ cards'[c].sort = cards[c].sort /\ cards[c].sort \in Int
            /\ c \in Nat  BY <1>14, <2>5, <3>1
    <3>3. cards'[u].sort = cards[u].sort /\ cards[u].sort \in Int /\ u \in Nat  BY <1>14
    <3>4. c # u  BY <1>16, <2>5, <3>2, <3>3
    <3>5. cards[c].sort < cards[u].sort  BY <1>16, <2>4, <2>5, <3>2, <3>3, <3>4
    <3>6. cards[c].sort < q.sort  BY <2>2, <3>2, <3>5
    <3>7. q.sort < cards[c].sort \/ q.sort = cards[c].sort  BY <1>15, <1>16, <2>5, <3>2
    <3> QED BY <1>13, <3>2, <3>6, <3>7
  <2>6. /\ Above(q.col, q.task, q.before)'
        /\ ~\E c \in InColumn(q.col)' : Above(q.col, q.task, c)' /\ Above(q.col, c, q.before)'
    BY <1>3, <1>9, <2>1, <2>3, <2>5
  <2> QED BY <1>18, <2>6 DEF Lands
<1>19. CASE q.before \notin {0, q.task} /\ Tied(q.before)'  BY <1>19 DEF Lands
<1> QED BY <1>17, <1>18, <1>19

-------------------------------------------------------------------------------
(* The gangs: the log replays to the members.                                *)

Deeds == {"member_added", "member_removed", "rank_changed"}
Entries == [gang : DOMAIN LeaderOf \cup {Nowhere}, action : Deeds \cup {"none"},
  who : Gangsters \cup {Nowhere},
            rank : {"member", "officer"}, open : Portals \cup {Nowhere}]

\* The rows a reader of a log goes through, for one player.
Reads(row, e, p) == IF e.who = p /\ e.open = Nowhere THEN After(row, e) ELSE row
Story(h, log, p) == h = [i \in 0..Len(log) |-> IF i = 0 THEN Free ELSE Reads(h[i - 1], log[i], p)]

HoldsPortal(q) == portal[q].at \in {"log", "commit"}

IsDeed(d) ==
    /\ d.at \in {"row", "log", "commit"}
    /\ d.gang \in DOMAIN LeaderOf /\ d.action \in Deeds
    /\ d.who \in Gangsters /\ d.rank \in {"member", "officer"}

GangTypes ==
    /\ DOMAIN gangMembers = Gangsters
    /\ gangLog \in Seq(Entries)
    /\ DOMAIN portal = Portals
    /\ \A q \in Portals : portal[q] = NoDeed \/ IsDeed(portal[q])

\* A row is held by one transaction.
OneHolder == \A q, r \in Portals : HoldsPortal(q) /\ HoldsPortal(r)
  /\ portal[q].who = portal[r].who => q = r

\* An entry that is not committed is of a transaction that is about to be, and none of the
\* same player comes after it.
OpenEntry(i) ==
    LET q == gangLog[i].open IN
    /\ portal[q].at = "commit"
    /\ gangLog[i].gang = portal[q].gang /\ gangLog[i].action = portal[q].action
    /\ gangLog[i].who = portal[q].who /\ gangLog[i].rank = portal[q].rank
    /\ \A j \in i + 1..Len(gangLog) : gangLog[j].who # gangLog[i].who
OpenEntries == \A i \in DOMAIN gangLog : gangLog[i].open # Nowhere => OpenEntry(i)

\* Whoever is about to commit has written an entry.
Written == \A q \in Portals : portal[q].at = "commit" => \E i \in DOMAIN gangLog : gangLog[i].open = q

EntriesInv == OneHolder /\ OpenEntries /\ Written

Replays == \A p \in Gangsters : \E h : Story(h, gangLog, p) /\ h[Len(gangLog)] = gangMembers[p]

GangsInv == GangTypes /\ EntriesInv /\ Replays

LEMMA OneStory ==
    ASSUME NEW log, Len(log) \in Nat, NEW p, NEW h, NEW k, Story(h, log, p),
             Story(k, log, p) PROVE h = k
<1>1. DOMAIN h = 0..Len(log) /\ DOMAIN k = 0..Len(log)  BY DEF Story
<1>2. ASSUME NEW i \in 0..Len(log), h[i] # k[i] PROVE FALSE
  <2> DEFINE T == {j \in 0..Len(log) : h[j] # k[j]}
  <2>1. T \subseteq Nat /\ T # {}  BY <1>2
  <2>0. PICK n \in T : \A m \in T : n <= m
    <3> HIDE DEF T
    <3> QED BY <2>1, LeastNumber
  <2>2. n \in Nat /\ n \in 0..Len(log) /\ h[n] # k[n]  BY <2>0
  <2>3. n # 0  BY <2>2 DEF Story
  <2>4. n - 1 \in Nat /\ n - 1 \in 0..Len(log) /\ ~(n <= n - 1)  BY <2>2, <2>3
  <2>5. h[n - 1] = k[n - 1]  BY <2>0, <2>4
  <2>6. h[n] = Reads(h[n - 1], log[n], p) /\ k[n] = Reads(k[n - 1], log[n], p)  BY <2>2, <2>3 DEF Story
  <2> QED BY <2>2, <2>5, <2>6
<1>3. h = [i \in 0..Len(log) |-> h[i]] /\ k = [i \in 0..Len(log) |-> k[i]]  BY <1>1 DEF Story
<1> QED BY <1>2, <1>3

LEMMA StoryTold ==
    ASSUME gangLog \in Seq(Entries), NEW p \in Gangsters, NEW h, Story(h, gangLog, p)
    PROVE  LogSays(p) = h[Len(gangLog)]
<1> DEFINE IsStory(f) == f = [i \in 0..Len(gangLog) |->
              IF i = 0 THEN Free
              ELSE IF gangLog[i].who = p /\ gangLog[i].open = Nowhere THEN After(f[i - 1], gangLog[i])
              ELSE f[i - 1]]
<1>1. \A f : IsStory(f) <=> Story(f, gangLog, p)  BY DEF Story, Reads
<1>2. LogSays(p) = (CHOOSE f : IsStory(f))[Len(gangLog)]  BY DEF LogSays
<1>3. PICK g : g = CHOOSE f : IsStory(f)  OBVIOUS
<1>4. IsStory(g)
  <2>1. IsStory(h)  BY <1>1
  <2> HIDE DEF IsStory
  <2> QED BY <1>3, <2>1
<1>5. Story(g, gangLog, p)  BY <1>1, <1>4
<1>6. Len(gangLog) \in Nat  OBVIOUS
<1>7. g = h
  <2> HIDE DEF IsStory
  <2> QED BY <1>5, <1>6, OneStory
<1> HIDE DEF IsStory
<1> QED BY <1>2, <1>3, <1>7

LEMMA GangLogTold == ASSUME GangsInv PROVE GangLogReplays
BY StoryTold DEF GangsInv, GangTypes, Replays, GangLogReplays

LEMMA GangsStart == ASSUME GangsInit PROVE GangsInv
<1>1. GangTypes  BY DEF GangsInit, GangTypes, NoDeed
<1>2. EntriesInv  BY DEF GangsInit, EntriesInv, OneHolder, OpenEntries, Written, HoldsPortal, NoDeed
<1>3. ASSUME NEW p \in Gangsters PROVE \E h : Story(h, gangLog, p) /\ h[Len(gangLog)] = gangMembers[p]
  <2>1. PICK h : h = [i \in 0..0 |-> Free]  OBVIOUS
  <2>2. gangLog = << >> /\ Len(gangLog) = 0 /\ gangMembers[p] = Free  BY DEF GangsInit
  <2>3. Story(h, gangLog, p)  BY <2>1, <2>2 DEF Story
  <2>4. h[0] = Free  BY <2>1
  <2> QED BY <2>2, <2>3, <2>4
<1> QED BY <1>1, <1>2, <1>3 DEF GangsInv, Replays

\* The log is longer by an entry that is read as nothing.
LEMMA StoryGoesOn ==
    ASSUME NEW S, NEW log \in Seq(S), NEW e \in S, NEW p, NEW h, Story(h, log, p),
             Reads(h[Len(log)], e, p) = h[Len(log)]
    PROVE  \E k : Story(k, Append(log, e), p) /\ k[Len(log) + 1] = h[Len(log)]
<1>1. PICK k : k = [i \in 0..Len(log) + 1 |-> IF i = Len(log) + 1 THEN h[Len(log)] ELSE h[i]]  OBVIOUS
<1>2. PICK lg : lg = Append(log, e)  OBVIOUS
<1>3. Len(lg) = Len(log) + 1 /\ lg[Len(log) + 1] = e /\ \A i \in 1..Len(log) : lg[i] = log[i]  BY <1>2
<1>4. \A i \in 0..Len(log) : h[i] = IF i = 0 THEN Free ELSE Reads(h[i - 1], log[i], p)  BY DEF Story
<1>5. ASSUME NEW i \in 0..Len(lg) PROVE k[i] = IF i = 0 THEN Free ELSE Reads(k[i - 1], lg[i], p)
  <2>1. CASE i = Len(log) + 1
    <3>1. k[i] = h[Len(log)] /\ k[i - 1] = h[Len(log)] /\ i # 0 /\ lg[i] = e  BY <1>1, <1>3, <2>1
    <3> QED BY <3>1
  <2>2. CASE i \in 0..Len(log)
    <3>1. k[i] = h[i] /\ (i # 0 => k[i - 1] = h[i - 1] /\ lg[i] = log[i])  BY <1>1, <1>3, <2>2
    <3> QED BY <1>4, <2>2, <3>1
  <2> QED BY <1>3, <2>1, <2>2
<1>6. DOMAIN k = 0..Len(lg) /\ k = [i \in DOMAIN k |-> k[i]]  BY <1>1, <1>3
<1>7. Story(k, lg, p)  BY <1>5, <1>6 DEF Story
<1>8. k[Len(log) + 1] = h[Len(log)]  BY <1>1
<1> QED BY <1>2, <1>7, <1>8

\* Entries that are read as nothing may be others that are.
LEMMA StorySame ==
    ASSUME NEW log, NEW lg, Len(lg) = Len(log), Len(log) \in Nat, NEW p, NEW h, Story(h, log, p),
           \A i \in 1..Len(log) : \A row : Reads(row, lg[i], p) = Reads(row, log[i], p)
    PROVE  Story(h, lg, p)
<1>1. \A i \in 0..Len(log) : h[i] = IF i = 0 THEN Free ELSE Reads(h[i - 1], log[i], p)  BY DEF Story
<1>2. ASSUME NEW i \in 0..Len(lg) PROVE h[i] = IF i = 0 THEN Free ELSE Reads(h[i - 1], lg[i], p)
  <2>1. CASE i = 0  BY <1>1, <2>1
  <2>2. CASE i # 0
    <3>1. i \in 1..Len(log) /\ h[i] = Reads(h[i - 1], log[i], p)  BY <1>1, <2>2
    <3>2. Reads(h[i - 1], lg[i], p) = Reads(h[i - 1], log[i], p)  BY <3>1
    <3> QED BY <2>2, <3>1, <3>2
  <2> QED BY <2>1, <2>2
<1>3. h = [i \in 0..Len(lg) |-> h[i]]  BY DEF Story
<1> QED BY <1>2, <1>3 DEF Story

SameBut(m, log, lg) == Len(lg) = Len(log) /\ \A i \in 1..Len(log) \ {m} : lg[i] = log[i]
Silent(log, m, p) == \A i \in m..Len(log) : \A row : Reads(row, log[i], p) = row

\* An entry is read from now on, and the rest of the log is read as nothing.
LEMMA StoryEnds ==
    ASSUME NEW log, NEW lg, Len(log) \in Nat, NEW p, NEW h, Story(h, log, p), NEW m \in 1..Len(log),
           SameBut(m, log, lg), Silent(log, m, p)
    PROVE  \E k : Story(k, lg, p) /\ k[Len(log)] = Reads(h[Len(log)], lg[m], p)
<1> USE DEF SameBut
<1>1. \A i \in 0..Len(log) : h[i] = IF i = 0 THEN Free ELSE Reads(h[i - 1], log[i], p)  BY DEF Story
<1>2. ASSUME NEW i \in m - 1..Len(log), h[i] # h[m - 1] PROVE FALSE
  <2> DEFINE T == {j \in m - 1..Len(log) : h[j] # h[m - 1]}
  <2>1. T \subseteq Nat /\ T # {}  BY <1>2
  <2>2. PICK n \in T : \A x \in T : n <= x
    <3> HIDE DEF T
    <3> QED BY <2>1, LeastNumber
  <2>3. n \in m..Len(log) /\ h[n] # h[m - 1] /\ n \in Nat  BY <2>2
  <2>4. h[n] = h[n - 1]
    <3>1. n \in 0..Len(log) /\ n # 0  BY <2>3
    <3>2. h[n] = Reads(h[n - 1], log[n], p)  BY <1>1, <3>1
    <3>3. Reads(h[n - 1], log[n], p) = h[n - 1]  BY <2>3 DEF Silent
    <3> QED BY <3>2, <3>3
  <2>5. n - 1 \in m - 1..Len(log) /\ ~(n <= n - 1)  BY <2>3
  <2> QED BY <2>2, <2>3, <2>4, <2>5
<1>3. PICK last : last = Reads(h[Len(log)], lg[m], p)  OBVIOUS
<1>4. PICK k : k = [i \in 0..Len(log) |-> IF i < m THEN h[i] ELSE last]  OBVIOUS
<1>5. h[Len(log)] = h[m - 1]  BY <1>2
<1>6. ASSUME NEW i \in 0..Len(lg) PROVE k[i] = IF i = 0 THEN Free ELSE Reads(k[i - 1], lg[i], p)
  <2>1. CASE i < m
    <3>1. k[i] = h[i] /\ (i # 0 => k[i - 1] = h[i - 1] /\ lg[i] = log[i])  BY <1>4, <2>1
    <3> QED BY <1>1, <3>1
  <2>2. CASE i = m
    <3>1. k[i] = last /\ k[i - 1] = h[m - 1] /\ i # 0  BY <1>4, <2>2
    <3> QED BY <1>3, <1>5, <2>2, <3>1
  <2>3. CASE i > m
    <3>1. k[i] = last /\ k[i - 1] = last /\ i # 0  BY <1>4, <2>3
    <3>2. lg[i] = log[i] /\ Reads(last, log[i], p) = last  BY <2>3 DEF Silent
    <3> QED BY <3>1, <3>2
  <2> QED BY <2>1, <2>2, <2>3
<1>7. k = [i \in 0..Len(lg) |-> k[i]]  BY <1>4
<1>8. Story(k, lg, p)  BY <1>6, <1>7 DEF Story
<1>9. k[Len(log)] = last  BY <1>4
<1> QED BY <1>3, <1>8, <1>9

LEMMA GangsKeep == ASSUME GangsInv, GangsNext \/ UNCHANGED gangVars PROVE GangsInv'
<1>0. GangTypes /\ OneHolder /\ OpenEntries /\ Written /\ Replays  BY DEF GangsInv, EntriesInv
<1>n. GangTypes' /\ OneHolder' /\ OpenEntries' /\ Written'
        /\ Replays' => GangsInv'  BY DEF GangsInv, EntriesInv
<1>g. Nowhere \notin DOMAIN LeaderOf /\ Nowhere \notin Gangsters
        /\ Nowhere \notin Portals  BY GangsAssumption
<1>z. gangLog \in Seq(Entries) /\ Len(gangLog) \in Nat /\ DOMAIN gangLog = 1..Len(gangLog)
        /\ DOMAIN portal = Portals
  BY <1>0 DEF GangTypes
<1>e. \A i \in DOMAIN gangLog : gangLog[i] \in Entries  BY <1>z
<1>o. \A i \in DOMAIN gangLog : gangLog[i].open # Nowhere => gangLog[i].open \in Portals
        /\ portal[gangLog[i].open].who \in Gangsters
  <2>1. ASSUME NEW i \in DOMAIN gangLog, gangLog[i].open # Nowhere
        PROVE  gangLog[i].open \in Portals /\ portal[gangLog[i].open].who \in Gangsters
    <3>1. PICK q : q = gangLog[i].open  OBVIOUS
    <3>2. q \in Portals  BY <1>e, <2>1, <3>1 DEF Entries
    <3>3. portal[q].at = "commit"  BY <1>0, <2>1, <3>1 DEF OpenEntries, OpenEntry
    <3>4. portal[q] # NoDeed  BY <3>3 DEF NoDeed
    <3> QED BY <1>0, <3>1, <3>2, <3>4 DEF GangTypes, IsDeed
  <2> QED BY <2>1
\* A request that is not at its log turns to something else that is not.
<1>p. ASSUME NEW q \in Portals, NEW deed, portal' = [portal EXCEPT ![q] = deed],
               UNCHANGED <<gangMembers, gangLog>>,
             portal[q].at # "commit", deed.at # "commit",
             deed = NoDeed \/ IsDeed(deed),
             deed.at = "log" => \A r \in Portals : HoldsPortal(r) => portal[r].who # deed.who
      PROVE  GangsInv'
  <2>1. DOMAIN portal' = Portals /\ portal'[q] = deed
          /\ \A r \in Portals \ {q} : portal'[r] = portal[r]  BY <1>p, <1>z
  <2>2. GangTypes'  BY <1>0, <1>p, <2>1 DEF GangTypes
  <2>3. OneHolder'  BY <1>0, <1>p, <2>1 DEF OneHolder, HoldsPortal
  <2>4. ASSUME NEW i \in DOMAIN gangLog', gangLog'[i].open # Nowhere PROVE OpenEntry(i)'
    <3>1. gangLog[i].open \in Portals \ {q}  BY <1>0, <1>o, <1>p, <2>4 DEF OpenEntries, OpenEntry
    <3> QED BY <1>0, <1>p, <2>1, <2>4, <3>1 DEF OpenEntries, OpenEntry
  <2>5. Written'  BY <1>0, <1>p, <2>1 DEF Written
  <2>6. Replays'  BY <1>0, <1>p DEF Replays
  <2> QED BY <1>n, <2>2, <2>3, <2>4, <2>5, <2>6 DEF OpenEntries
<1>1. ASSUME NEW q \in Portals, NEW action \in Deeds, NEW leader, NEW who \in Gangsters,
               NEW rank \in {"member", "officer"},
             Lead(q, action, leader, who, rank)
      PROVE  GangsInv'
  <2>1. PICK g \in DOMAIN LeaderOf : portal' = [portal EXCEPT ![q] =
            [at |-> "row", action |-> action, gang |-> g, who |-> who, rank |-> rank]]
    BY <1>1 DEF Lead
  <2>2. PICK deed : deed = [at |-> "row", action |-> action, gang |-> g, who |-> who,
          rank |-> rank]  OBVIOUS
  <2>3. portal[q].at # "commit" /\ UNCHANGED <<gangMembers, gangLog>>  BY <1>1 DEF Lead, NoDeed
  <2>4. portal' = [portal EXCEPT ![q] = deed] /\ deed.at = "row"  BY <2>1, <2>2
  <2>5. IsDeed(deed)  BY <2>2 DEF IsDeed
  <2> QED BY <1>p, <2>3, <2>4, <2>5
<1>2. ASSUME NEW q \in Portals, ChangeRow(q) PROVE GangsInv'
  <2>1. PICK deed : deed = IF Holders(portal[q].who) = {}
          /\ Fits(portal[q]) THEN [portal[q] EXCEPT !.at = "log"] ELSE NoDeed
    OBVIOUS
  <2>2. portal' = [portal EXCEPT ![q] = deed] /\ UNCHANGED <<gangMembers, gangLog>>
          /\ portal[q].at = "row"
        /\ portal[q].at # "commit"
    BY <1>2, <2>1 DEF ChangeRow
  <2>3. CASE deed = NoDeed
    <3>1. deed.at # "commit" /\ deed.at # "log"  BY <2>3 DEF NoDeed
    <3> QED BY <1>p, <2>2, <2>3, <3>1
  <2>4. CASE deed # NoDeed
    <3>1. Holders(portal[q].who) = {} /\ deed = [portal[q] EXCEPT !.at = "log"]  BY <2>1, <2>4
    <3>3. portal[q] # NoDeed  BY <2>2 DEF NoDeed
    <3>4. IsDeed(portal[q])  BY <1>0, <3>3 DEF GangTypes
    <3>a. PICK old : old = portal[q]  OBVIOUS
    <3>5. DOMAIN old = DOMAIN old /\ deed = [old EXCEPT !.at = "log"]
            /\ IsDeed(old)  BY <3>1, <3>4, <3>a
    <3>6. deed.at = "log" /\ deed.gang = old.gang /\ deed.action = old.action /\ deed.who = old.who
            /\ deed.rank = old.rank
      BY <3>5
    <3>7. IsDeed(deed)  BY <3>5, <3>6 DEF IsDeed
    <3>8. \A r \in Portals : HoldsPortal(r)
            => portal[r].who # deed.who  BY <3>1, <3>6, <3>a DEF Holders, HoldsPortal
    <3>9. deed.at # "commit"  BY <3>6
    <3> QED BY <1>p, <2>2, <3>7, <3>8, <3>9
  <2> QED BY <2>3, <2>4
<1>3. ASSUME NEW q \in Portals, InsertLog(q) PROVE GangsInv'
  <2>1. PICK e : e = Entry(q)  OBVIOUS
  <2>2. portal[q].at = "log" /\ gangLog' = Append(gangLog, e) /\ UNCHANGED gangMembers
        /\ portal' = [portal EXCEPT ![q].at = "commit"]
    BY <1>3, <2>1 DEF InsertLog
  <2>3. portal[q] # NoDeed  BY <2>2 DEF NoDeed
  <2>4. /\ portal[q].gang \in DOMAIN LeaderOf /\ portal[q].action \in Deeds
        /\ portal[q].who \in Gangsters /\ portal[q].rank \in {"member", "officer"}
    BY <1>0, <2>3 DEF GangTypes, IsDeed
  <2>5. /\ e.gang = portal[q].gang /\ e.action = portal[q].action /\ e.who = portal[q].who
             /\ e.rank = portal[q].rank
        /\ e.open = q /\ e \in Entries
    BY <2>1, <2>4 DEF Entry, Entries
  <2>6. /\ gangLog' \in Seq(Entries) /\ Len(gangLog') = Len(gangLog) + 1
             /\ gangLog'[Len(gangLog) + 1] = e
        /\ \A i \in DOMAIN gangLog : gangLog'[i] = gangLog[i]
    BY <1>z, <2>2, <2>5
  <2>7. /\ DOMAIN portal' = Portals /\ \A r \in Portals \ {q} : portal'[r] = portal[r]
        /\ portal'[q].at = "commit" /\ portal'[q].gang = portal[q].gang
             /\ portal'[q].action = portal[q].action
        /\ portal'[q].who = portal[q].who /\ portal'[q].rank = portal[q].rank
    BY <1>z, <2>2
  <2>8. GangTypes'
    <3>1. IsDeed(portal'[q])  BY <2>4, <2>7 DEF IsDeed
    <3> QED BY <1>0, <2>2, <2>6, <2>7, <3>1 DEF GangTypes
  <2>9. OneHolder'
    <3>1. \A r \in Portals : (HoldsPortal(r)' <=> HoldsPortal(r))
            /\ portal'[r].who = portal[r].who  BY <2>2, <2>7 DEF HoldsPortal
    <3> QED BY <1>0, <3>1 DEF OneHolder
  <2>10. ASSUME NEW i \in DOMAIN gangLog', gangLog'[i].open # Nowhere PROVE OpenEntry(i)'
    <3>1. DOMAIN gangLog' = 1..Len(gangLog) + 1  BY <2>6
    <3>2. CASE i = Len(gangLog) + 1
      <4>1. gangLog'[i] = e /\ i + 1..Len(gangLog') = {}  BY <1>z, <2>6, <3>2
      <4> QED BY <2>5, <2>7, <4>1 DEF OpenEntry
    <3>3. CASE i # Len(gangLog) + 1
      <4>1. i \in DOMAIN gangLog /\ gangLog'[i] = gangLog[i]  BY <1>z, <2>6, <3>1, <3>3
      <4>2. PICK r : r = gangLog[i].open  OBVIOUS
      <4>3. OpenEntry(i) /\ r \in Portals  BY <1>0, <1>o, <2>10, <4>1, <4>2 DEF OpenEntries
      <4>4. portal[r].at = "commit" /\ r # q
              /\ portal'[r] = portal[r]  BY <2>2, <2>7, <4>2, <4>3 DEF OpenEntry
      <4>5. portal[r].who # portal[q].who  BY <1>0, <2>2, <4>3, <4>4 DEF OneHolder, HoldsPortal
      <4>6. e.who # gangLog[i].who  BY <2>5, <4>2, <4>3, <4>5 DEF OpenEntry
      <4>7. \A j \in i + 1..Len(gangLog') : (j \in i + 1..Len(gangLog) /\ j \in DOMAIN gangLog)
              \/ j = Len(gangLog) + 1
        BY <1>z, <2>6, <4>1
      <4>8. \A j \in i + 1..Len(gangLog') : gangLog'[j].who # gangLog[i].who
        BY <2>6, <4>3, <4>6, <4>7 DEF OpenEntry
      <4> QED BY <4>1, <4>2, <4>3, <4>4, <4>8 DEF OpenEntry
    <3> QED BY <3>2, <3>3
  <2>11. Written'
    <3>1. Len(gangLog) + 1 \in DOMAIN gangLog'
            /\ DOMAIN gangLog \subseteq DOMAIN gangLog'  BY <1>z, <2>6
    <3> QED BY <1>0, <2>5, <2>6, <2>7, <3>1 DEF Written
  <2>12. Replays'
    <3>1. ASSUME NEW p \in Gangsters PROVE \E k : Story(k, gangLog', p)
                   /\ k[Len(gangLog')] = gangMembers'[p]
      <4>1. PICK h : Story(h, gangLog, p) /\ h[Len(gangLog)] = gangMembers[p]  BY <1>0 DEF Replays
      <4>2. \A row : Reads(row, e, p) = row  BY <1>g, <2>5 DEF Reads
      <4>3. \E k : Story(k, Append(gangLog, e), p) /\ k[Len(gangLog) + 1] = h[Len(gangLog)]
        BY <1>z, <2>5, <4>1, <4>2, StoryGoesOn
      <4> QED BY <2>2, <2>6, <4>1, <4>3
    <3> QED BY <3>1 DEF Replays
  <2> QED BY <1>n, <2>8, <2>9, <2>10, <2>11, <2>12 DEF OpenEntries
\* A transaction ends: its entry is committed, or not there.
<1>x. ASSUME NEW q \in Portals, portal[q] # NoDeed, portal' = [portal EXCEPT ![q] = NoDeed],
             DOMAIN gangMembers' = Gangsters, gangLog' = [i \in DOMAIN gangLog |-> gangLog'[i]],
             \A i \in DOMAIN gangLog :
                IF gangLog[i].open = q
                THEN gangLog'[i] \in Entries /\ gangLog'[i].open = Nowhere
                       /\ gangLog'[i].who \in {gangLog[i].who, Nowhere}
                ELSE gangLog'[i] = gangLog[i]
      PROVE  /\ GangTypes' /\ OneHolder' /\ OpenEntries' /\ Written'
             /\ Len(gangLog') = Len(gangLog)
  <2>1. DOMAIN portal' = Portals /\ portal'[q] = NoDeed
          /\ \A r \in Portals \ {q} : portal'[r] = portal[r]  BY <1>x, <1>z
  <2>2. DOMAIN gangLog' = DOMAIN gangLog  BY <1>x
  <2>3. \A i \in DOMAIN gangLog : gangLog'[i] \in Entries  BY <1>e, <1>x, <2>2
  <2>4. gangLog' \in Seq(Entries) /\ Len(gangLog') = Len(gangLog)
    <3>1. gangLog' = [i \in 1..Len(gangLog) |-> gangLog'[i]]  BY <1>x, <1>z
    <3>2. \A i \in 1..Len(gangLog) : gangLog'[i] \in Entries  BY <1>z, <2>3
    <3> QED BY <1>z, <3>1, <3>2
  <2>5. GangTypes'  BY <1>0, <1>x, <2>1, <2>4 DEF GangTypes
  <2>6. OneHolder'  BY <1>0, <2>1 DEF OneHolder, HoldsPortal, NoDeed
  <2>7. \A i \in DOMAIN gangLog : gangLog'[i].who \in {gangLog[i].who, Nowhere}  BY <1>x, <2>2
  <2>8. ASSUME NEW i \in DOMAIN gangLog', gangLog'[i].open # Nowhere PROVE OpenEntry(i)'
    <3>1. i \in DOMAIN gangLog /\ gangLog[i].open # q /\ gangLog'[i] = gangLog[i]  BY <1>x, <2>2, <2>8
    <3>2. PICK r : r = gangLog[i].open  OBVIOUS
    <3>3. OpenEntry(i) /\ r \in Portals
            /\ portal[r].who \in Gangsters  BY <1>0, <1>o, <2>8, <3>1, <3>2 DEF OpenEntries
    <3>4. portal'[r] = portal[r]  BY <2>1, <3>1, <3>2, <3>3
    <3>5. gangLog[i].who \in Gangsters  BY <3>2, <3>3 DEF OpenEntry
    <3>6. \A j \in i + 1..Len(gangLog) : j \in DOMAIN gangLog  BY <1>z, <3>1
    <3>7. \A j \in i + 1..Len(gangLog) : gangLog'[j].who # gangLog[i].who  BY <1>g, <2>7, <3>3, <3>5,
            <3>6 DEF OpenEntry
    <3> QED BY <2>4, <3>1, <3>2, <3>3, <3>4, <3>7 DEF OpenEntry
  <2>9. Written'
    <3>1. ASSUME NEW r \in Portals,
                   portal'[r].at = "commit" PROVE \E i \in DOMAIN gangLog' : gangLog'[i].open = r
      <4>1. r # q /\ portal[r].at = "commit"  BY <2>1, <3>1 DEF NoDeed
      <4> QED BY <1>0, <1>x, <2>2, <4>1 DEF Written
    <3> QED BY <3>1 DEF Written
  <2> QED BY <2>4, <2>5, <2>6, <2>8, <2>9 DEF OpenEntries
<1>4. ASSUME NEW q \in Portals, CommitDeed(q) PROVE GangsInv'
  <2>1. PICK who \in Gangsters : who = portal[q].who /\ portal[q].at = "commit" /\ portal[q] # NoDeed
    <3>1. portal[q].at = "commit" /\ portal[q] # NoDeed  BY <1>4 DEF CommitDeed, NoDeed
    <3> QED BY <1>0, <3>1 DEF GangTypes, IsDeed
  <2>0. PICK shut : shut = [i \in DOMAIN gangLog |-> [gangLog[i] EXCEPT !.open = Nowhere]]  OBVIOUS
  <2>2. /\ portal' = [portal EXCEPT ![q] = NoDeed]
        /\ gangLog' = [i \in DOMAIN gangLog |-> IF gangLog[i].open = q THEN shut[i] ELSE gangLog[i]]
    BY <1>4, <2>0 DEF CommitDeed
  <2>3. DOMAIN gangMembers' = Gangsters /\ gangMembers'[who] = After(gangMembers[who], portal[q])
        /\ \A p \in Gangsters \ {who} : gangMembers'[p] = gangMembers[p]
    BY <1>0, <1>4, <2>1 DEF CommitDeed, GangTypes
  <2>4. ASSUME NEW i \in DOMAIN gangLog
        PROVE  /\ shut[i] \in Entries /\ shut[i].open = Nowhere /\ shut[i].who = gangLog[i].who
               /\ shut[i].gang = gangLog[i].gang /\ shut[i].action = gangLog[i].action
                    /\ shut[i].rank = gangLog[i].rank
    <3>1. PICK e \in Entries : e = gangLog[i]  BY <1>e
    <3>2. shut[i] = [e EXCEPT !.open = Nowhere]  BY <2>0, <3>1
    <3> QED BY <3>1, <3>2 DEF Entries
  <2>6. GangTypes' /\ OneHolder' /\ OpenEntries' /\ Written' /\ Len(gangLog') = Len(gangLog)
    <3>1. gangLog' = [i \in DOMAIN gangLog |-> gangLog'[i]]  BY <2>2
    <3>2. \A i \in DOMAIN gangLog :
             IF gangLog[i].open = q
             THEN gangLog'[i] \in Entries /\ gangLog'[i].open = Nowhere
                    /\ gangLog'[i].who \in {gangLog[i].who, Nowhere}
             ELSE gangLog'[i] = gangLog[i]
      BY <2>2, <2>4
    <3> QED BY <1>x, <2>1, <2>2, <2>3, <3>1, <3>2
  <2>7. PICK m \in DOMAIN gangLog : gangLog[m].open = q  BY <1>0, <2>1 DEF Written
  <2>8. OpenEntry(m)  BY <1>0, <1>g, <2>7 DEF OpenEntries
  <2>9. /\ gangLog[m].gang = portal[q].gang /\ gangLog[m].action = portal[q].action
        /\ gangLog[m].who = who /\ gangLog[m].rank = portal[q].rank
        /\ \A j \in m + 1..Len(gangLog) : gangLog[j].who # who
    BY <2>1, <2>7, <2>8 DEF OpenEntry
  <2>10. ASSUME NEW i \in DOMAIN gangLog, gangLog[i].open = q PROVE i = m
    <3>1. OpenEntry(i)  BY <1>0, <1>g, <2>10 DEF OpenEntries
    <3>2. gangLog[i].who = who
            /\ \A j \in i + 1..Len(gangLog) : gangLog[j].who # who  BY <2>1, <2>10, <3>1 DEF OpenEntry
    <3>3. i < m => m \in i + 1..Len(gangLog)  BY <1>z
    <3>4. m < i => i \in m + 1..Len(gangLog)  BY <1>z
    <3>5. ~(i < m) /\ ~(m < i)  BY <2>9, <3>2, <3>3, <3>4
    <3> QED BY <1>z, <3>5
  <2>11. \A i \in DOMAIN gangLog : i # m => gangLog'[i] = gangLog[i]  BY <2>2, <2>10
  <2>12. gangLog'[m] = shut[m]  BY <2>2, <2>7
  <2>13. PICK e \in Entries : e = gangLog'[m]  BY <2>4, <2>12
  <2>14. e.who = who /\ e.open = Nowhere /\ e.gang = portal[q].gang /\ e.action = portal[q].action
           /\ e.rank = portal[q].rank
    BY <2>4, <2>9, <2>12, <2>13
  <2>15. ASSUME NEW p \in Gangsters PROVE \E k : Story(k, gangLog', p)
                  /\ k[Len(gangLog')] = gangMembers'[p]
    <3>1. PICK h : Story(h, gangLog, p) /\ h[Len(gangLog)] = gangMembers[p]  BY <1>0 DEF Replays
    <3>2. PICK lg : lg = gangLog'  OBVIOUS
    <3>3. Len(lg) = Len(gangLog) /\ m \in 1..Len(gangLog)
            /\ \A i \in 1..Len(gangLog) \ {m} : lg[i] = gangLog[i]
      BY <1>z, <2>6, <2>11, <3>2
    <3>4. CASE p = who
      <4>1. Silent(gangLog, m, p)
        <5>1. ASSUME NEW i \in m..Len(gangLog), NEW row PROVE Reads(row, gangLog[i], p) = row
          <6>1. gangLog[i].who # p \/ gangLog[i].open # Nowhere  BY <1>g, <1>z, <2>7, <2>9, <3>4
          <6> QED BY <6>1 DEF Reads
        <5> QED BY <5>1 DEF Silent
      <4>2. \E k : Story(k, lg, p) /\ k[Len(gangLog)] = Reads(h[Len(gangLog)], lg[m], p)
        <5>1. SameBut(m, gangLog, lg)  BY <3>3 DEF SameBut
        <5>2. m \in 1..Len(gangLog) /\ Len(gangLog) \in Nat  BY <1>z, <3>3
        <5> QED BY <3>1, <4>1, <5>1, <5>2, StoryEnds
      <4>3. Reads(h[Len(gangLog)], lg[m], p) = After(gangMembers[p], e)  BY <2>13, <2>14, <3>1, <3>2,
              <3>4 DEF Reads
      <4>4. After(gangMembers[p], e) = After(gangMembers[p], portal[q])  BY <2>14 DEF After
      <4> QED BY <2>3, <2>6, <3>2, <3>4, <4>2, <4>3, <4>4
    <3>5. CASE p # who
      <4>1. ASSUME NEW i \in 1..Len(gangLog),
                     NEW row PROVE Reads(row, lg[i], p) = Reads(row, gangLog[i], p)
        <5>1. CASE i = m  BY <2>9, <2>13, <2>14, <3>2, <3>5, <5>1 DEF Reads
        <5>2. CASE i # m  BY <3>3, <5>2
        <5> QED BY <5>1, <5>2
      <4>2. Story(h, lg, p)  BY <1>z, <3>1, <3>3, <4>1, StorySame
      <4> QED BY <2>3, <2>6, <3>1, <3>2, <3>5, <4>2
    <3> QED BY <3>4, <3>5
  <2> QED BY <1>n, <2>6, <2>15 DEF Replays
<1>5. ASSUME NEW q \in Portals, DeedFails(q) PROVE GangsInv'
  <2>0. PICK shut : shut = [i \in DOMAIN gangLog |-> Void]  OBVIOUS
  <2>1. /\ portal[q] # NoDeed /\ portal' = [portal EXCEPT ![q] = NoDeed] /\ UNCHANGED gangMembers
        /\ gangLog' = [i \in DOMAIN gangLog |-> IF gangLog[i].open = q THEN shut[i] ELSE gangLog[i]]
    BY <1>5, <2>0 DEF DeedFails
  <2>2. Void \in Entries /\ Void.open = Nowhere /\ Void.who = Nowhere  BY DEF Void, Entries
  <2>3. \A i \in DOMAIN gangLog : shut[i] \in Entries /\ shut[i].open = Nowhere
          /\ shut[i].who = Nowhere  BY <2>0, <2>2
  <2>4. DOMAIN gangMembers' = Gangsters  BY <1>0, <2>1 DEF GangTypes
  <2>5. GangTypes' /\ OneHolder' /\ OpenEntries' /\ Written' /\ Len(gangLog') = Len(gangLog)
    <3>1. gangLog' = [i \in DOMAIN gangLog |-> gangLog'[i]]  BY <2>1
    <3>2. \A i \in DOMAIN gangLog :
             IF gangLog[i].open = q
             THEN gangLog'[i] \in Entries /\ gangLog'[i].open = Nowhere
                    /\ gangLog'[i].who \in {gangLog[i].who, Nowhere}
             ELSE gangLog'[i] = gangLog[i]
      BY <2>1, <2>3
    <3> QED BY <1>x, <2>1, <2>4, <3>1, <3>2
  <2>6. ASSUME NEW p \in Gangsters PROVE \E k : Story(k, gangLog', p)
                 /\ k[Len(gangLog')] = gangMembers'[p]
    <3>1. PICK h : Story(h, gangLog, p) /\ h[Len(gangLog)] = gangMembers[p]  BY <1>0 DEF Replays
    <3>2. PICK lg : lg = gangLog'  OBVIOUS
    <3>3. ASSUME NEW i \in 1..Len(gangLog),
                   NEW row PROVE Reads(row, lg[i], p) = Reads(row, gangLog[i], p)
      <4>1. CASE gangLog[i].open = q
        <5>1. lg[i] = Void  BY <1>z, <2>0, <2>1, <3>2, <4>1
        <5>2. Reads(row, Void, p) = row  BY <1>g, <2>2 DEF Reads
        <5>3. Reads(row, gangLog[i], p) = row  BY <1>g, <4>1 DEF Reads
        <5> QED BY <5>1, <5>2, <5>3
      <4>2. CASE gangLog[i].open # q  BY <1>z, <2>1, <3>2, <4>2
      <4> QED BY <4>1, <4>2
    <3>4. Story(h, lg, p)  BY <1>z, <2>5, <3>1, <3>2, <3>3, StorySame
    <3> QED BY <2>1, <2>5, <3>1, <3>2, <3>4
  <2> QED BY <1>n, <2>5, <2>6 DEF Replays
<1>6. CASE UNCHANGED gangVars
  <2>1. UNCHANGED <<gangMembers, gangLog, portal>>  BY <1>6 DEF gangVars
  <2> QED BY <1>0, <1>n, <2>1
        DEF GangTypes, OneHolder, OpenEntries, OpenEntry, Written, Replays, HoldsPortal
<1>7. CASE GangsNext
  <2>1. PICK q \in Portals :
          \/ \E leader, who \in Gangsters :
                \/ InviteToGang(q, leader, NameOf[who]) \/ RemoveFromGang(q, leader, who)
                \/ \E rank \in {"member", "officer"} : SetGangRank(q, leader, who, rank)
          \/ ChangeRow(q) \/ InsertLog(q) \/ CommitDeed(q) \/ DeedFails(q)
    BY <1>7 DEF GangsNext
  <2>2. ASSUME NEW leader \in Gangsters, NEW who \in Gangsters,
               \/ InviteToGang(q, leader, NameOf[who]) \/ RemoveFromGang(q, leader, who)
               \/ \E rank \in {"member", "officer"} : SetGangRank(q, leader, who, rank)
        PROVE  GangsInv'
    <3>1. CASE InviteToGang(q, leader, NameOf[who])
      <4>1. PICK x \in Called(NameOf[who]) : Lead(q, "member_added", leader, x, "member")  BY <3>1
              DEF InviteToGang
      <4>2. x \in Gangsters  BY DEF Called
      <4> QED BY <1>1, <4>1, <4>2 DEF Deeds
    <3>2. CASE RemoveFromGang(q, leader, who)  BY <1>1, <3>2 DEF RemoveFromGang, Deeds
    <3>3. ASSUME NEW rank \in {"member", "officer"}, SetGangRank(q, leader, who, rank) PROVE GangsInv'
      BY <1>1, <3>3 DEF SetGangRank, Deeds
    <3> QED BY <2>2, <3>1, <3>2, <3>3
  <2> QED BY <1>2, <1>3, <1>4, <1>5, <2>1, <2>2
<1> QED BY <1>6, <1>7

-------------------------------------------------------------------------------
(* Steam profiles: new bans are flagged.                                     *)

Notes == [who : Profiles, count : Nat]
Counts == Nat \cup {Unknown}
PartialCounts == UNION {[S -> Nat] : S \in SUBSET Profiles}
Passes == [at : {"read", "write", "flag"}, todo : Seq(Profiles) \ {<<>>},
           bans : PartialCounts, before : Counts]

SteamTypes ==
    /\ banned \in [Profiles -> Nat] /\ known \in [Profiles -> Counts]
    /\ stale \subseteq Profiles
    /\ refresh \in [Refreshers -> Passes \cup {Done}]
    /\ flagged \in Seq(Notes) /\ firsts \subseteq Notes /\ missed \subseteq Notes
    /\ \A r \in Refreshers : refresh[r].at = "flag" => Head(refresh[r].todo) \in DOMAIN refresh[r].bans

Announced == ToSet(flagged) \cup firsts \cup About \cup missed
Covered(a, n) == \E f \in Announced : f.who = a /\ f.count >= n

\* What a refresh compares with is covered too: a count that is not above it needs no flag.
SteamInv ==
    /\ SteamTypes /\ UntoldOnlyIfLost
    /\ \A r \in Refreshers :
          refresh[r].at = "write"
            /\ refresh[r].before # Unknown => Covered(Head(refresh[r].todo), refresh[r].before)

LEMMA HeadOfTodo ==
    ASSUME NEW q \in Passes
    PROVE  /\ Head(q.todo) \in Profiles
           /\ Len(q.todo) # 1 => Tail(q.todo) \in Seq(Profiles) \ {<<>>}
<1>1. q.todo \in Seq(Profiles) /\ q.todo # <<>>  BY DEF Passes
<1>2. Len(q.todo) \in Nat \ {0}  BY <1>1, EmptySeq, LenProperties
<1>3. Head(q.todo) \in Profiles  BY <1>1, HeadTailProperties
<1>4. Tail(q.todo) \in Seq(Profiles) /\ Len(Tail(q.todo)) = Len(q.todo) - 1  BY <1>1, HeadTailProperties
<1>5. Len(<<>>) = 0  OBVIOUS
<1>6. Len(q.todo) # 1 => Len(Tail(q.todo)) # 0  BY <1>2, <1>4
<1>7. Len(q.todo) # 1 => Tail(q.todo) # <<>>  BY <1>5, <1>6
<1> QED BY <1>3, <1>4, <1>7

LEMMA Appended ==
    ASSUME NEW S, NEW s \in Seq(S), NEW e \in S
    PROVE  Append(s, e) \in Seq(S) /\ ToSet(Append(s, e)) = ToSet(s) \cup {e}
<1>1. Append(s, e) \in Seq(S) /\ Len(s) \in Nat /\ Len(Append(s, e)) = Len(s) + 1
  BY AppendProperties, LenProperties
<1>2. DOMAIN s = 1 .. Len(s) /\ DOMAIN Append(s, e) = 1 .. Len(s) + 1
  BY <1>1, LenProperties
<1>3. \A i \in 1 .. Len(s) : Append(s, e)[i] = s[i]  BY AppendProperties
<1>4. Append(s, e)[Len(s) + 1] = e  BY AppendProperties
<1>5. \A i : i \in 1 .. Len(s) + 1 <=> i \in 1 .. Len(s) \/ i = Len(s) + 1  BY <1>1
<1> QED BY <1>1, <1>2, <1>3, <1>4, <1>5 DEF ToSet

LEMMA FlagIsNote ==
    ASSUME SteamTypes, NEW r \in Refreshers, refresh[r].at = "flag"
    PROVE  Flag(r) \in Notes
<1>1. refresh[r] \in Passes  BY DEF SteamTypes, Done
<1>2. Head(refresh[r].todo) \in Profiles  BY <1>1, HeadOfTodo
<1>3. Head(refresh[r].todo) \in DOMAIN refresh[r].bans  BY DEF SteamTypes
<1>4. refresh[r].bans \in PartialCounts  BY <1>1 DEF Passes
<1>5. PICK S \in SUBSET Profiles : refresh[r].bans \in [S -> Nat]  BY <1>4 DEF PartialCounts
<1>6. refresh[r].bans[Head(refresh[r].todo)] \in Nat  BY <1>3, <1>5
<1> QED BY <1>2, <1>6 DEF Flag, Notes

\* The passes a sweep may make are of one player or more.
LEMMA SweepTodo ==
    ASSUME NEW S \in SUBSET Profiles, S # {}, NEW ids \in SetToSeqs(S)
    PROVE  SubSeq(ids, 1, IF Len(ids) > maxIDsPerCall THEN maxIDsPerCall ELSE Len(ids))
              \in Seq(Profiles) \ {<<>>}
<1>1. Cardinality(S) \in Nat \ {0}
  BY SteamAssumption, FS_Subset, FS_CardinalityType, FS_EmptySet
<1>2. ids \in [1 .. Cardinality(S) -> S]  BY DEF SetToSeqs
<1>3. ids \in Seq(Profiles) /\ Len(ids) = Cardinality(S)
  BY <1>1, <1>2
<1> QED BY <1>1, <1>3, SteamAssumption

-----------------------------------------------------------------------------
LEMMA SteamStart == SteamInit => SteamInv
<1> SUFFICES ASSUME SteamInit PROVE SteamInv  OBVIOUS
<1>1. SteamTypes  BY DEF SteamInit, SteamTypes, Counts, Done
<1>2. \A r \in Refreshers : refresh[r].at # "write"  BY DEF SteamInit, Done
<1> QED BY <1>1, <1>2 DEF SteamInit, SteamInv, UntoldOnlyIfLost

\* The announcements only grow: of each step but for the passes it takes nothing away.
LEMMA StillCovered ==
    ASSUME NEW a, NEW n, Announced \subseteq Announced', Covered(a, n)
    PROVE  Covered(a, n)'
BY DEF Covered

LEMMA KnownCovered ==
    UntoldOnlyIfLost <=> \A a \in Profiles : known[a] # Unknown => Covered(a, known[a])
BY DEF UntoldOnlyIfLost, Tells, Covered, Announced

\* One pass goes on: the others, and what they are about to flag, stay.
LEMMA AboutOthers ==
    ASSUME NEW r \in Refreshers, SteamTypes,
           refresh' = [refresh EXCEPT ![r] = refresh'[r]]
    PROVE  /\ \A f \in About : f \in About' \/ (f = Flag(r) /\ refresh[r].at = "flag")
           /\ refresh'[r].at = "flag" => Flag(r)' \in About'
           /\ \A q \in Refreshers \ {r} : refresh'[q] = refresh[q]
<1>1. \A q \in Refreshers \ {r} : refresh'[q] = refresh[q]  BY DEF SteamTypes
<1>2. \A q \in Refreshers \ {r} : Flag(q)' = Flag(q)  BY <1>1 DEF Flag
<1> QED BY <1>1, <1>2 DEF About

LEMMA SteamKeeps ==
    ASSUME SteamInv, [SteamNext]_steamVars
    PROVE  SteamInv'
<1> USE DEF Counts
<1>0. SteamTypes /\ \A a \in Profiles : known[a] # Unknown => Covered(a, known[a])
  BY KnownCovered DEF SteamInv
<1>k. ASSUME SteamTypes', Announced \subseteq Announced',
             \A a \in Profiles : known'[a] # known[a] /\ known'[a] # Unknown => Covered(a, known[a])',
             \A r \in Refreshers : refresh'[r].at = "write" /\ refresh'[r].before # Unknown =>
                \/ refresh'[r] = refresh[r]
                \/ Covered(Head(refresh[r].todo), refresh[r].before)'
      PROVE  SteamInv'
  <2>1. UntoldOnlyIfLost'
    <3> SUFFICES ASSUME NEW a \in Profiles, known'[a] # Unknown
                 PROVE  Covered(a, known[a])'
      BY DEF UntoldOnlyIfLost, Tells, Covered, Announced
    <3>1. CASE known'[a] = known[a]
      <4>1. Covered(a, known[a])  BY <1>0, <3>1
      <4>2. PICK n : n = known[a]  OBVIOUS
      <4>3. Covered(a, n)'  BY <4>1, <4>2, <1>k, StillCovered
      <4> QED BY <4>2, <4>3, <3>1 DEF Covered
    <3> QED BY <3>1, <1>k
  <2>2. ASSUME NEW r \in Refreshers, refresh'[r].at = "write", refresh'[r].before # Unknown
        PROVE  Covered(Head(refresh[r].todo), refresh[r].before)'
    <3>1. CASE refresh'[r] = refresh[r]
      <4>1. Covered(Head(refresh[r].todo), refresh[r].before)  BY <2>2, <3>1 DEF SteamInv
      <4>2. PICK n, a : n = refresh[r].before /\ a = Head(refresh[r].todo)  OBVIOUS
      <4>3. Covered(a, n)'  BY <4>1, <4>2, <1>k, StillCovered
      <4> QED BY <4>2, <4>3, <3>1 DEF Covered
    <3> QED BY <3>1, <2>2, <1>k
  <2> QED BY <1>k, <2>1, <2>2 DEF SteamInv
<1>s. ASSUME UNCHANGED <<known, refresh, flagged, firsts, missed>>, SteamTypes'
      PROVE  SteamInv'
  <2>1. Announced' = Announced  BY <1>s DEF Announced, About, Flag
  <2> QED BY <1>s, <1>k, <2>1
\* One pass takes its next step.
<1>r. ASSUME NEW r \in Refreshers, refresh' = [refresh EXCEPT ![r] = refresh'[r]],
             refresh'[r] \in Passes \cup {Done}
      PROVE  refresh' \in [Refreshers -> Passes \cup {Done}]
  BY <1>0, <1>r DEF SteamTypes
<1>d. Done.at = "idle"  BY DEF Done
<1>p. ASSUME NEW r \in Refreshers, refresh[r].at # "idle"
      PROVE  /\ refresh[r] \in Passes /\ Head(refresh[r].todo) \in Profiles
             /\ refresh[r].at = "write" => 
                    [refresh[r] EXCEPT !.at = "flag"] \in Passes
  BY <1>0, <1>d, <1>p, HeadOfTodo DEF SteamTypes, Passes
<1>n. ASSUME NEW r \in Refreshers, refresh[r].at # "idle", NextPlayer(r)
      PROVE  /\ refresh' = [refresh EXCEPT ![r] = refresh'[r]]
             /\ refresh'[r] \in Passes \cup {Done}
             /\ refresh'[r].at \in {"read", "idle"}
  <2>1. refresh[r] \in Passes  BY <1>n, <1>p
  <2>2. Len(refresh[r].todo) # 1 => Tail(refresh[r].todo) \in Seq(Profiles) \ {<<>>}
    BY <2>1, HeadOfTodo
  <2>3. DOMAIN refresh = Refreshers  BY <1>0 DEF SteamTypes
  <2>4. refresh'[r] = IF Len(refresh[r].todo) = 1 THEN Done
        ELSE [refresh[r] EXCEPT !.at = "read", !.todo = Tail(refresh[r].todo)]
    BY <1>n, <2>3 DEF NextPlayer
  <2>5. refresh' = [refresh EXCEPT ![r] = refresh'[r]]
    BY <1>n, <2>4 DEF NextPlayer
  <2>6. Len(refresh[r].todo) # 1
          => [refresh[r] EXCEPT !.at = "read", !.todo = Tail(refresh[r].todo)] \in Passes
    BY <2>1, <2>2 DEF Passes
  <2>7. [refresh[r] EXCEPT !.at = "read", !.todo = Tail(refresh[r].todo)].at = "read"
    BY <2>1 DEF Passes
  <2> QED BY <2>4, <2>5, <2>6, <2>7, <1>d
<1>1. ASSUME NEW a \in Profiles, SteamBans(a) \/ SteamRelents(a) \/ DayPasses(a)
      PROVE  SteamInv'
  <2>1. SteamTypes'  BY <1>0, <1>1 DEF SteamTypes, SteamBans, SteamRelents, DayPasses
  <2> QED BY <1>1, <1>s, <2>1 DEF SteamBans, SteamRelents, DayPasses
<1>2. ASSUME NEW r \in Refreshers, NEW ids \in Seq(Profiles) \ {<<>>}, Fetch(r, ids)
      PROVE  SteamInv'
  <2>1. PICK answered \in SUBSET ToSet(ids) :
           refresh' = [refresh EXCEPT ![r] = [at |-> "read", todo |-> ids,
                          bans |-> [a \in answered |-> banned[a]], before |-> Unknown]]
    BY <1>2 DEF Fetch
  <2>2. answered \in SUBSET Profiles  BY DEF ToSet
  <2>3. [a \in answered |-> banned[a]] \in PartialCounts
    BY <1>0, <2>2 DEF PartialCounts, SteamTypes
  <2>4. refresh'[r] = [at |-> "read", todo |-> ids,
                          bans |-> [a \in answered |-> banned[a]], before |-> Unknown]
    BY <2>1, <1>0 DEF SteamTypes
  <2>5. refresh'[r] \in Passes /\ refresh'[r].at = "read"  BY <2>3, <2>4 DEF Passes
  <2>6. refresh' = [refresh EXCEPT ![r] = refresh'[r]]  BY <2>1, <2>4
  <2>7. refresh[r].at = "idle"  BY <1>2, <1>d DEF Fetch
  <2>8. \A q \in Refreshers \ {r} : refresh'[q] = refresh[q]  BY <2>6, AboutOthers, <1>0
  <2>9. SteamTypes'
    <3>1. refresh' \in [Refreshers -> Passes \cup {Done}]  BY <2>5, <2>6, <1>r
    <3> QED BY <1>0, <1>2, <2>5, <2>8, <3>1 DEF SteamTypes, Fetch
  <2>10. About \subseteq About'  BY <2>6, <2>7, <1>0, AboutOthers
  <2>11. Announced \subseteq Announced'  BY <1>2, <2>10 DEF Announced, Fetch
  <2> QED BY <1>2, <1>k, <2>5, <2>8, <2>9, <2>11 DEF Fetch
<1>3. ASSUME NEW r \in Refreshers, ReadKnown(r)
      PROVE  SteamInv'
  <2>1. refresh[r] \in Passes /\ refresh[r].at = "read" /\ Head(refresh[r].todo) \in Profiles
    BY <1>3, <1>p DEF ReadKnown
  <2>2. refresh'[r] = [refresh[r] EXCEPT !.at = "write", !.before = known[Head(refresh[r].todo)]]
    BY <1>3, <1>0 DEF ReadKnown, SteamTypes
  <2>3. refresh' = [refresh EXCEPT ![r] = refresh'[r]]  BY <1>3, <1>0 DEF ReadKnown, SteamTypes
  <2>4. known[Head(refresh[r].todo)] \in Counts  BY <1>0, <2>1 DEF SteamTypes
  <2>5. /\ refresh'[r] \in Passes /\ refresh'[r].at = "write" /\ refresh'[r].todo = refresh[r].todo
        /\ refresh'[r].before = known[Head(refresh[r].todo)]
    BY <2>1, <2>2, <2>4 DEF Passes
  <2>6. \A q \in Refreshers \ {r} : refresh'[q] = refresh[q]  BY <2>3, AboutOthers, <1>0
  <2>7. SteamTypes'
    <3>1. refresh' \in [Refreshers -> Passes \cup {Done}]  BY <2>5, <2>3, <1>r
    <3> QED BY <1>0, <1>3, <2>5, <2>6, <3>1 DEF SteamTypes, ReadKnown
  <2>8. About \subseteq About'  BY <2>1, <2>3, <1>0, AboutOthers
  <2>9. Announced \subseteq Announced'  BY <1>3, <2>8 DEF Announced, ReadKnown
  <2>10. refresh'[r].before # Unknown => Covered(Head(refresh[r].todo), refresh[r].before)'
    <3> SUFFICES ASSUME refresh'[r].before # Unknown
                 PROVE  Covered(Head(refresh[r].todo), refresh[r].before)'
      OBVIOUS
    <3>1. PICK a, n : a \in Profiles /\ a = Head(refresh[r].todo) /\ n = known[a]  BY <2>1
    <3>2. Covered(a, n)  BY <1>0, <3>1, <2>5
    <3>3. Covered(a, n)'  BY <3>2, <2>9, StillCovered
    <3> QED BY <3>1, <3>3, <2>5 DEF Covered
  <2> QED BY <1>3, <1>k, <2>6, <2>7, <2>9, <2>10 DEF ReadKnown
<1>4. ASSUME NEW r \in Refreshers, WriteFails(r) \/ InsertFlag(r) \/ FlagFails(r)
      PROVE  SteamInv'
  <2>1. refresh[r].at # "idle" /\ NextPlayer(r)  BY <1>4 DEF WriteFails, InsertFlag, FlagFails
  <2>2. /\ refresh' = [refresh EXCEPT ![r] = refresh'[r]] /\ refresh'[r] \in Passes \cup {Done}
        /\ refresh'[r].at \in {"read", "idle"}
    BY <2>1, <1>n
  <2>3. \A q \in Refreshers \ {r} : refresh'[q] = refresh[q]  BY <2>2, AboutOthers, <1>0
  <2>4. refresh[r].at = "flag" => Flag(r) \in Notes  BY <1>0, FlagIsNote
  <2>5. /\ flagged' \in Seq(Notes) /\ missed' \subseteq Notes
        /\ ToSet(flagged) \cup missed \subseteq ToSet(flagged') \cup missed'
        /\ refresh[r].at = "flag" => Flag(r) \in ToSet(flagged') \cup missed'
    <3>1. flagged \in Seq(Notes) /\ missed \subseteq Notes  BY <1>0 DEF SteamTypes
    <3>2. CASE WriteFails(r)  BY <3>1, <3>2 DEF WriteFails
    <3>3. CASE InsertFlag(r)
      <4>1. flagged' = Append(flagged, Flag(r)) /\ missed' = missed /\ Flag(r) \in Notes
        BY <2>4, <3>3 DEF InsertFlag
      <4>2. flagged' \in Seq(Notes) /\ ToSet(flagged') = ToSet(flagged) \cup {Flag(r)}
        BY <3>1, <4>1, Appended
      <4> QED BY <3>1, <4>1, <4>2
    <3>4. CASE FlagFails(r)  BY <2>4, <3>1, <3>4 DEF FlagFails
    <3> QED BY <1>4, <3>2, <3>3, <3>4
  <2>6. SteamTypes'
    <3>1. refresh' \in [Refreshers -> Passes \cup {Done}]  BY <2>2, <1>r
    <3> QED BY <1>0, <1>4, <2>2, <2>3, <2>5, <3>1 DEF SteamTypes, WriteFails, InsertFlag, FlagFails
  <2>7. Announced \subseteq Announced'
    <3>1. \A f \in About : f \in About' \/ f \in ToSet(flagged') \cup missed'
      BY <2>2, <2>5, <1>0, AboutOthers
    <3>2. firsts' = firsts  BY <1>4 DEF WriteFails, InsertFlag, FlagFails
    <3> QED BY <3>1, <3>2, <2>5 DEF Announced
  <2>8. known' = known  BY <1>4 DEF WriteFails, InsertFlag, FlagFails
  <2> QED BY <1>k, <2>2, <2>3, <2>6, <2>7, <2>8
<1>5. ASSUME NEW r \in Refreshers, WriteKnown(r)
      PROVE  SteamInv'
  <2> DEFINE a == Head(refresh[r].todo)
  <2>1. /\ refresh[r] \in Passes /\ refresh[r].at = "write" /\ a \in Profiles
        /\ [refresh[r] EXCEPT !.at = "flag"] \in Passes
    BY <1>5, <1>p DEF WriteKnown
  <2>2. CASE a \in DOMAIN refresh[r].bans
    <3>1. PICK n \in Nat : n = refresh[r].bans[a]  BY <2>1, <2>2 DEF Passes, PartialCounts
    <3>2. known' = [known EXCEPT ![a] = n]  BY <1>5, <2>2, <3>1 DEF WriteKnown
    <3>3. firsts' = IF refresh[r].before = Unknown THEN firsts \cup {[who |-> a, count |-> n]}
            ELSE firsts
      BY <1>5, <2>2, <3>1 DEF WriteKnown
    <3>4. CASE IsNews(r, a)
      <4>1. refresh' = [refresh EXCEPT ![r].at = "flag"]  BY <1>5, <2>2, <3>4 DEF WriteKnown
      <4>2. refresh'[r] = [refresh[r] EXCEPT !.at = "flag"]
              /\ refresh' = [refresh EXCEPT ![r] = refresh'[r]]
        BY <4>1, <1>0 DEF SteamTypes
      <4>3. /\ refresh'[r] \in Passes /\ refresh'[r].at = "flag" /\ refresh'[r].todo = refresh[r].todo
            /\ refresh'[r].bans = refresh[r].bans
        BY <4>2, <2>1 DEF Passes
      <4>4. /\ \A q \in Refreshers \ {r} : refresh'[q] = refresh[q]
            /\ About \subseteq About' /\ Flag(r)' \in About'
        BY <4>2, <4>3, <2>1, AboutOthers, <1>0
      <4>5. SteamTypes'
        <5>1. refresh' \in [Refreshers -> Passes \cup {Done}]  BY <4>2, <4>3, <1>r
        <5>2. known' \in [Profiles -> Counts]  BY <3>2, <1>0 DEF SteamTypes
        <5>3. [who |-> a, count |-> n] \in Notes  BY <2>1, <3>1 DEF Notes
        <5>4. firsts' \subseteq Notes  BY <3>3, <5>3, <1>0 DEF SteamTypes
        <5> HIDE DEF a
        <5>5. UNCHANGED <<banned, flagged, missed>> /\ stale' \subseteq Profiles
          BY <1>5, <1>0 DEF WriteKnown, SteamTypes
        <5>6. \A q \in Refreshers : refresh'[q].at = "flag"
                => Head(refresh'[q].todo) \in DOMAIN refresh'[q].bans
          BY <4>3, <4>4, <2>2, <1>0 DEF SteamTypes, a
        <5> QED BY <5>1, <5>2, <5>4, <5>5, <5>6, <1>0 DEF SteamTypes
      <4>6. Announced \subseteq Announced'  BY <4>4, <3>3, <1>5 DEF Announced, WriteKnown
      <4>7. Flag(r)' = [who |-> a, count |-> n]  BY <4>3, <3>1 DEF Flag
      <4>8. known'[a] = n /\ \A b \in Profiles : b # a => known'[b] = known[b]
        BY <3>2, <2>1, <1>0 DEF SteamTypes
      <4>9. Covered(a, n)'
        <5>1. [who |-> a, count |-> n] \in Announced'  BY <4>4, <4>7 DEF Announced
        <5>2. PICK f \in Announced' : f = [who |-> a, count |-> n]  BY <5>1
        <5>3. f.who = a /\ f.count >= n  BY <5>2, <3>1
        <5>4. PICK b : b = a  OBVIOUS
        <5>5. Covered(b, n)'  BY <5>3, <5>4 DEF Covered
        <5> QED BY <4>3, <5>4, <5>5
      <4>10. \A b \in Profiles : known'[b] # known[b] => Covered(b, known[b])'
        BY <4>3, <4>8, <4>9 DEF Covered
      <4> QED BY <1>k, <4>3, <4>4, <4>5, <4>6, <4>10
    <3>5. CASE ~IsNews(r, a)
      <4>0. NextPlayer(r)  BY <1>5, <2>2, <3>5 DEF WriteKnown
      <4>1. /\ refresh' = [refresh EXCEPT ![r] = refresh'[r]] /\ refresh'[r] \in Passes \cup {Done}
            /\ refresh'[r].at \in {"read", "idle"}
        BY <4>0, <2>1, <1>n
      <4>2. /\ \A q \in Refreshers \ {r} : refresh'[q] = refresh[q]
            /\ About \subseteq About'
        BY <4>1, <2>1, AboutOthers, <1>0
      <4>3. [who |-> a, count |-> n] \in Notes  BY <2>1, <3>1 DEF Notes
      <4>4. SteamTypes'
        <5>1. refresh' \in [Refreshers -> Passes \cup {Done}]  BY <4>1, <1>r
        <5>2. known' \in [Profiles -> Counts]  BY <3>2, <1>0 DEF SteamTypes
        <5>3. firsts' \subseteq Notes  BY <3>3, <4>3, <1>0 DEF SteamTypes
        <5> HIDE DEF a
        <5>4. UNCHANGED <<banned, flagged, missed>> /\ stale' \subseteq Profiles
          BY <1>5, <1>0 DEF WriteKnown, SteamTypes
        <5> QED BY <5>1, <5>2, <5>3, <5>4, <4>1, <4>2, <1>0 DEF SteamTypes
      <4>5. Announced \subseteq Announced'  BY <4>2, <3>3, <1>5 DEF Announced, WriteKnown
      <4>6. known'[a] = n /\ \A b \in Profiles : b # a => known'[b] = known[b]
        BY <3>2, <2>1, <1>0 DEF SteamTypes
      <4>7. \E f \in Announced' : f.who = a /\ f.count >= n
        <5>1. CASE refresh[r].before = Unknown
          <6>1. PICK f : f = [who |-> a, count |-> n]  OBVIOUS
          <6>2. f \in firsts'  BY <6>1, <5>1, <3>3
          <6> QED BY <6>1, <6>2, <3>1 DEF Announced
        <5>2. CASE refresh[r].before # Unknown
          <6>1. Covered(a, refresh[r].before)  BY <5>2, <2>1 DEF SteamInv
          <6>2. PICK f \in Announced : f.who = a /\ f.count >= refresh[r].before  BY <6>1 DEF Covered
          <6>3. refresh[r].before \in Nat /\ n <= refresh[r].before
            <7>1. refresh[r].before \in Nat  BY <5>2, <2>1 DEF Passes
            <7> QED BY <7>1, <5>2, <3>1, <3>5 DEF IsNews
          <6>4. f \in Notes
            <7>1. ToSet(flagged) \subseteq Notes  BY <1>0 DEF SteamTypes, ToSet
            <7>2. \A q \in Refreshers : refresh[q].at = "flag" => Flag(q) \in Notes  BY <1>0, FlagIsNote
            <7> QED BY <7>1, <7>2, <6>2, <1>0 DEF SteamTypes, Announced, About
          <6>5. f.count \in Nat  BY <6>4 DEF Notes
          <6>6. f \in Announced'  BY <6>2, <4>5
          <6> QED BY <6>2, <6>3, <6>5, <6>6, <3>1
        <5> QED BY <5>1, <5>2
      <4>8. \A b \in Profiles : known'[b] # known[b] => Covered(b, known[b])'
        <5> SUFFICES ASSUME NEW b \in Profiles,
                              known'[b] # known[b] PROVE Covered(b, known[b])'  OBVIOUS
        <5>1. b = a /\ known'[b] = n  BY <4>6
        <5>2. \E f \in Announced' : f.who = b /\ f.count >= known'[b]  BY <4>7, <5>1
        <5> QED BY <5>2 DEF Covered
      <4> QED BY <1>k, <4>1, <4>2, <4>4, <4>5, <4>8
    <3> QED BY <3>4, <3>5
  <2>3. CASE a \notin DOMAIN refresh[r].bans
    <3>0. NextPlayer(r) /\ UNCHANGED <<known, firsts>>  BY <1>5, <2>3 DEF WriteKnown
    <3>1. /\ refresh' = [refresh EXCEPT ![r] = refresh'[r]] /\ refresh'[r] \in Passes \cup {Done}
          /\ refresh'[r].at \in {"read", "idle"}
      BY <3>0, <2>1, <1>n
    <3>2. /\ \A q \in Refreshers \ {r} : refresh'[q] = refresh[q]
          /\ About \subseteq About'
      BY <3>1, <2>1, AboutOthers, <1>0
    <3>3. SteamTypes'
      <4>1. refresh' \in [Refreshers -> Passes \cup {Done}]  BY <3>1, <1>r
      <4> HIDE DEF a
      <4>2. UNCHANGED <<banned, flagged, missed>> /\ stale' \subseteq Profiles
        BY <1>5, <1>0 DEF WriteKnown, SteamTypes
      <4> QED BY <4>1, <4>2, <3>0, <3>1, <3>2, <1>0 DEF SteamTypes
    <3>4. Announced \subseteq Announced'  BY <3>0, <3>2, <1>5 DEF Announced, WriteKnown
    <3> QED BY <1>k, <3>0, <3>1, <3>2, <3>3, <3>4
  <2> QED BY <2>2, <2>3
<1>6. ASSUME WebsiteStops
      PROVE  SteamInv'
  <2>1. refresh' = [r \in Refreshers |-> Done] /\ missed' = missed \cup About
        /\ UNCHANGED <<banned, known, stale, flagged, firsts>>
    BY <1>6 DEF WebsiteStops
  <2>2. \A r \in Refreshers : refresh'[r].at = "idle"  BY <2>1, <1>d
  <2>3. \A q \in Refreshers : refresh[q].at = "flag" => Flag(q) \in Notes  BY <1>0, FlagIsNote
  <2>4. SteamTypes'  BY <2>1, <2>2, <2>3, <1>0 DEF SteamTypes, About
  <2>5. Announced \subseteq Announced'  BY <2>1 DEF Announced
  <2> QED BY <1>k, <2>1, <2>2, <2>4, <2>5
<1>7. ASSUME BackfillGUIDs
      PROVE  SteamInv'
  BY <1>0, <1>7, <1>s DEF BackfillGUIDs, SteamTypes
<1>8. ASSUME UNCHANGED steamVars
      PROVE  SteamInv'
  BY <1>0, <1>8, <1>s DEF steamVars, SteamTypes
<1>9. ASSUME NEW r \in Refreshers, NEW a \in Profiles, RefreshOne(r, a)
      PROVE  SteamInv'
  <2>1. <<a>> \in Seq(Profiles) \ {<<>>}  OBVIOUS
  <2> QED BY <1>9, <1>2, <2>1 DEF RefreshOne
<1>10. ASSUME NEW r \in Refreshers, Sweep(r)
      PROVE  SteamInv'
  <2>1. stale # {} /\ stale \in SUBSET Profiles  BY <1>10, <1>0 DEF Sweep, SteamTypes
  <2>2. PICK ids \in SetToSeqs(stale) :
          Fetch(r, SubSeq(ids, 1, IF Len(ids) > maxIDsPerCall THEN maxIDsPerCall ELSE Len(ids)))
    BY <1>10 DEF Sweep
  <2>3. SubSeq(ids, 1, IF Len(ids) > maxIDsPerCall THEN maxIDsPerCall
          ELSE Len(ids)) \in Seq(Profiles) \ {<<>>}
    BY <2>1, <2>2, SweepTodo
  <2> QED BY <2>2, <2>3, <1>2
<1> QED BY <1>1, <1>3, <1>4, <1>5, <1>6, <1>7, <1>8, <1>9, <1>10 DEF SteamNext

-------------------------------------------------------------------------------
(* The bot's posts: true of what was recorded.                               *)

\* Numbers with a bound have a largest.
LEMMA LargestNumber ==
    ASSUME NEW n \in Nat, NEW T, T \subseteq 1 .. n, T # {}
    PROVE  Max(T) \in T
<1> DEFINE Beyond == {m \in Nat : \A i \in T : i <= m}
<1>1. Beyond \subseteq Nat /\ n \in Beyond  OBVIOUS
<1>2. PICK m \in Beyond : \A k \in Beyond : m <= k  BY <1>1, LeastNumber
<1>3. m \in T
  <2>1. SUFFICES ASSUME m \notin T PROVE FALSE  OBVIOUS
  <2>2. PICK j \in T : TRUE  OBVIOUS
  <2>3. \A i \in T : i \in Nat /\ i >= 1 /\ i <= m  BY <1>2
  <2>4. \A i \in T : i <= m - 1  BY <2>1, <2>3
  <2>5. m - 1 \in Nat  BY <2>2, <2>3
  <2>6. m - 1 \in Beyond  BY <2>4, <2>5
  <2> QED BY <1>2, <2>6
<1>4. \A i \in T : m >= i  BY <1>2
<1> QED BY <1>3, <1>4 DEF Max

Said == {"up", "down"}
Probes == [component : Keys, ok : BOOLEAN, at : Nat]
CheckTypes ==
    /\ now \in Nat /\ checks \in Seq(Probes) /\ website.todo \in Seq(Keys)

\* What the checks up to the n-th say of a component: the latest, and any of them.
Latest(c, n, is) == Known(c, n) # {} /\ is \in Said /\ checks[Max(Known(c, n))].ok = (is = "up")
Once(c, n, is) == is \in Said /\ \E j \in Known(c, n) : checks[j].ok = (is = "up")

Passing == job[Live].at # "idle"

\* A pass knows the latest checks of when it began; the one before, of no later.
PassInv ==
    Passing =>
        /\ {"at", "seen", "states"} \subseteq DOMAIN job[Live]
        /\ job[Live].seen \in 0 .. Len(checks)
        /\ \A c \in DOMAIN job[Live].states : Latest(c, job[Live].seen, job[Live].states[c])
        /\ \A c \in DOMAIN bot.prev : Once(c, job[Live].seen, bot.prev[c])

NewsInv ==
    /\ \A i \in DOMAIN news :
          /\ news[i].seen \in 0 .. Len(checks)
          /\ Latest(news[i].component, news[i].seen, news[i].is)
          /\ \E is \in Said : is # news[i].is /\ Once(news[i].component, news[i].seen, is)

BulletinInv ==
    /\ CheckTypes
    /\ news \in Seq([component : Keys, seen : Nat, is : Said])
    /\ DOMAIN job = Jobs /\ {"up", "next", "prev", "saw"} \subseteq DOMAIN bot
    /\ DOMAIN website = {"up", "next", "todo", "starts"}
    /\ \A c \in DOMAIN bot.prev : Once(c, Len(checks), bot.prev[c])
    /\ PassInv /\ NewsInv

LEMMA PostsTrue == BulletinInv => PostsAreTrue
<1> SUFFICES ASSUME BulletinInv, NEW i \in DOMAIN news
             PROVE  /\ Known(news[i].component, news[i].seen) # {}
                    /\ checks[Max(Known(news[i].component, news[i].seen))].ok = (news[i].is = "up")
                    /\ \E j \in Known(news[i].component,
                         news[i].seen) : checks[j].ok # (news[i].is = "up")
  BY DEF PostsAreTrue
<1>1. Latest(news[i].component, news[i].seen, news[i].is) /\ news[i].seen \in 0 .. Len(checks)
  BY DEF BulletinInv, NewsInv
<1>2. PICK is \in Said : is # news[i].is /\ Once(news[i].component, news[i].seen, is)
  BY DEF BulletinInv, NewsInv
<1>3. PICK j \in Known(news[i].component, news[i].seen) : checks[j].ok = (is = "up")
  BY <1>2 DEF Once
<1>4. (is = "up") # (news[i].is = "up")  BY <1>1, <1>2 DEF Latest, Said
<1> QED BY <1>1, <1>3, <1>4 DEF Latest

LEMMA BulletinStart == MonitorInit /\ BulletinInit => BulletinInv
<1> SUFFICES ASSUME MonitorInit, BulletinInit PROVE BulletinInv  OBVIOUS
<1>1. CheckTypes /\ DOMAIN website = {"up", "next", "todo", "starts"}
  BY DEF MonitorInit, Started, CheckTypes
<1>2. DOMAIN job = Jobs /\ job[Live].at = "idle" /\ {"up", "next", "prev", "saw"} \subseteq DOMAIN bot
      /\ DOMAIN bot.prev = {}
  BY DEF BulletinInit, Jobs, NoJob, NoPrev
<1>3. news = <<>>  BY DEF BulletinInit
<1> QED BY <1>1, <1>2, <1>3 DEF BulletinInv, PassInv, NewsInv, Passing

-----------------------------------------------------------------------------
\* The checks are only added to: what was known of a component then stays known.
LEMMA KnownKept ==
    ASSUME CheckTypes, CheckTypes', Len(checks') >= Len(checks),
           \A i \in DOMAIN checks : checks'[i] = checks[i],
           NEW c, NEW n \in 0 .. Len(checks)
    PROVE  /\ Known(c, n)' = Known(c, n) /\ Known(c, n) \subseteq DOMAIN checks
           /\ \A is : Latest(c, n, is) => Latest(c, n, is)'
           /\ \A is : Once(c, n, is) => Once(c, n, is)'
<1>1. DOMAIN checks = 1 .. Len(checks) /\ Len(checks) \in Nat  BY DEF CheckTypes
<1>2. \A i \in 1 .. n : i \in DOMAIN checks  BY <1>1
<1>3. Known(c, n)' = Known(c, n) /\ Known(c, n) \subseteq DOMAIN checks  BY <1>2 DEF Known
<1>4. Known(c, n) # {} => Max(Known(c, n)) \in Known(c, n)
  <2>1. n \in Nat /\ Known(c, n) \subseteq 1 .. n  BY <1>1 DEF Known
  <2> QED BY <2>1, LargestNumber
<1>5. ASSUME NEW is, Latest(c, n, is) PROVE Latest(c, n, is)'
  <2>1. checks'[Max(Known(c, n))] = checks[Max(Known(c, n))]  BY <1>3, <1>4, <1>5 DEF Latest
  <2>2. Max(Known(c, n))' = Max(Known(c, n))  BY <1>3
  <2> QED BY <1>3, <1>5, <2>1, <2>2 DEF Latest
<1>6. ASSUME NEW is, Once(c, n, is) PROVE Once(c, n, is)'
  BY <1>3, <1>6 DEF Once
<1> QED BY <1>3, <1>5, <1>6

LEMMA OnceLater ==
    ASSUME CheckTypes, NEW c, NEW is, NEW n \in 0 .. Len(checks), NEW m \in n .. Len(checks),
             Once(c, n, is)
    PROVE  Once(c, m, is)
BY DEF Once, Known, CheckTypes

\* What the status page says of a component that is up or down is its latest check.
LEMMA StateIsLatest ==
    ASSUME CheckTypes, NEW c \in Keys, StateOf(c) \in Said
    PROVE  Latest(c, Len(checks), StateOf(c))
<1>1. Of(c) = Known(c, Len(checks))  BY DEF CheckTypes, Of, Known
<1>2. Of(c) # {}  BY DEF StateOf, Said
<1>3. Max(Of(c)) \in Of(c)
  <2>1. Len(checks) \in Nat /\ Of(c) \subseteq 1 .. Len(checks)  BY DEF Of, CheckTypes
  <2> QED BY <1>2, <2>1, LargestNumber
<1>4. checks[Max(Of(c))].ok \in BOOLEAN
  <2>1. Max(Of(c)) \in DOMAIN checks  BY <1>3 DEF Of
  <2>2. checks[Max(Of(c))] \in Probes  BY <2>1 DEF CheckTypes
  <2> QED BY <2>2 DEF Probes
<1>5. StateOf(c) = IF checks[Max(Of(c))].ok THEN "up" ELSE "down"  BY <1>2 DEF StateOf, Said
<1>6. checks[Max(Of(c))].ok = (StateOf(c) = "up")  BY <1>4, <1>5
<1> QED BY <1>1, <1>2, <1>6 DEF Latest

LEMMA LatestOnce ==
    ASSUME CheckTypes, NEW c, NEW n \in 0 .. Len(checks), NEW is, Latest(c, n, is)
    PROVE  Once(c, n, is)
<1>1. Max(Known(c, n)) \in Known(c, n)
  <2>1. n \in Nat /\ Known(c, n) \subseteq 1 .. n /\ Known(c, n) # {}  BY DEF Latest, CheckTypes, Known
  <2> QED BY <2>1, LargestNumber
<1> QED BY <1>1 DEF Latest, Once

-----------------------------------------------------------------------------
\* What may happen to the checks and the website's process in a step.
MonitorStep ==
    \/ UNCHANGED <<now, checks, website>>
    \/ UNCHANGED <<checks, website>> /\ now' = now + 1 /\ OnTime
    \/ StartPass \/ RecordCheck \/ WebsiteDown \/ WebsiteUp

LEMMA MonitorKeeps ==
    ASSUME CheckTypes, DOMAIN website = {"up", "next", "todo", "starts"}, MonitorStep
    PROVE  /\ CheckTypes' /\ Len(checks') >= Len(checks)
                /\ \A i \in DOMAIN checks : checks'[i] = checks[i]
           /\ DOMAIN website' = {"up", "next", "todo", "starts"}
<1> USE DEF CheckTypes
<1>1. Components \in Seq(Keys)  BY MonitorAssumption DEF Keys
<1>2. CASE UNCHANGED <<checks, website>> /\ (now' = now \/ now' = now + 1)
  BY <1>2
<1>3. CASE StartPass
  <2>1. website'.todo = Components /\ DOMAIN website' = {"up", "next", "todo", "starts"}
          /\ UNCHANGED <<now, checks>>
    BY <1>3 DEF StartPass
  <2> QED BY <1>1, <2>1
<1>4. CASE RecordCheck
  <2>1. website.todo \in Seq(Keys) /\ website.todo # <<>>  BY <1>4 DEF RecordCheck
  <2>2. Head(website.todo) \in Keys /\ Tail(website.todo) \in Seq(Keys)  BY <2>1, HeadTailProperties
  <2>3. website'.todo = Tail(website.todo) /\ DOMAIN website' = {"up", "next", "todo", "starts"}
          /\ now' = now
    BY <1>4 DEF RecordCheck
  <2>4. PICK row : row = [component |-> Head(website.todo), ok |-> Head(website.todo) \in well,
          at |-> now]  OBVIOUS
  <2>5. row \in Probes  BY <2>2, <2>4 DEF Probes
  <2>6. checks' = Append(checks, row) \/ checks' = checks  BY <1>4, <2>4 DEF RecordCheck
  <2>7. checks \in Seq(Probes)  OBVIOUS
  <2>8. checks' \in Seq(Probes) /\ Len(checks') >= Len(checks)
          /\ \A i \in DOMAIN checks : checks'[i] = checks[i]
    <3>1. CASE checks' = checks  BY <2>7, <3>1
    <3>2. CASE checks' = Append(checks, row)
      <4>1. checks' \in Seq(Probes) /\ Len(checks') = Len(checks) + 1
            /\ \A i \in 1 .. Len(checks) : checks'[i] = checks[i]
        BY <2>5, <2>7, <3>2, AppendProperties
      <4>2. Len(checks) \in Nat /\ DOMAIN checks = 1 .. Len(checks)  BY <2>7
      <4> QED BY <4>1, <4>2
    <3> QED BY <2>6, <3>1, <3>2
  <2> QED BY <2>2, <2>3, <2>8
<1>5. CASE WebsiteDown
  <2>1. website'.todo = <<>> /\ DOMAIN website' = {"up", "next", "todo", "starts"}
          /\ UNCHANGED <<now, checks>>
    BY <1>5 DEF WebsiteDown
  <2> QED BY <2>1
<1>6. CASE WebsiteUp
  <2>1. website'.todo = <<>> /\ DOMAIN website' = {"up", "next", "todo", "starts"}
          /\ UNCHANGED <<now, checks>>
    BY <1>6 DEF WebsiteUp, Started
  <2> QED BY <2>1
<1> QED BY <1>2, <1>3, <1>4, <1>5, <1>6 DEF MonitorStep

-----------------------------------------------------------------------------
LEMMA BulletinKeeps ==
    ASSUME BulletinInv, [StatusNext \/ WelcomeNext]_<<monitorVars, bulletinVars>>
    PROVE  BulletinInv'
<1> USE DEF Trouble
<1>0. CheckTypes /\ PassInv /\ NewsInv  BY DEF BulletinInv
<1>1. /\ DOMAIN checks = 1 .. Len(checks) /\ Len(checks) \in Nat
      /\ DOMAIN job = Jobs /\ Live \in Jobs
  BY <1>0 DEF CheckTypes, BulletinInv, Jobs
\* A step that changes nothing but the checks, and of the passes nothing they know.
<1>k. ASSUME CheckTypes', Len(checks') >= Len(checks), \A i \in DOMAIN checks : checks'[i] = checks[i],
             UNCHANGED news, DOMAIN job' = Jobs, {"up", "next", "prev", "saw"} \subseteq DOMAIN bot',
             DOMAIN website' = {"up", "next", "todo", "starts"},
             bot'.prev = bot.prev \/ DOMAIN bot'.prev = {},
             \/ job'[Live].at = "idle"
             \/ /\ Passing
                /\ {"at", "seen", "states"} \subseteq DOMAIN job'[Live]
                /\ job'[Live].seen = job[Live].seen /\ job'[Live].states = job[Live].states
      PROVE  BulletinInv'
  <2>0. \A c : \A n \in 0 .. Len(checks) : \A is :
           /\ Latest(c, n, is) => Latest(c, n, is)' 
           /\ Once(c, n, is) => Once(c, n, is)'
    BY <1>0, <1>k, KnownKept
  <2>1. 0 .. Len(checks) \subseteq 0 .. Len(checks') /\ Len(checks) \in 0 .. Len(checks')
        /\ Len(checks') \in Nat /\ Len(checks) \in 0 .. Len(checks)
             /\ Len(checks') \in Len(checks) .. Len(checks')
    BY <1>k, <1>1 DEF CheckTypes
  <2>2. \A c \in DOMAIN bot'.prev : Once(c, Len(checks), bot.prev[c])' 
    <3> SUFFICES ASSUME NEW c \in DOMAIN bot'.prev PROVE Once(c, Len(checks), bot.prev[c])'
      OBVIOUS
    <3>1. PICK is, n : is = bot.prev[c] /\ n = Len(checks)  OBVIOUS
    <3>2. bot'.prev = bot.prev  BY <1>k
    <3>3. Once(c, n, is)  BY <3>1, <3>2 DEF BulletinInv
    <3>4. Once(c, n, is)'  BY <2>0, <2>1, <3>1, <3>3
    <3>5. PICK m : m = Len(checks')  OBVIOUS
    <3>6. Once(c, m, is)'
      <4>1. n \in Nat /\ m \in Nat /\ n <= m  BY <1>1, <1>k, <2>1, <3>1, <3>5
      <4>2. \A i \in 1 .. n : i \in 1 .. m  BY <4>1
      <4> QED BY <3>4, <4>2 DEF Once, Known
    <3> QED BY <3>1, <3>2, <3>5, <3>6 DEF Once
  <2>3. PassInv'
    <3> SUFFICES ASSUME Passing' PROVE PassInv'  BY DEF PassInv
    <3>1. /\ Passing /\ {"at", "seen", "states"} \subseteq DOMAIN job'[Live]
          /\ job'[Live].seen = job[Live].seen /\ job'[Live].states = job[Live].states
      BY <1>k DEF Passing
    <3>2. PICK n \in 0 .. Len(checks) : n = job[Live].seen  BY <1>0, <3>1 DEF PassInv
    <3>3. ASSUME NEW c \in DOMAIN job'[Live].states
          PROVE  Latest(c, job[Live].seen, job[Live].states[c])'
      <4>1. PICK is : is = job[Live].states[c]  OBVIOUS
      <4>2. Latest(c, n, is)  BY <1>0, <3>1, <3>2, <3>3, <4>1 DEF PassInv
      <4>3. Latest(c, n, is)'  BY <2>0, <4>2
      <4> QED BY <3>1, <3>2, <4>1, <4>3 DEF Latest
    <3>4. ASSUME NEW c \in DOMAIN bot'.prev
          PROVE  Once(c, job[Live].seen, bot.prev[c])'
      <4>1. PICK is : is = bot.prev[c]  OBVIOUS
      <4>2. bot'.prev = bot.prev  BY <1>k, <3>4
      <4>3. Once(c, n, is)  BY <1>0, <3>1, <3>2, <4>2, <4>1, <3>4 DEF PassInv
      <4>4. Once(c, n, is)'  BY <2>0, <4>3
      <4> QED BY <3>1, <3>2, <4>1, <4>2, <4>4 DEF Once
    <3>5. job'[Live].seen \in 0 .. Len(checks')  BY <2>1, <3>1, <3>2
    <3> QED BY <3>1, <3>3, <3>4, <3>5 DEF PassInv
  <2>4. NewsInv'
    <3> SUFFICES ASSUME NEW i \in DOMAIN news
                 PROVE  /\ news[i].seen \in 0 .. Len(checks')
                        /\ Latest(news[i].component, news[i].seen, news[i].is)'
                        /\ \E is \in Said : is # news[i].is
                             /\ Once(news[i].component, news[i].seen, is)'
      BY <1>k DEF NewsInv
    <3>1. PICK p : p = news[i]  OBVIOUS
    <3>2. /\ p.seen \in 0 .. Len(checks) /\ Latest(p.component, p.seen, p.is)
          /\ \E is \in Said : is # p.is /\ Once(p.component, p.seen, is)
      BY <1>0, <3>1 DEF NewsInv
    <3>3. PICK is \in Said : is # p.is /\ Once(p.component, p.seen, is)  BY <3>2
    <3>4. Latest(p.component, p.seen, p.is)' /\ Once(p.component, p.seen, is)'  BY <2>0, <3>2, <3>3
    <3>5. news'[i] = p  BY <1>k, <3>1
    <3> QED BY <2>1, <3>1, <3>2, <3>3, <3>4, <3>5, <1>k DEF Latest, Once
  <2>5. news' \in Seq([component : Keys, seen : Nat, is : Said])  BY <1>k DEF BulletinInv
  <2> QED BY <1>k, <2>2, <2>3, <2>4, <2>5 DEF BulletinInv
<1>e. ASSUME UNCHANGED checks, NEW c, NEW n, NEW is
      PROVE  /\ Latest(c, n, is) => Latest(c, n, is)'
             /\ Once(c, n, is) => Once(c, n, is)'
  <2>1. Known(c, n)' = Known(c, n)  BY <1>e DEF Known
  <2>2. Max(Known(c, n))' = Max(Known(c, n))  BY <2>1
  <2>3. Latest(c, n, is) => Latest(c, n, is)'  BY <1>e, <2>1, <2>2 DEF Latest
  <2>4. Once(c, n, is) => Once(c, n, is)'  BY <1>e, <2>1 DEF Once
  <2> QED BY <2>3, <2>4
<1>b. ASSUME UNCHANGED <<checks, bot>>, NEW c \in DOMAIN bot'.prev
      PROVE  Once(c, Len(checks), bot.prev[c])'
  <2>1. PICK n, is : n = Len(checks) /\ is = bot.prev[c]  OBVIOUS
  <2>2. Once(c, n, is)  BY <1>b, <2>1 DEF BulletinInv
  <2>3. Once(c, n, is)'  BY <1>b, <1>e, <2>2
  <2> QED BY <1>b, <2>1, <2>3 DEF Once
<1>g. ASSUME UNCHANGED <<checks, news>>
      PROVE  NewsInv'
  <2> SUFFICES ASSUME NEW i \in DOMAIN news
               PROVE  /\ news'[i].seen \in 0 .. Len(checks')
                      /\ Latest(news[i].component, news[i].seen, news[i].is)'
                      /\ \E is \in Said : is # news'[i].is /\ Once(news[i].component, news[i].seen, is)'
    BY <1>g DEF NewsInv
  <2>1. PICK p : p = news[i]  OBVIOUS
  <2>2. /\ p.seen \in 0 .. Len(checks) /\ Latest(p.component, p.seen, p.is)
        /\ \E is \in Said : is # p.is /\ Once(p.component, p.seen, is)
    BY <1>0, <2>1 DEF NewsInv
  <2>3. PICK is \in Said : is # p.is /\ Once(p.component, p.seen, is)  BY <2>2
  <2>4. Latest(p.component, p.seen, p.is)' /\ Once(p.component, p.seen, is)'  BY <1>e, <1>g, <2>2, <2>3
  <2>5. news'[i] = p  BY <1>g, <2>1
  <2> QED BY <1>g, <2>1, <2>2, <2>3, <2>4, <2>5 DEF Latest, Once
\* Nothing of the monitor but the probes of a pass, and the time.
<1>m. ASSUME MonitorStep
      PROVE  /\ CheckTypes' /\ Len(checks') >= Len(checks)
                  /\ \A i \in DOMAIN checks : checks'[i] = checks[i]
             /\ DOMAIN website' = {"up", "next", "todo", "starts"}
  BY <1>0, <1>m, MonitorKeeps DEF BulletinInv
<1>u. ASSUME UNCHANGED <<news, job>>, bot'.prev = bot.prev \/ DOMAIN bot'.prev = {}, MonitorStep,
             {"up", "next", "prev", "saw"} \subseteq DOMAIN bot'
      PROVE  BulletinInv'
  BY <1>0, <1>1, <1>k, <1>m, <1>u DEF PassInv, Passing
\* What a job of the bot's goes on with keeps what its pass knows.
<1>j. ASSUME NEW j \in Jobs, job[j].at # "idle", UNCHANGED <<news, bot>>, MonitorStep,
             NEW q, job' = [job EXCEPT ![j] = q],
             j = Live => \/ q.at = "idle"
                         \/ /\ {"at", "seen", "states"} \subseteq DOMAIN q
                            /\ q.seen = job[j].seen /\ q.states = job[j].states
      PROVE  BulletinInv'
  <2>1. DOMAIN job' = Jobs /\ job'[Live] = IF j = Live THEN q ELSE job[Live]  BY <1>1, <1>j
  <2>2. \/ job'[Live].at = "idle"
        \/ /\ Passing
           /\ {"at", "seen", "states"} \subseteq DOMAIN job'[Live]
           /\ job'[Live].seen = job[Live].seen /\ job'[Live].states = job[Live].states
    BY <1>0, <1>j, <2>1 DEF PassInv, Passing
  <2>3. bot'.prev = bot.prev
          /\ {"up", "next", "prev", "saw"} \subseteq DOMAIN bot'  BY <1>j DEF BulletinInv
  <2>4. UNCHANGED news  BY <1>j
  <2> QED BY <1>k, <1>m, <1>j, <2>1, <2>2, <2>3, <2>4
<1>f. ASSUME job[Live].at # "idle"
      PROVE  /\ {"at", "seen", "states"} \subseteq DOMAIN job[Live]
             /\ \A x : /\ [job[Live] EXCEPT !.at = x].at = x
                       /\ [job[Live] EXCEPT !.at = x].seen = job[Live].seen
                       /\ [job[Live] EXCEPT !.at = x].states = job[Live].states
                       /\ DOMAIN [job[Live] EXCEPT !.at = x] = DOMAIN job[Live]
             /\ \A x, y : /\ [job[Live] EXCEPT !.at = x, !.left = y].seen = job[Live].seen
                          /\ [job[Live] EXCEPT !.at = x, !.left = y].states = job[Live].states
                          /\ DOMAIN [job[Live] EXCEPT !.at = x, !.left = y] = DOMAIN job[Live]
             /\ \A x, y : /\ [job[Live] EXCEPT !.at = x, !.old = y].seen = job[Live].seen
                          /\ [job[Live] EXCEPT !.at = x, !.old = y].states = job[Live].states
                          /\ DOMAIN [job[Live] EXCEPT !.at = x, !.old = y] = DOMAIN job[Live]
             /\ \A y : /\ [job[Live] EXCEPT !.left = y].seen = job[Live].seen
                       /\ [job[Live] EXCEPT !.left = y].states = job[Live].states
                       /\ DOMAIN [job[Live] EXCEPT !.left = y] = DOMAIN job[Live]
  <2>1. {"at", "seen", "states"} \subseteq DOMAIN job[Live]  BY <1>0, <1>f DEF PassInv, Passing
  <2> QED BY <2>1
<1>l. ASSUME NEW j \in Jobs, job[j].at # "idle", UNCHANGED <<news, bot>>, MonitorStep,
               Does(j, Leaves(j))
      PROVE  BulletinInv'
  <2>1. PICK q : q = Leaves(j)  OBVIOUS
  <2>2. job' = [job EXCEPT ![j] = q]  BY <1>l, <2>1 DEF Does
  <2>3. j = Live => /\ {"at", "seen", "states"} \subseteq DOMAIN q
                    /\ q.seen = job[j].seen /\ q.states = job[j].states
    BY <1>l, <1>f, <2>1 DEF Leaves
  <2> QED BY <1>l, <1>j, <2>2, <2>3
<1>w. ASSUME NEW j \in Jobs, job[j].at # "idle", NEW more, {"seen", "states"} \cap DOMAIN more = {}
      PROVE  j = Live => /\ {"at", "seen", "states"} \subseteq DOMAIN With(job[j], more)
                         /\ With(job[j], more).seen = job[j].seen
                              /\ With(job[j], more).states = job[j].states
  BY <1>w, <1>f DEF With
<1>2. ASSUME NEW t, NEW c, Save(t, c)
      PROVE  BulletinInv'
  BY <1>2, <1>u DEF Save, MonitorStep, BulletinInv
<1>3. ASSUME NEW i, DeleteMessage(i)
      PROVE  BulletinInv'
  BY <1>3, <1>u DEF DeleteMessage, MonitorStep, BulletinInv
<1>4. ASSUME MonitorStep, UNCHANGED bulletinVars
      PROVE  BulletinInv'
  BY <1>4, <1>u DEF bulletinVars, BulletinInv
<1>5. CASE ReadStatus
  <2>1. UNCHANGED news /\ MonitorStep
          /\ UNCHANGED checks  BY <1>5 DEF ReadStatus, MonitorStep, monitorVars
  <2>2. bot'.prev = bot.prev /\ {"up", "next", "prev", "saw"} \subseteq DOMAIN bot'
    BY <1>5 DEF ReadStatus, BulletinInv
  <2>3. CASE ~database
    <3>1. UNCHANGED job  BY <1>5, <2>3 DEF ReadStatus
    <3> QED BY <1>u, <2>1, <2>2, <3>1
  <2>4. CASE database
    <3> DEFINE S == {k \in Keys : StateOf(k) \in Said}
               states == [c \in S |-> StateOf(c)]
               q == [at |-> "channel", seen |-> Len(checks), headline |-> Headline, states |-> states]
    <3>1. job' = [job EXCEPT ![Live] = q]  BY <1>5, <2>4 DEF ReadStatus, Does, Said
    <3>2. q.at = "channel" /\ q.seen = Len(checks) /\ q.states = states
            /\ DOMAIN q = {"at", "seen", "headline", "states"}
      OBVIOUS
    <3>3. \A c \in DOMAIN states : Latest(c, Len(checks), states[c])
      <4>1. ASSUME NEW c \in S PROVE Latest(c, Len(checks), StateOf(c))  BY <1>0, <4>1, StateIsLatest
      <4> QED BY <4>1
    <3>4. \A c \in DOMAIN bot.prev : Once(c, Len(checks), bot.prev[c])  BY DEF BulletinInv
    <3> HIDE DEF q, states
    <3>5. DOMAIN job' = Jobs /\ job'[Live] = q  BY <1>1, <3>1
    <3>6. CheckTypes' /\ DOMAIN website' = {"up", "next", "todo", "starts"}  BY <1>m, <2>1
    <3>7. Len(checks) \in 0 .. Len(checks)  BY <1>1
    <3>8. PassInv'
      <4>1. ASSUME NEW c \in DOMAIN states PROVE Latest(c, job[Live].seen, job[Live].states[c])'
        <5>1. PICK n, is : n = Len(checks) /\ is = states[c]  OBVIOUS
        <5>2. Latest(c, n, is)'  BY <1>e, <2>1, <3>3, <4>1, <5>1
        <5> QED BY <3>2, <3>5, <5>1, <5>2 DEF Latest
      <4>2. ASSUME NEW c \in DOMAIN bot'.prev PROVE Once(c, job[Live].seen, bot.prev[c])'
        <5>1. PICK n, is : n = Len(checks) /\ is = bot.prev[c]  OBVIOUS
        <5>2. Once(c, n, is)'  BY <1>e, <2>1, <2>2, <3>4, <4>2, <5>1
        <5> QED BY <2>2, <3>2, <3>5, <5>1, <5>2 DEF Once
      <4>3. job'[Live].seen \in 0 .. Len(checks')
              /\ {"at", "seen", "states"} \subseteq DOMAIN job'[Live]
        BY <2>1, <3>2, <3>5, <3>7
      <4> QED BY <3>2, <3>5, <4>1, <4>2, <4>3 DEF PassInv
    <3>9. NewsInv'  BY <1>g, <2>1
    <3>10. ASSUME NEW c \in DOMAIN bot'.prev PROVE Once(c, Len(checks), bot.prev[c])'
      <4>1. PICK n, is : n = Len(checks) /\ is = bot.prev[c]  OBVIOUS
      <4>2. Once(c, n, is)'  BY <1>e, <2>1, <2>2, <3>4, <3>10, <4>1
      <4> QED BY <2>1, <2>2, <4>1, <4>2 DEF Once
    <3>11. news' \in Seq([component : Keys, seen : Nat, is : Said])  BY <2>1 DEF BulletinInv
    <3> QED BY <2>2, <3>5, <3>6, <3>8, <3>9, <3>10, <3>11 DEF BulletinInv
  <2> QED BY <2>3, <2>4
<1>6. ASSUME NEW j \in Pages, PostWelcome(j)
      PROVE  BulletinInv'
  <2>1. j \in Jobs /\ j # Live  BY BulletinAssumption DEF Jobs, Live
  <2>2. DOMAIN job' = Jobs /\ job'[Live] = job[Live]  BY <1>1, <1>6, <2>1 DEF PostWelcome, Does
  <2> QED BY <1>0, <1>k, <1>m, <1>6, <2>2
        DEF PostWelcome, MonitorStep, PassInv, Passing, BulletinInv, monitorVars
<1>7. ASSUME NEW j \in Jobs, ReadChannel(j)
      PROVE  BulletinInv'
  <2>1. job[j].at # "idle" /\ UNCHANGED <<news, bot>> /\ MonitorStep
    BY <1>7 DEF ReadChannel, MonitorStep, monitorVars
  <2>2. PICK c : c = IF database THEN setting[Topic(j)] ELSE NoChannel  OBVIOUS
  <2>3. PICK read : read = With(job[j], [channel |-> c, at |-> "pointer", left |-> Components])  OBVIOUS
  <2>4. PICK q : q = IF c # NoChannel THEN read ELSE IF j = Live THEN [read EXCEPT !.at = "compare"]
          ELSE NoJob
    OBVIOUS
  <2>5. job' = [job EXCEPT ![j] = q]  BY <1>7, <2>2, <2>3, <2>4 DEF ReadChannel, Does
  <2>6. j = Live => /\ {"at", "seen", "states"} \subseteq DOMAIN read
                    /\ read.seen = job[j].seen /\ read.states = job[j].states
    BY <1>w, <2>1, <2>3
  <2>7. j = Live => /\ {"at", "seen", "states"} \subseteq DOMAIN q
                    /\ q.seen = job[j].seen /\ q.states = job[j].states
    BY <2>4, <2>6
  <2> QED BY <1>j, <2>1, <2>5, <2>7
<1>8. ASSUME NEW j \in Jobs, ReadPointer(j)
      PROVE  BulletinInv'
  <2>1. job[j].at # "idle" /\ UNCHANGED <<news, bot>> /\ MonitorStep
    BY <1>8 DEF ReadPointer, MonitorStep, monitorVars
  <2>2. PICK more : more = LET old == IF database THEN pointer[Topic(j)] ELSE Unread IN
                           [old |-> old, at |-> IF old.channel = job[j].channel THEN "edit" ELSE "send"]
    OBVIOUS
  <2>3. DOMAIN more = {"old", "at"}  BY <2>2
  <2>4. PICK q : q = With(job[j], more)  OBVIOUS
  <2>5. job' = [job EXCEPT ![j] = q]  BY <1>8, <2>2, <2>4 DEF ReadPointer, Does
  <2>6. j = Live => /\ {"at", "seen", "states"} \subseteq DOMAIN q
                    /\ q.seen = job[j].seen /\ q.states = job[j].states
    BY <1>w, <2>1, <2>3, <2>4
  <2> QED BY <1>j, <2>1, <2>5, <2>6
<1>9. ASSUME NEW j \in Jobs, EditMessage(j)
      PROVE  BulletinInv'
  <2>1. job[j].at # "idle" /\ UNCHANGED <<news, bot>> /\ MonitorStep
    BY <1>9 DEF EditMessage, MonitorStep
  <2>2. Does(j, Leaves(j)) \/ Does(j, [job[j] EXCEPT !.at = "send"])  BY <1>9 DEF EditMessage
  <2>3. CASE Does(j, [job[j] EXCEPT !.at = "send"])
    <3>1. PICK q : q = [job[j] EXCEPT !.at = "send"]  OBVIOUS
    <3>2. job' = [job EXCEPT ![j] = q]  BY <2>3, <3>1 DEF Does
    <3>3. j = Live => /\ {"at", "seen", "states"} \subseteq DOMAIN q
                      /\ q.seen = job[j].seen /\ q.states = job[j].states
      BY <1>f, <2>1, <3>1
    <3> QED BY <1>j, <2>1, <3>2, <3>3
  <2> QED BY <1>l, <2>1, <2>2, <2>3
<1>10. ASSUME NEW j \in Jobs, SendMessage(j)
       PROVE  BulletinInv'
  <2>1. job[j].at # "idle" /\ UNCHANGED <<news, bot>> /\ MonitorStep
    BY <1>10 DEF SendMessage, MonitorStep
  <2>2. Does(j, Leaves(j)) \/ \E x : Does(j, [job[j] EXCEPT !.at = "save", !.old = x])
    BY <1>10 DEF SendMessage
  <2>3. ASSUME NEW x, Does(j, [job[j] EXCEPT !.at = "save", !.old = x])
        PROVE  BulletinInv'
    <3>1. PICK q : q = [job[j] EXCEPT !.at = "save", !.old = x]  OBVIOUS
    <3>2. job' = [job EXCEPT ![j] = q]  BY <2>3, <3>1 DEF Does
    <3>3. j = Live => /\ {"at", "seen", "states"} \subseteq DOMAIN q
                      /\ q.seen = job[j].seen /\ q.states = job[j].states
      BY <1>f, <2>1, <3>1
    <3> QED BY <1>j, <2>1, <3>2, <3>3
  <2> QED BY <1>l, <2>1, <2>2, <2>3
<1>11. ASSUME NEW j \in Jobs, SavePointer(j)
       PROVE  BulletinInv'
  <2>1. job[j].at # "idle" /\ UNCHANGED <<news, bot>> /\ MonitorStep /\ Does(j, Leaves(j))
    BY <1>11 DEF SavePointer, MonitorStep, monitorVars
  <2> QED BY <1>l, <2>1
<1>12. CASE Compare
  <2> DEFINE c == Head(job[Live].left)
             q == [job[Live] EXCEPT !.left = Tail(job[Live].left)]
  <2>1. job[Live].at = "compare" /\ Passing  BY <1>12 DEF Compare, Passing
  <2>2. UNCHANGED <<monitorVars, setting, pointer, sent, bot>> /\ MonitorStep
    BY <1>12 DEF Compare, MonitorStep, monitorVars
  <2>3. job' = [job EXCEPT ![Live] = q]  BY <1>12 DEF Compare, Does
  <2>4. {"at", "seen", "states"} \subseteq DOMAIN q /\ q.seen = job[Live].seen
          /\ q.states = job[Live].states
    BY <1>f, <2>1
  <2>5. CASE ~(HasChanged(c) /\ database)
    <3>1. UNCHANGED news  BY <1>12, <2>5 DEF Compare
    <3> HIDE DEF q
    <3> QED BY <1>1, <1>j, <2>1, <2>2, <2>3, <2>4, <3>1
  <2>6. CASE HasChanged(c) /\ database
    <3> HIDE DEF c, q
    <3>1. news' = Append(news, Post(c))  BY <1>12, <2>6 DEF Compare, c
    <3>2. c \in DOMAIN bot.prev /\ c \in DOMAIN job[Live].states /\ bot.prev[c] # job[Live].states[c]
      BY <2>6 DEF HasChanged
    <3>3. PICK p : p = [component |-> c, seen |-> job[Live].seen, is |-> job[Live].states[c]]  OBVIOUS
    <3>4. Post(c) = p  BY <3>2, <3>3 DEF Post
    <3>5. p.component = c /\ p.seen = job[Live].seen /\ p.is = job[Live].states[c]  BY <3>3
    <3>6. Latest(c, p.seen, p.is) /\ Once(c, p.seen, bot.prev[c]) /\ p.seen \in 0 .. Len(checks)
      BY <1>0, <2>1, <3>2, <3>5 DEF PassInv
    <3>7. p.is \in Said /\ bot.prev[c] \in Said /\ Known(c, p.seen) # {}  BY <3>6 DEF Latest, Once
    <3>8. c \in Keys
      <4>1. PICK i \in Known(c, p.seen) : TRUE  BY <3>7
      <4>2. i \in DOMAIN checks /\ checks[i].component = c  BY <1>1, <3>6, <4>1 DEF Known
      <4>3. checks[i] \in Probes  BY <1>0, <4>2 DEF CheckTypes
      <4> QED BY <4>2, <4>3 DEF Probes
    <3>9. p \in [component : Keys, seen : Nat, is : Said]  BY <3>3, <3>5, <3>6, <3>7, <3>8
    <3>10. news \in Seq([component : Keys, seen : Nat, is : Said])  BY DEF BulletinInv
    <3>11. /\ news' \in Seq([component : Keys, seen : Nat, is : Said])
                /\ DOMAIN news' = 1 .. Len(news) + 1
           /\ \A i \in 1 .. Len(news) : news'[i] = news[i]
           /\ news'[Len(news) + 1] = p
           /\ DOMAIN news = 1 .. Len(news) /\ Len(news) \in Nat
      BY <3>1, <3>4, <3>9, <3>10
    <3>12. UNCHANGED <<checks, bot>>  BY <2>2 DEF monitorVars
    <3>13. NewsInv'
      <4>1. ASSUME NEW i \in DOMAIN news'
            PROVE  /\ news'[i].seen \in 0 .. Len(checks)
                   /\ Latest(news'[i].component, news'[i].seen, news'[i].is)
                   /\ \E is \in Said : is # news'[i].is /\ Once(news'[i].component, news'[i].seen, is)
        <5>1. CASE i = Len(news) + 1  BY <3>2, <3>5, <3>6, <3>7, <3>11, <5>1
        <5>2. CASE i # Len(news) + 1
          <6>1. i \in DOMAIN news /\ news'[i] = news[i]  BY <3>11, <4>1, <5>2
          <6> QED BY <1>0, <6>1 DEF NewsInv
        <5> QED BY <5>1, <5>2
      <4> QED BY <3>12, <4>1 DEF NewsInv, Latest, Once, Known
    <3>14. DOMAIN job' = Jobs /\ job'[Live] = q  BY <1>1, <2>3
    <3>15. PassInv'
      <4>1. /\ job[Live].seen \in 0 .. Len(checks)
            /\ \A k \in DOMAIN job[Live].states : Latest(k, job[Live].seen, job[Live].states[k])
            /\ \A k \in DOMAIN bot.prev : Once(k, job[Live].seen, bot.prev[k])
        BY <1>0, <2>1 DEF PassInv
      <4>2. ASSUME NEW k \in DOMAIN job[Live].states PROVE Latest(k, job[Live].seen,
                     job[Live].states[k])'
        <5>1. PICK n, is : n = job[Live].seen /\ is = job[Live].states[k]  OBVIOUS
        <5>2. Latest(k, n, is)'  BY <1>e, <3>12, <4>1, <4>2, <5>1
        <5> QED BY <2>4, <3>14, <5>1, <5>2 DEF Latest
      <4>3. ASSUME NEW k \in DOMAIN bot.prev PROVE Once(k, job[Live].seen, bot.prev[k])'
        <5>1. PICK n, is : n = job[Live].seen /\ is = bot.prev[k]  OBVIOUS
        <5>2. Once(k, n, is)'  BY <1>e, <3>12, <4>1, <4>3, <5>1
        <5> QED BY <2>4, <3>12, <3>14, <5>1, <5>2 DEF Once
      <4> QED BY <2>4, <3>12, <3>14, <4>1, <4>2, <4>3 DEF PassInv
    <3>16. CheckTypes' /\ DOMAIN website' = {"up", "next", "todo", "starts"}  BY <1>m, <2>2
    <3>17. \A k \in DOMAIN bot'.prev : Once(k, Len(checks), bot.prev[k])'  BY <1>b, <3>12
    <3>18. {"up", "next", "prev", "saw"} \subseteq DOMAIN bot'  BY <3>12 DEF BulletinInv
    <3> QED BY <3>11, <3>13, <3>14, <3>15, <3>16, <3>17, <3>18 DEF BulletinInv
  <2> QED BY <2>5, <2>6
<1>13. CASE PassOver
  <2>1. job[Live].at = "compare" /\ Passing  BY <1>13 DEF PassOver, Passing
  <2>2. UNCHANGED <<checks, news>> /\ MonitorStep  BY <1>13 DEF PassOver, MonitorStep, monitorVars
  <2>3. bot'.prev = job[Live].states /\ {"up", "next", "prev", "saw"} \subseteq DOMAIN bot'
    BY <1>13 DEF PassOver, BulletinInv
  <2>4. DOMAIN job' = Jobs /\ job'[Live].at = "idle"  BY <1>1, <1>13 DEF PassOver, Does, NoJob
  <2>5. ASSUME NEW c \in DOMAIN bot'.prev PROVE Once(c, Len(checks), bot.prev[c])'
    <3>1. PICK n \in 0 .. Len(checks) : n = job[Live].seen  BY <1>0, <2>1 DEF PassInv
    <3>2. PICK is : is = job[Live].states[c]  OBVIOUS
    <3>3. Latest(c, n, is)  BY <1>0, <2>1, <2>3, <2>5, <3>1, <3>2 DEF PassInv
    <3>4. Once(c, n, is)  BY <1>0, <3>3, LatestOnce
    <3>5. Len(checks) \in n .. Len(checks)  BY <1>1
    <3>6. PICK m \in n .. Len(checks) : m = Len(checks)  BY <3>5
    <3>7. Once(c, m, is)  BY <1>0, <3>4, OnceLater
    <3>8. Once(c, m, is)'  BY <1>e, <2>2, <3>7
    <3> QED BY <2>2, <2>3, <3>2, <3>6, <3>8 DEF Once
  <2>6. NewsInv'  BY <1>g, <2>2
  <2>7. CheckTypes' /\ DOMAIN website' = {"up", "next", "todo", "starts"}  BY <1>m, <2>2
  <2>8. news' \in Seq([component : Keys, seen : Nat, is : Said])  BY <2>2 DEF BulletinInv
  <2>9. PassInv'  BY <2>4 DEF PassInv, Passing
  <2> QED BY <2>3, <2>4, <2>5, <2>6, <2>7, <2>8, <2>9 DEF BulletinInv
<1>14. CASE BotDown
  <2>1. UNCHANGED news /\ MonitorStep /\ DOMAIN bot'.prev = {}
          /\ {"up", "next", "prev", "saw"} \subseteq DOMAIN bot'
    BY <1>14 DEF BotDown, MonitorStep, NoPrev, BulletinInv
  <2>2. DOMAIN job' = Jobs /\ job'[Live].at = "idle"  BY <1>1, <1>14 DEF BotDown, Does, NoJob
  <2> QED BY <1>k, <1>m, <2>1, <2>2
<1>15. CASE BotUp
  <2>1. bot'.prev = bot.prev /\ {"up", "next", "prev", "saw"} \subseteq DOMAIN bot'
    BY <1>15 DEF BotUp, BulletinInv
  <2>2. UNCHANGED <<news, job>> /\ MonitorStep  BY <1>15 DEF BotUp, MonitorStep
  <2> QED BY <1>u, <2>1, <2>2
<1>16. CASE WebsiteStopsHere
  <2>1. UNCHANGED <<news, bot>> /\ MonitorStep  BY <1>16 DEF WebsiteStopsHere, MonitorStep
  <2>2. DOMAIN job' = Jobs /\ job'[Live] = job[Live]  BY <1>1, <1>16 DEF WebsiteStopsHere
  <2>3. bot'.prev = bot.prev
          /\ {"up", "next", "prev", "saw"} \subseteq DOMAIN bot'  BY <2>1 DEF BulletinInv
  <2> QED BY <1>0, <1>k, <1>m, <2>1, <2>2, <2>3 DEF PassInv, Passing
<1>17. CASE Tick
  BY <1>4, <1>17 DEF Tick, MonitorStep
<1>18. CASE (StartPass \/ RecordCheck \/ \E c \in Keys : HealthChanges(c)) /\ UNCHANGED bulletinVars
  <2>1. UNCHANGED <<now, checks, website>> \/ StartPass \/ RecordCheck  BY <1>18 DEF HealthChanges
  <2> QED BY <1>4, <1>18, <2>1 DEF MonitorStep
<1>19. ASSUME NEW t, Settle(t)
       PROVE  BulletinInv'
  <2>1. DatabaseChanges /\ UNCHANGED bulletinVars
          => BulletinInv'  BY <1>4 DEF MonitorStep, DatabaseChanges
  <2>2. WebsiteUp /\ UNCHANGED bulletinVars => BulletinInv'  BY <1>4 DEF MonitorStep
  <2> QED BY <1>2, <1>3, <1>16, <1>19, <2>1, <2>2 DEF Settle
<1>20. ASSUME NEW j \in Jobs, Keep(j)
       PROVE  BulletinInv'
  BY <1>7, <1>8, <1>9, <1>10, <1>11, <1>20 DEF Keep
<1>21. CASE UNCHANGED <<monitorVars, bulletinVars>>
  BY <1>4, <1>21 DEF MonitorStep, monitorVars
<1> QED BY <1>1, <1>5, <1>6, <1>12, <1>13, <1>14, <1>15, <1>17, <1>18, <1>19, <1>20, <1>21
        DEF StatusNext, WelcomeNext, Jobs

-------------------------------------------------------------------------------
(* The status page: outages count.                                           *)

\* Intervals, from the first check on, in which the website did record something.
Slot(i) == (checks[i].at - checks[1].at) \div Interval
Slots == {Slot(i) : i \in Of(Self)}

\* When the website is checked next.
Due == IF Self \in ToSet(website.todo) THEN now ELSE website.next

ClockInv ==
    /\ website.next \in Nat /\ website.starts \in Nat \ {0}
    /\ ~website.up => website.todo = <<>>
    /\ IsInjective(website.todo)
    /\ website.todo # <<>> => website.next = now + Interval
    /\ \A i \in DOMAIN checks : checks[1].at <= checks[i].at /\ checks[i].at <= now

\* Each start of the website may check once more in an interval that had a check; one
\* that has not done so, yet, may still.
OutageInv ==
    /\ ClockInv
    /\ Cardinality(Of(Self)) + 1 <= Cardinality(Slots) + website.starts
    /\ website.up => \/ Cardinality(Of(Self)) + 2 <= Cardinality(Slots) + website.starts
                     \/ \A i \in Of(Self) : checks[i].at + Interval <= Due

\* Whole intervals in some time.
LEMMA Intervals ==
    ASSUME NEW n \in Nat \ {0}, NEW x \in Int
    PROVE  x \div n \in Int /\ n * (x \div n) <= x /\ x < n * (x \div n) + n
OBVIOUS

LEMMA Products ==
    ASSUME NEW n \in Nat \ {0}, NEW a \in Int, NEW b \in Int
    PROVE  /\ n * a \in Int /\ n * (a + b) = n * a + n * b /\ n * (a + 1) = n * a + n
           /\ (n * a < n * b => a < b)
<1>1. n * a \in Int /\ n * (a + b) = n * a + n * b /\ n * (a + 1) = n * a + n  OBVIOUS
<1>2. ASSUME n * a < n * b, ~(a < b) PROVE FALSE
  <2>1. a - b \in Nat  BY <1>2
  <2>2. n * (a - b) \in Nat  BY <2>1
  <2>3. n * (a - b) = n * a - n * b  OBVIOUS
  <2> QED BY <1>2, <2>2, <2>3
<1> QED BY <1>1, <1>2

\* The number of whole intervals is the one number with what they cover.
LEMMA IntervalIs ==
    ASSUME NEW n \in Nat \ {0}, NEW x \in Int, NEW k \in Int
    PROVE  (x \div n = k) <=> (n * k <= x /\ x < n * k + n)
<1> DEFINE q == x \div n
<1>1. q \in Int /\ n * q <= x /\ x < n * q + n  BY Intervals
<1> HIDE DEF q
<1>2. ASSUME n * k <= x, x < n * k + n PROVE q = k
  <2>1. n * (k + 1) = n * k + n /\ n * (q + 1) = n * q + n /\ n * k \in Int
          /\ n * q \in Int  BY <1>1, Products
  <2>2. n * q < n * (k + 1) /\ n * k < n * (q + 1)  BY <1>1, <1>2, <2>1
  <2>3. q < k + 1 /\ k < q + 1
    <3>1. q + 1 \in Int /\ k + 1 \in Int  BY <1>1
    <3> QED BY <1>1, <2>2, <3>1, Products
  <2> QED BY <1>1, <2>3
<1>3. q = k => n * k <= x /\ x < n * k + n  BY <1>1
<1> QED BY <1>2, <1>3 DEF q

LEMMA IntervalLater ==
    ASSUME NEW n \in Nat \ {0}, NEW x \in Int, NEW y \in Int
    PROVE  (x <= y => x \div n <= y \div n) /\ (x + n <= y => x \div n < y \div n)
<1> DEFINE a == x \div n
           b == y \div n
<1>1. a \in Int /\ n * a <= x /\ b \in Int /\ y < n * b + n  BY Intervals
<1> HIDE DEF a, b
<1>2. n * (b + 1) = n * b + n /\ n * (a + 1) = n * a + n /\ n * a \in Int
        /\ n * b \in Int  BY <1>1, Products
<1>3. x <= y => a <= b
  <2>1. x <= y => n * a < n * (b + 1)  BY <1>1, <1>2
  <2>2. b + 1 \in Int /\ (n * a < n * (b + 1) => a < b + 1)
    <3>1. b + 1 \in Int  BY <1>1
    <3> QED BY <1>1, <3>1, Products
  <2> QED BY <1>1, <2>1, <2>2
<1>4. x + n <= y => a < b
  <2>1. x + n <= y => n * (a + 1) < n * (b + 1)  BY <1>1, <1>2
  <2>2. n * (a + 1) < n * (b + 1) => a + 1 < b + 1
    <3>1. b + 1 \in Int /\ a + 1 \in Int  BY <1>1
    <3> QED BY <3>1, Products
  <2> QED BY <1>1, <2>1, <2>2
<1> QED BY <1>3, <1>4 DEF a, b

\* Rounding down in two parts loses at most one.
LEMMA IntervalParts ==
    ASSUME NEW n \in Nat \ {0}, NEW x \in Int, NEW y \in Int
    PROVE  (x + y) \div n <= x \div n + y \div n + 1
<1> DEFINE a == x \div n
           b == y \div n
           c == (x + y) \div n
<1>1. a \in Int /\ x < n * a + n /\ b \in Int /\ y < n * b + n  BY Intervals
<1>2. c \in Int /\ n * c <= x + y
  <2>1. x + y \in Int  OBVIOUS
  <2> QED BY <2>1, Intervals
<1> HIDE DEF a, b, c
<1>3. n * (a + b) = n * a + n * b /\ n * a \in Int /\ n * b \in Int
        /\ n * c \in Int  BY <1>1, <1>2, Products
<1>4. n * ((a + b) + 1) = n * (a + b) + n /\ n * (((a + b) + 1) + 1) = n * ((a + b) + 1) + n
  <2>1. a + b \in Int /\ (a + b) + 1 \in Int  BY <1>1
  <2> QED BY <2>1, Products
<1>5. n * c < n * (((a + b) + 1) + 1)  BY <1>1, <1>2, <1>3, <1>4
<1>6. c < ((a + b) + 1) + 1
  <2>1. ((a + b) + 1) + 1 \in Int  BY <1>1
  <2> QED BY <1>2, <1>5, <2>1, Products
<1>7. c <= a + b + 1  BY <1>1, <1>2, <1>6
<1> QED BY <1>7 DEF a, b, c

LEMMA SlotsFinite ==
    ASSUME CheckTypes, ClockInv
    PROVE  /\ IsFiniteSet(Of(Self)) /\ IsFiniteSet(Slots)
           /\ Cardinality(Of(Self)) \in Nat /\ Cardinality(Slots) \in Nat
           /\ \A i \in Of(Self) : /\ i \in DOMAIN checks /\ 1 \in DOMAIN checks
                                  /\ checks[i].at - checks[1].at \in Nat
                                  /\ Slot(i) \in 0 .. ((now - checks[1].at) \div Interval)
           /\ Slots \subseteq 0 .. ((now - checks[1].at) \div Interval)
<1>1. checks \in Seq(Probes) /\ DOMAIN checks = 1 .. Len(checks) /\ Len(checks) \in Nat /\ now \in Nat
  BY DEF CheckTypes
<1>2. IsFiniteSet(Of(Self))
  <2>1. Of(Self) \subseteq 1 .. Len(checks)  BY <1>1 DEF Of
  <2>2. IsFiniteSet(1 .. Len(checks))  BY <1>1, FS_Interval
  <2> QED BY <2>1, <2>2, FS_Subset
<1>3. ASSUME NEW i \in Of(Self)
      PROVE  /\ i \in DOMAIN checks /\ 1 \in DOMAIN checks /\ checks[i].at - checks[1].at \in Nat
             /\ Slot(i) \in 0 .. ((now - checks[1].at) \div Interval)
  <2>1. i \in DOMAIN checks /\ 1 \in DOMAIN checks  BY <1>1, <1>3 DEF Of
  <2>a. checks[i] \in Probes /\ checks[1] \in Probes  BY <1>1, <2>1
  <2>2. checks[i].at \in Nat /\ checks[1].at \in Nat  BY <2>a DEF Probes
  <2>3. checks[1].at <= checks[i].at /\ checks[i].at <= now  BY <2>1 DEF ClockInv
  <2> DEFINE x == checks[i].at - checks[1].at
             y == now - checks[1].at
  <2>4. x \in Nat /\ y \in Nat /\ x <= y  BY <1>1, <2>2, <2>3
  <2>5. Interval \in Nat \ {0}  BY MonitorAssumption
  <2>6. Slot(i) = x \div Interval  BY DEF Slot
  <2> HIDE DEF x, y
  <2>7. x \div Interval \in Nat /\ y \div Interval \in Nat  BY <2>4, <2>5
  <2>8. x \div Interval <= y \div Interval
    <3>1. x \in Int /\ y \in Int  BY <2>4
    <3> QED BY <2>4, <2>5, <3>1, IntervalLater
  <2>9. Slot(i) \in 0 .. (y \div Interval)  BY <2>6, <2>7, <2>8
  <2> QED BY <2>1, <2>4, <2>9 DEF x, y
<1>4. Slots \subseteq 0 .. ((now - checks[1].at) \div Interval)  BY <1>3 DEF Slots
<1>5. IsFiniteSet(Slots)
  <2>1. CASE Slots = {}  BY <2>1, FS_EmptySet
  <2>2. CASE Slots # {}
    <3>1. PICK i \in Of(Self) : TRUE  BY <2>2 DEF Slots
    <3>2. 1 \in DOMAIN checks  BY <1>3
    <3>a. checks[1] \in Probes  BY <1>1, <3>2
    <3>3. checks[1].at \in Nat  BY <3>a DEF Probes
    <3>4. now - checks[1].at \in Int  BY <1>1, <3>3
    <3>5. (now - checks[1].at) \div Interval \in Int  BY <3>4, MonitorAssumption
    <3>6. IsFiniteSet(0 .. ((now - checks[1].at) \div Interval))  BY <3>5, FS_Interval
    <3> QED BY <1>4, <3>6, FS_Subset
  <2> QED BY <2>1, <2>2
<1> QED BY <1>2, <1>3, <1>4, <1>5, FS_CardinalityType

LEMMA OutageStart == MonitorInit => OutageInv
<1> SUFFICES ASSUME MonitorInit PROVE OutageInv  OBVIOUS
<1>1. /\ checks = <<>> /\ DOMAIN checks = {} /\ now = 0
      /\ website.up = TRUE /\ website.next = 0 /\ website.todo = <<>> /\ website.starts = 1
  BY DEF MonitorInit, Started
<1>2. IsInjective(website.todo)  BY <1>1 DEF IsInjective
<1>3. Of(Self) = {} /\ Slots = {}  BY <1>1 DEF Of, Slots
<1>4. Cardinality({}) = 0  BY FS_EmptySet
<1>5. ClockInv
  <2>1. website.next \in Nat /\ website.starts \in Nat \ {0}  BY <1>1
  <2>2. \A i \in DOMAIN checks : checks[1].at <= checks[i].at /\ checks[i].at <= now  BY <1>1
  <2> QED BY <1>1, <1>2, <2>1, <2>2, Zenon DEF ClockInv
<1> QED BY <1>1, <1>3, <1>4, <1>5 DEF OutageInv

\* Taking a list of different things from the front.
LEMMA TailInjective ==
    ASSUME NEW S, NEW s \in Seq(S), s # <<>>, IsInjective(s)
    PROVE  IsInjective(Tail(s)) /\ ToSet(Tail(s)) = ToSet(s) \ {Head(s)}
<1>1. /\ Len(s) \in Nat \ {0} /\ DOMAIN s = 1 .. Len(s) /\ Head(s) = s[1]
      /\ DOMAIN Tail(s) = 1 .. (Len(s) - 1)
      /\ \A i \in 1 .. (Len(s) - 1) : Tail(s)[i] = s[i + 1]
  <2>1. Tail(s) \in Seq(S) /\ Len(Tail(s)) = Len(s) - 1 /\ Head(s) = s[1]
          /\ \A i \in 1 .. Len(Tail(s)) : Tail(s)[i] = s[i + 1]
    BY HeadTailProperties
  <2>2. Len(s) \in Nat \ {0} /\ DOMAIN s = 1 .. Len(s)  BY EmptySeq
  <2>3. DOMAIN Tail(s) = 1 .. Len(Tail(s))  BY <2>1
  <2> QED BY <2>1, <2>2, <2>3
<1>2. \A i, j \in DOMAIN s : s[i] = s[j] => i = j  BY DEF IsInjective
<1>3. IsInjective(Tail(s))  BY <1>1, <1>2 DEF IsInjective
<1>4. ASSUME NEW x \in ToSet(Tail(s)) PROVE x \in ToSet(s) \ {Head(s)}
  <2>1. PICK i \in 1 .. (Len(s) - 1) : x = Tail(s)[i]  BY <1>1, <1>4 DEF ToSet
  <2>2. i + 1 \in DOMAIN s /\ i + 1 # 1 /\ x = s[i + 1] /\ 1 \in DOMAIN s  BY <1>1, <2>1
  <2>3. x # s[1]  BY <1>2, <2>2
  <2> QED BY <1>1, <2>2, <2>3 DEF ToSet
<1>5. ASSUME NEW x \in ToSet(s) \ {Head(s)} PROVE x \in ToSet(Tail(s))
  <2>1. PICK i \in 1 .. Len(s) : x = s[i]  BY <1>1, <1>5 DEF ToSet
  <2>2. i # 1  BY <1>1, <1>5, <2>1
  <2>3. i - 1 \in 1 .. (Len(s) - 1) /\ (i - 1) + 1 = i  BY <1>1, <2>1, <2>2
  <2>4. Tail(s)[i - 1] = x  BY <1>1, <2>1, <2>3
  <2> QED BY <1>1, <2>3, <2>4 DEF ToSet
<1> QED BY <1>3, <1>4, <1>5

\* Who is checked next, and what is the same of what was checked.
LEMMA SameChecks ==
    ASSUME UNCHANGED checks PROVE Of(Self)' = Of(Self) /\ Slots' = Slots
BY DEF Of, Slots, Slot

LEMMA NewCheck ==
    ASSUME CheckTypes, ClockInv, NEW row \in Probes, checks' = Append(checks, row), row.at = now
    PROVE  /\ \A i \in DOMAIN checks' : checks'[1].at <= checks'[i].at /\ checks'[i].at <= now
           /\ row.component # Self => Of(Self)' = Of(Self) /\ Slots' = Slots
           /\ row.component = Self =>
                 \E s : /\ Slots' = Slots \cup {s} /\ Of(Self)' = Of(Self) \cup {Len(checks) + 1}
                        /\ Len(checks) + 1 \notin Of(Self)
                        /\ (\A i \in Of(Self) : checks[i].at + Interval <= now) => s \notin Slots
<1>n. PICK n : n = Len(checks) + 1  OBVIOUS
<1>1. checks \in Seq(Probes) /\ DOMAIN checks = 1 .. Len(checks) /\ Len(checks) \in Nat /\ now \in Nat
  BY DEF CheckTypes
<1>2. /\ DOMAIN checks' = 1 .. n /\ checks'[n] = row
      /\ \A i \in DOMAIN checks : checks'[i] = checks[i]
  BY <1>1, <1>n
<1>3. \A i \in DOMAIN checks : checks[1].at <= checks[i].at /\ checks[i].at <= now
  BY DEF ClockInv
<1>4. n \in Nat /\ n \notin DOMAIN checks /\ DOMAIN checks' = DOMAIN checks \cup {n}
      /\ (DOMAIN checks = {} => n = 1) /\ (DOMAIN checks # {} => 1 \in DOMAIN checks)
  BY <1>1, <1>2, <1>n
<1>5. \A i \in DOMAIN checks' : checks'[1].at <= checks'[i].at /\ checks'[i].at <= now
  <2>1. CASE DOMAIN checks = {}
    <3>1. checks'[1] = row /\ DOMAIN checks' = {1}  BY <1>2, <1>4, <2>1
    <3> QED BY <1>1, <3>1
  <2>2. CASE DOMAIN checks # {}
    <3>1. checks'[1] = checks[1] /\ 1 \in DOMAIN checks  BY <1>2, <1>4, <2>2
    <3>2. ASSUME NEW i \in DOMAIN checks' PROVE checks'[1].at <= checks'[i].at /\ checks'[i].at <= now
      <4>1. CASE i = n
        <5>1. checks'[1].at <= now /\ checks'[i].at = now  BY <1>2, <1>3, <3>1, <4>1
        <5> QED BY <1>1, <5>1
      <4>2. CASE i # n  BY <1>2, <1>3, <1>4, <3>1, <3>2, <4>2
      <4> QED BY <4>1, <4>2
    <3> QED BY <3>2
  <2> QED BY <2>1, <2>2
<1>6. ASSUME NEW i \in Of(Self) PROVE Slot(i)' = Slot(i)
  <2>1. i \in DOMAIN checks /\ 1 \in DOMAIN checks  BY <1>4, <1>6 DEF Of
  <2> QED BY <1>2, <2>1 DEF Slot
<1>7. row.component # Self => Of(Self)' = Of(Self)  BY <1>2, <1>4 DEF Of
<1>8. row.component # Self => Slots' = Slots  BY <1>6, <1>7 DEF Slots
<1>9. ASSUME row.component = Self
      PROVE  \E s : /\ Slots' = Slots \cup {s} /\ Of(Self)' = Of(Self) \cup {n}
                    /\ n \notin Of(Self)
                    /\ (\A i \in Of(Self) : checks[i].at + Interval <= now) => s \notin Slots
  <2>1. Of(Self)' = Of(Self) \cup {n} /\ n \notin Of(Self)  BY <1>2, <1>4, <1>9 DEF Of
  <2>2. PICK s : s = Slot(n)'  OBVIOUS
  <2>3. Slots' = Slots \cup {s}  BY <1>6, <2>1, <2>2 DEF Slots
  <2>4. ASSUME \A i \in Of(Self) : checks[i].at + Interval <= now, s \in Slots PROVE FALSE
    <3>1. PICK i \in Of(Self) : s = Slot(i)  BY <2>4 DEF Slots
    <3>2. i \in DOMAIN checks /\ 1 \in DOMAIN checks  BY <1>4 DEF Of
    <3>a. checks[i] \in Probes /\ checks[1] \in Probes  BY <1>1, <3>2
    <3>3. checks[i].at \in Nat /\ checks[1].at \in Nat  BY <3>a DEF Probes
    <3>4. s = (now - checks[1].at) \div Interval  BY <1>2, <2>2, <3>2 DEF Slot
    <3>5. Slot(i) = (checks[i].at - checks[1].at) \div Interval  BY DEF Slot
    <3>6. (checks[i].at - checks[1].at) + Interval <= now - checks[1].at
      BY <1>1, <2>4, <3>3, MonitorAssumption
    <3> DEFINE x == checks[i].at - checks[1].at
               y == now - checks[1].at
    <3>7. x \in Int /\ y \in Int /\ Interval \in Nat \ {0} /\ x + Interval <= y
      BY <1>1, <3>3, <3>6, MonitorAssumption
    <3>8. s = y \div Interval /\ s = x \div Interval  BY <3>1, <3>4, <3>5
    <3> HIDE DEF x, y
    <3>9. x \div Interval < y \div Interval  BY <3>7, IntervalLater
    <3>10. x \div Interval \in Int  BY <3>7
    <3> QED BY <3>8, <3>9, <3>10
  <2> QED BY <2>1, <2>3, <2>4
<1> QED BY <1>5, <1>7, <1>8, <1>9, <1>n

LEMMA OutageKeeps ==
    ASSUME CheckTypes, DOMAIN website = {"up", "next", "todo", "starts"}, OutageInv, MonitorStep
    PROVE  OutageInv'
<1>0. ClockInv /\ now \in Nat /\ website.todo \in Seq(Keys) /\ Interval \in Nat \ {0}
      /\ website.next \in Nat /\ website.starts \in Nat \ {0}
  BY MonitorAssumption DEF OutageInv, CheckTypes, ClockInv
<1>1. /\ Cardinality(Of(Self)) \in Nat /\ Cardinality(Slots) \in Nat
      /\ IsFiniteSet(Of(Self)) /\ IsFiniteSet(Slots)
      /\ \A i \in Of(Self) : i \in DOMAIN checks
  BY <1>0, SlotsFinite
<1>2. \A i \in Of(Self) : checks[i].at \in Nat
  <2>1. \A i \in Of(Self) : checks[i] \in Probes  BY <1>1 DEF CheckTypes
  <2> QED BY <2>1 DEF Probes
<1>3. /\ Cardinality(Of(Self)) + 1 <= Cardinality(Slots) + website.starts
      /\ website.up => \/ Cardinality(Of(Self)) + 2 <= Cardinality(Slots) + website.starts
                       \/ \A i \in Of(Self) : checks[i].at + Interval <= Due
  BY DEF OutageInv
\* Nothing is recorded.
<1>u. ASSUME UNCHANGED <<checks, website>>, now' = now PROVE OutageInv'
  BY <1>u DEF OutageInv, ClockInv, Of, Slots, Slot, Due
<1>k. ASSUME UNCHANGED checks, ClockInv',
             \/ website'.starts = website.starts /\ (website'.up => website.up /\ Due' >= Due)
             \/ website'.starts = website.starts + 1,
             Due \in Nat, Due' \in Nat
      PROVE  OutageInv'
  <2>1. Of(Self)' = Of(Self) /\ Slots' = Slots  BY <1>k, SameChecks
  <2>2. CASE website'.starts = website.starts + 1
    <3>1. Cardinality(Of(Self)) + 2 <= Cardinality(Slots) + website'.starts
      BY <1>0, <1>1, <1>3, <2>2
    <3>2. Cardinality(Of(Self)) + 1 <= Cardinality(Slots) + website'.starts
      BY <1>0, <1>1, <1>3, <2>2
    <3> QED BY <1>k, <2>1, <3>1, <3>2 DEF OutageInv
  <2>3. CASE website'.starts = website.starts /\ (website'.up => website.up /\ Due' >= Due)
    <3>1. ASSUME website'.up, \A i \in Of(Self) : checks[i].at + Interval <= Due
          PROVE  \A i \in Of(Self) : checks[i].at + Interval <= Due'
      BY <1>0, <1>2, <1>k, <2>3, <3>1
    <3>2. \A i \in Of(Self) : checks'[i] = checks[i]  BY <1>k
    <3> QED BY <1>3, <1>k, <2>1, <2>3, <3>1, <3>2 DEF OutageInv
  <2> QED BY <1>k, <2>2, <2>3
<1>d. Due \in Nat  BY <1>0 DEF Due
<1>4. CASE UNCHANGED <<checks, website>> /\ now' = now + 1 /\ OnTime
  <2>1. website.todo = <<>>
    BY <1>0, <1>4 DEF OnTime, ClockInv
  <2>2. Self \notin ToSet(website.todo)  BY <2>1 DEF ToSet
  <2>3. Due' = website.next /\ Due = website.next  BY <1>4, <2>2 DEF Due
  <2>4. ClockInv'
    <3>1. ASSUME NEW i \in DOMAIN checks PROVE checks[i].at <= now'
      <4>1. checks[i] \in Probes /\ checks[i].at <= now  BY <1>0, <3>1 DEF CheckTypes, ClockInv
      <4>2. checks[i].at \in Nat  BY <4>1 DEF Probes
      <4> QED BY <1>0, <1>4, <4>1, <4>2
    <3> QED BY <1>0, <1>4, <2>1, <3>1 DEF ClockInv
  <2> QED BY <1>0, <1>4, <1>k, <2>3, <2>4
<1>5. CASE StartPass
  <2>1. /\ website'.todo = Components /\ website'.next = now + Interval
        /\ website'.starts = website.starts /\ website'.up = website.up
        /\ website.todo = <<>> /\ website.next = now /\ website.up /\ now' = now /\ checks' = checks
    BY <1>5 DEF StartPass
  <2>2. Self \in ToSet(website'.todo)  BY <2>1, MonitorAssumption
  <2>3. Due' = now /\ Due = now  BY <2>1, <2>2 DEF Due
  <2>4. ClockInv'
    <3>1. IsInjective(website'.todo)  BY <2>1, MonitorAssumption
    <3>2. website'.next \in Nat /\ website'.next = now' + Interval  BY <1>0, <2>1
    <3> QED BY <1>0, <2>1, <3>1, <3>2 DEF ClockInv
  <2> QED BY <1>0, <1>k, <2>1, <2>3, <2>4
<1>6. CASE RecordCheck
  <2>1. /\ website.todo # <<>> /\ website'.todo = Tail(website.todo) /\ website'.next = website.next
        /\ website'.starts = website.starts /\ website'.up = website.up /\ now' = now
    BY <1>6 DEF RecordCheck
  <2>2. IsInjective(website.todo) /\ website.next = now + Interval /\ website.up
    BY <1>0, <2>1 DEF ClockInv
  <2>3. IsInjective(website'.todo) /\ ToSet(website'.todo) = ToSet(website.todo) \ {Head(website.todo)}
    BY <1>0, <2>1, <2>2, TailInjective
  <2>4. PICK row : row = [component |-> Head(website.todo), ok |-> Head(website.todo) \in well,
          at |-> now]
    OBVIOUS
  <2>5. row.component = Head(website.todo) /\ row.at = now /\ row \in Probes
    <3>1. Head(website.todo) \in Keys  BY <1>0, <2>1, HeadTailProperties
    <3> QED BY <1>0, <2>4, <3>1 DEF Probes
  <2>6. checks' = Append(checks, row) \/ checks' = checks  BY <1>6, <2>4 DEF RecordCheck
  <2>7. \A i \in DOMAIN checks' : checks'[1].at <= checks'[i].at /\ checks'[i].at <= now
    <3>1. CASE checks' = checks  BY <1>0, <3>1 DEF ClockInv
    <3>2. CASE checks' = Append(checks, row)  BY <1>0, <2>5, <3>2, NewCheck
    <3> QED BY <2>6, <3>1, <3>2
  <2>8. ClockInv'  BY <1>0, <2>1, <2>2, <2>3, <2>7 DEF ClockInv
  <2>9. CASE row.component # Self
    <3>1. Due' = Due  BY <2>1, <2>3, <2>5, <2>9 DEF Due
    <3>2. Of(Self)' = Of(Self) /\ Slots' = Slots
          /\ \A i \in DOMAIN checks : checks'[i] = checks[i]
      <4>1. CASE checks' = checks  BY <4>1, SameChecks
      <4>2. CASE checks' = Append(checks, row)
        <5>1. \A i \in DOMAIN checks : checks'[i] = checks[i]  BY <4>2, <2>5 DEF CheckTypes
        <5> QED BY <1>0, <2>5, <2>9, <4>2, <5>1, NewCheck
      <4> QED BY <2>6, <4>1, <4>2
    <3>3. \A i \in Of(Self) : checks'[i] = checks[i]  BY <1>1, <3>2
    <3> QED BY <1>3, <2>1, <2>8, <3>1, <3>2, <3>3 DEF OutageInv
  <2>10. CASE row.component = Self
    <3>1. Due' = now + Interval /\ Due = now
      <4>1. Self \in ToSet(website.todo)
        <5>1. Len(website.todo) \in Nat \ {0} /\ DOMAIN website.todo = 1 .. Len(website.todo)
              /\ Head(website.todo) = website.todo[1]
          BY <1>0, <2>1, EmptySeq, HeadTailProperties
        <5> QED BY <2>5, <2>10, <5>1 DEF ToSet
      <4>2. Self \notin ToSet(website'.todo)  BY <2>3, <2>5, <2>10
      <4> QED BY <2>1, <2>2, <4>1, <4>2 DEF Due
    <3>2. Of(Self)' \subseteq DOMAIN checks'  BY DEF Of
    <3>3. checks' \in Seq(Probes)
      <4>1. checks \in Seq(Probes)  BY DEF CheckTypes
      <4> QED BY <2>5, <2>6, <4>1, AppendProperties
    <3>4. ASSUME NEW i \in Of(Self)' PROVE checks'[i].at + Interval <= Due'
      <4>1. i \in DOMAIN checks' /\ checks'[i] \in Probes  BY <3>2, <3>3, <3>4
      <4>2. checks'[i].at \in Nat  BY <4>1 DEF Probes
      <4> QED BY <1>0, <2>7, <3>1, <4>1, <4>2
    <3>5. Cardinality(Of(Self)') + 1 <= Cardinality(Slots') + website'.starts
      <4>1. CASE checks' = checks
        <5>1. Of(Self)' = Of(Self) /\ Slots' = Slots  BY <4>1, SameChecks
        <5> QED BY <1>3, <2>1, <5>1
      <4>2. CASE checks' = Append(checks, row)
        <5>1. PICK s : /\ Slots' = Slots \cup {s} /\ Of(Self)' = Of(Self) \cup {Len(checks) + 1}
                       /\ Len(checks) + 1 \notin Of(Self)
                       /\ (\A i \in Of(Self) : checks[i].at + Interval <= now) => s \notin Slots
          BY <1>0, <2>5, <2>10, <4>2, NewCheck
        <5>2. Cardinality(Of(Self)') = Cardinality(Of(Self)) + 1  BY <1>1, <5>1, FS_AddElement
        <5>3. CASE s \notin Slots
          <6>1. Cardinality(Slots') = Cardinality(Slots) + 1  BY <1>1, <5>1, <5>3, FS_AddElement
          <6> QED BY <1>0, <1>1, <1>3, <2>1, <5>2, <6>1
        <5>4. CASE s \in Slots
          <6>1. Slots' = Slots  BY <5>1, <5>4
          <6>2. Cardinality(Of(Self)) + 2 <= Cardinality(Slots) + website.starts
            BY <1>3, <2>2, <3>1, <5>1, <5>4
          <6> QED BY <1>0, <1>1, <2>1, <5>2, <6>1, <6>2
        <5> QED BY <5>3, <5>4
      <4> QED BY <2>6, <4>1, <4>2
    <3> QED BY <2>8, <3>4, <3>5 DEF OutageInv
  <2> QED BY <2>9, <2>10
<1>7. CASE WebsiteDown
  <2>1. /\ website'.todo = <<>> /\ website'.next = website.next /\ website'.starts = website.starts
        /\ website'.up = FALSE /\ now' = now /\ checks' = checks
    BY <1>7 DEF WebsiteDown
  <2>2. IsInjective(website'.todo) /\ Self \notin ToSet(website'.todo)  BY <2>1 DEF IsInjective, ToSet
  <2>3. ClockInv'
    <3>1. \A i \in DOMAIN checks' : checks'[1].at <= checks'[i].at /\ checks'[i].at <= now'
      BY <1>0, <2>1 DEF ClockInv
    <3> QED BY <1>0, <2>1, <2>2, <3>1 DEF ClockInv
  <2>4. Due' \in Nat  BY <1>0, <2>1, <2>2 DEF Due
  <2> QED BY <1>d, <1>k, <2>1, <2>3, <2>4
<1>8. CASE WebsiteUp
  <2>1. /\ website'.todo = <<>> /\ website'.next = now /\ website'.starts = website.starts + 1
        /\ now' = now /\ checks' = checks
    BY <1>8 DEF WebsiteUp, Started
  <2>2. IsInjective(website'.todo) /\ Self \notin ToSet(website'.todo)  BY <2>1 DEF IsInjective, ToSet
  <2>3. ClockInv'
    <3>1. \A i \in DOMAIN checks' : checks'[1].at <= checks'[i].at /\ checks'[i].at <= now'
      BY <1>0, <2>1 DEF ClockInv
    <3>2. website'.next \in Nat /\ website'.starts \in Nat \ {0}  BY <1>0, <2>1
    <3> QED BY <2>1, <2>2, <3>1, <3>2 DEF ClockInv
  <2>4. Due' \in Nat  BY <1>0, <2>1, <2>2 DEF Due
  <2> QED BY <1>d, <1>k, <2>1, <2>3, <2>4
<1>9. CASE UNCHANGED <<now, checks, website>>  BY <1>9, <1>u
<1> QED BY <1>4, <1>5, <1>6, <1>7, <1>8, <1>9 DEF MonitorStep

\* How many intervals nothing was recorded in, of those that have passed.
LEMMA GapsBound ==
    ASSUME CheckTypes, OutageInv, checks # <<>>
    PROVE  /\ checks[1].at \in Nat /\ checks[1].at <= now
           /\ Cardinality(Gaps) \in Nat /\ Cardinality(Of(Self)) \in Nat
           /\ Cardinality(Gaps) <=
                (now - checks[1].at) \div Interval - Cardinality(Of(Self)) + website.starts
<1>0. ClockInv /\ now \in Nat /\ Interval \in Nat \ {0} /\ website.starts \in Nat
  BY MonitorAssumption DEF OutageInv, CheckTypes, ClockInv
<1>1. checks \in Seq(Probes) /\ DOMAIN checks = 1 .. Len(checks) /\ Len(checks) \in Nat \ {0}
  BY EmptySeq DEF CheckTypes
<1>2. \A i \in DOMAIN checks : checks[i].at \in Nat
  <2>1. \A i \in DOMAIN checks : checks[i] \in Probes  BY <1>1
  <2> QED BY <2>1 DEF Probes
<1>3. checks[1].at \in Nat /\ checks[1].at <= now  BY <1>0, <1>1, <1>2 DEF ClockInv
<1>4. PICK first \in Nat : first = checks[1].at  BY <1>3
<1>5. PICK K \in Nat : K = (now - first) \div Interval
  <2>1. now - first \in Nat  BY <1>0, <1>3, <1>4
  <2> QED BY <1>0, <2>1
<1>6. IsFiniteSet(Slots) /\ Cardinality(Slots) \in Nat /\ Cardinality(Of(Self)) \in Nat
      /\ Slots \subseteq 0 .. K
  BY <1>0, <1>4, <1>5, SlotsFinite
<1>7. ASSUME NEW k \in 0 .. K - 1
      PROVE  (\E i \in DOMAIN checks : checks[i].component = Self
                 /\ checks[i].at \in (first + k * Interval) .. (first + k * Interval + Interval - 1))
             <=> k \in Slots
  <2>1. ASSUME NEW i \in DOMAIN checks
        PROVE  (checks[i].at \in (first + k * Interval) .. (first + k * Interval + Interval - 1))
               <=> Slot(i) = k
    <3>1. PICK a \in Nat : a = checks[i].at  BY <1>2
    <3>2. PICK x \in Int : x = a - first  OBVIOUS
    <3>3. k \in Int /\ Interval * k \in Int /\ k * Interval = Interval * k  BY <1>0
    <3>4. (x \div Interval = k) <=> (Interval * k <= x /\ x < Interval * k + Interval)
      BY <1>0, <3>3, IntervalIs
    <3>5. (a \in (first + k * Interval) .. (first + k * Interval + Interval - 1))
          <=> (Interval * k <= x /\ x < Interval * k + Interval)
      BY <1>0, <3>2, <3>3
    <3> QED BY <1>4, <3>1, <3>2, <3>4, <3>5 DEF Slot
  <2> QED BY <2>1 DEF Slots, Of
<1>8. Gaps = (0 .. K - 1) \ Slots
  <2>1. Gaps = {k \in 0 .. (K - 1) :
                  ~\E i \in DOMAIN checks : checks[i].component = Self
                     /\ checks[i].at \in (first + k * Interval) .. (first + k * Interval + Interval - 1)}
    BY <1>4, <1>5 DEF Gaps
  <2> QED BY <1>7, <2>1
<1>9. PICK A : A = 0 .. K - 1  OBVIOUS
<1>10. IsFiniteSet(A) /\ Cardinality(A) = K
  <2>1. IsFiniteSet(0 .. K - 1) /\ Cardinality(0 .. K - 1) = IF 0 > K - 1 THEN 0 ELSE (K - 1) - 0 + 1
    <3>1. 0 \in Int /\ K - 1 \in Int  OBVIOUS
    <3> QED BY <3>1, FS_Interval
  <2> QED BY <1>9, <2>1
<1>11. Cardinality(Gaps) = Cardinality(A) - Cardinality(A \cap Slots)
  BY <1>8, <1>9, <1>10, FS_Difference
<1>12. IsFiniteSet(Gaps) /\ IsFiniteSet(A \cap Slots)
       /\ Cardinality(Gaps) \in Nat /\ Cardinality(A \cap Slots) \in Nat
  BY <1>8, <1>9, <1>10, FS_Difference, FS_Intersection, FS_CardinalityType
<1>13. Cardinality(Slots) <= Cardinality(A \cap Slots) + 1
  <2>1. IsFiniteSet((A \cap Slots) \cup {K})
        /\ Cardinality((A \cap Slots) \cup {K}) <= Cardinality(A \cap Slots) + 1
    <3>1. PICK B : B = A \cap Slots  OBVIOUS
    <3>2. IsFiniteSet(B) /\ Cardinality(B) \in Nat  BY <1>12, <3>1
    <3>3. IsFiniteSet(B \cup {K})
          /\ Cardinality(B \cup {K}) = IF K \in B THEN Cardinality(B) ELSE Cardinality(B) + 1
      BY <3>2, FS_AddElement
    <3>4. Cardinality(B \cup {K}) <= Cardinality(B) + 1  BY <3>2, <3>3
    <3> QED BY <3>1, <3>3, <3>4
  <2>2. Slots \subseteq (A \cap Slots) \cup {K}  BY <1>6, <1>9
  <2>3. Cardinality(Slots) <= Cardinality((A \cap Slots) \cup {K})  BY <2>1, <2>2, FS_Subset
  <2>4. Cardinality((A \cap Slots) \cup {K}) \in Nat  BY <2>1, FS_CardinalityType
  <2> QED BY <1>6, <1>12, <2>1, <2>3, <2>4
<1>14. Cardinality(Of(Self)) + 1 <= Cardinality(Slots) + website.starts  BY DEF OutageInv
<1>15. Cardinality(Gaps) <= K - Cardinality(Of(Self)) + website.starts
  BY <1>0, <1>6, <1>10, <1>11, <1>12, <1>13, <1>14
<1> QED BY <1>3, <1>4, <1>5, <1>6, <1>12, <1>15

LEMMA OfTwo ==
    ASSUME NEW a \in Int, NEW b \in Int
    PROVE  /\ Max({a, b}) = IF a <= b THEN b ELSE a
           /\ Min({a, b}) = IF a <= b THEN a ELSE b
<1>1. \A x \in {a, b} : (\A y \in {a, b} : x >= y) <=> x = (IF a <= b THEN b ELSE a)  OBVIOUS
<1>2. \A x \in {a, b} : (\A y \in {a, b} : x =< y) <=> x = (IF a <= b THEN a ELSE b)  OBVIOUS
<1>3. (IF a <= b THEN b ELSE a) \in {a, b} /\ (IF a <= b THEN a ELSE b) \in {a, b}  OBVIOUS
<1>4. (CHOOSE x \in {a, b} : \A y \in {a, b} : x >= y) = IF a <= b THEN b ELSE a  BY <1>1, <1>3
<1>5. (CHOOSE x \in {a, b} : \A y \in {a, b} : x =< y) = IF a <= b THEN a ELSE b  BY <1>2, <1>3
<1> QED BY <1>4, <1>5 DEF Max, Min

\* Adding up day by day.
Sums(f, g, n) == f = [d \in 0..n |-> (IF d = 0 THEN 0 ELSE f[d - 1]) + g[d]]

LEMMA SumsThere == ASSUME NEW n \in Nat, NEW g PROVE \E f : Sums(f, g, n)
<1> DEFINE T == {m \in Nat : ~\E f : Sums(f, g, m)}
<1>1. ASSUME T # {} PROVE FALSE
  <2>1. PICK m \in T : \A k \in T : m <= k
    <3>1. T \subseteq Nat  OBVIOUS
    <3> HIDE DEF T
    <3> QED BY <1>1, <3>1, LeastNumber
  <2>2. m \in Nat /\ ~\E f : Sums(f, g, m)  BY <2>1
  <2>3. m # 0
    <3>1. PICK f : f = [i \in 0..0 |-> 0 + g[i]]  OBVIOUS
    <3>2. Sums(f, g, 0)  BY <3>1 DEF Sums
    <3> QED BY <2>2, <3>2
  <2>4. m - 1 \in Nat /\ ~(m <= m - 1)  BY <2>2, <2>3
  <2>5. m - 1 \notin T
    <3> HIDE DEF T
    <3> QED BY <2>1, <2>4
  <2>6. PICK f : Sums(f, g, m - 1)  BY <2>4, <2>5
  <2>7. \A i \in 0..m - 1 : f[i] = (IF i = 0 THEN 0 ELSE f[i - 1]) + g[i]  BY <2>6 DEF Sums
  <2>8. PICK h : h = [i \in 0..m |-> IF i = m THEN f[m - 1] + g[m] ELSE f[i]]  OBVIOUS
  <2>9. ASSUME NEW i \in 0..m PROVE h[i] = (IF i = 0 THEN 0 ELSE h[i - 1]) + g[i]
    <3>1. CASE i = m
      <4>1. h[i] = f[m - 1] + g[m] /\ h[i - 1] = f[m - 1]  BY <2>2, <2>3, <2>8, <3>1
      <4> QED BY <2>3, <3>1, <4>1
    <3>2. CASE i # m
      <4>1. i \in 0..m - 1 /\ h[i] = f[i] /\ (i # 0 => h[i - 1] = f[i - 1])  BY <2>2, <2>8, <3>2
      <4> QED BY <2>7, <4>1
    <3> QED BY <3>1, <3>2
  <2>10. h = [i \in 0..m |-> h[i]]  BY <2>8
  <2>11. Sums(h, g, m)  BY <2>9, <2>10 DEF Sums
  <2> QED BY <2>2, <2>11
<1> QED BY <1>1

\* What is not up, is what is added up of the days.
NotUpOn(n) == [d \in 0..n |-> Denominator(Self, d) - CountOk(Self, d)]

LEMMA NotUpSums ==
    ASSUME CheckTypes, checks # <<>>
    PROVE  \E f : Sums(f, NotUpOn(now \div DayLength), now \div DayLength)
                  /\ NotUp(Self) = f[now \div DayLength]
<1>1. PICK n \in Nat : n = now \div DayLength
  <2>1. now \in Nat /\ DayLength \in Nat \ {0}  BY MonitorAssumption DEF CheckTypes
  <2>2. now \div DayLength \in Nat  BY <2>1
  <2> QED BY <2>2
<1>2. PICK g : g = NotUpOn(n)  OBVIOUS
<1>3. \A d \in 0..n : g[d] = Denominator(Self, d) - CountOk(Self, d)  BY <1>2 DEF NotUpOn
<1> DEFINE Days1(f) == f = [d \in Days |-> (IF d = 0 THEN 0 ELSE f[d - 1])
                                             + (Denominator(Self, d) - CountOk(Self, d))]
<1>4. NotUp(Self) = (CHOOSE f : Days1(f))[n]  BY <1>1 DEF NotUp
<1>5. \A f : Days1(f) <=> Sums(f, g, n)  BY <1>1, <1>3 DEF Days, Sums
<1>6. \E f : Sums(f, g, n)  BY SumsThere
<1> HIDE DEF Days1
<1>7. PICK f : f = CHOOSE h : Days1(h)  OBVIOUS
<1>8. Days1(f)  BY <1>5, <1>6, <1>7
<1> QED BY <1>1, <1>2, <1>4, <1>5, <1>7, <1>8

\* The checks of the website, up to and with some day, and those of one.
Until(n) == {i \in Of(Self) : checks[i].at \div DayLength <= n}
On(d) == {i \in DOMAIN checks : checks[i].component = Self /\ checks[i].at \div DayLength = d}

LEMMA DayChecks ==
    ASSUME CheckTypes, NEW d \in Nat
    PROVE  /\ IsFiniteSet(Of(Self)) /\ IsFiniteSet(On(d)) /\ IsFiniteSet(Until(d))
           /\ Cardinality(Of(Self)) \in Nat /\ Count(Self, d) \in Nat /\ CountOk(Self, d) \in Nat
           /\ Cardinality(Until(d)) \in Nat
           /\ Count(Self, d) = Cardinality(On(d)) /\ CountOk(Self, d) <= Count(Self, d)
           /\ Count(Self, d) <= Cardinality(Until(d)) /\ Cardinality(Until(d)) <= Cardinality(Of(Self))
           /\ Cardinality(Until(d + 1)) = Cardinality(Until(d)) + Count(Self, d + 1)
<1>1. checks \in Seq(Probes) /\ DOMAIN checks = 1 .. Len(checks) /\ Len(checks) \in Nat
  BY DEF CheckTypes
<1>2. IsFiniteSet(DOMAIN checks)
  <2>1. IsFiniteSet(1 .. Len(checks))  BY <1>1, FS_Interval
  <2> QED BY <1>1, <2>1
<1>3. \A i \in DOMAIN checks : checks[i].at \div DayLength \in Int
  <2>1. \A i \in DOMAIN checks : checks[i] \in Probes  BY <1>1
  <2>2. \A i \in DOMAIN checks : checks[i].at \in Nat  BY <2>1 DEF Probes
  <2> QED BY <2>2, MonitorAssumption
<1>4. Of(Self) \subseteq DOMAIN checks  BY DEF Of
<1>5. IsFiniteSet(Of(Self))  BY <1>2, <1>4, FS_Subset
<1>6. \A e \in Nat : On(e) \subseteq Until(e) /\ Until(e) \subseteq Of(Self)  BY <1>3 DEF On, Until, Of
<1>7. \A e \in Nat : IsFiniteSet(Until(e)) /\ Cardinality(Until(e)) <= Cardinality(Of(Self))
  BY <1>5, <1>6, FS_Subset
<1>8. \A e \in Nat : IsFiniteSet(On(e)) /\ Cardinality(On(e)) <= Cardinality(Until(e))
  BY <1>6, <1>7, FS_Subset
<1>9. \A e : Count(Self, e) = Cardinality(On(e))  BY DEF Count, On
<1>10. PICK Ok : Ok = {i \in DOMAIN checks : checks[i].component = Self /\ checks[i].ok
                                               /\ checks[i].at \div DayLength = d}
  OBVIOUS
<1>11. CountOk(Self, d) = Cardinality(Ok)  BY <1>10 DEF CountOk
<1>12. Ok \subseteq On(d)  BY <1>10 DEF On
<1>13. IsFiniteSet(Ok) /\ Cardinality(Ok) <= Cardinality(On(d))  BY <1>8, <1>12, FS_Subset
<1>14. d + 1 \in Nat  OBVIOUS
<1>15. Until(d + 1) = Until(d) \cup On(d + 1) /\ Until(d) \cap On(d + 1) = {}
  BY <1>3, <1>4 DEF Until, On, Of
<1>16. Cardinality(Until(d + 1)) =
         Cardinality(Until(d)) + Cardinality(On(d + 1)) - Cardinality(Until(d) \cap On(d + 1))
  BY <1>7, <1>8, <1>14, <1>15, FS_Union
<1>17. Cardinality(Until(d) \cap On(d + 1)) = 0  BY <1>15, FS_EmptySet
<1>18. \A e \in Nat : Cardinality(Until(e)) \in Nat /\ Cardinality(On(e)) \in Nat
  BY <1>7, <1>8, FS_CardinalityType
<1>19. Cardinality(Ok) \in Nat /\ Cardinality(Of(Self)) \in Nat  BY <1>5, <1>13, FS_CardinalityType
<1>20. Cardinality(Until(d + 1)) = Cardinality(Until(d)) + Count(Self, d + 1)
  BY <1>9, <1>14, <1>16, <1>17, <1>18
<1> QED BY <1>5, <1>7, <1>8, <1>9, <1>11, <1>13, <1>18, <1>19, <1>20

\* What one day says the website was not up is as much as it did not check, and more than
\* nothing.
LEMMA OneDay ==
    ASSUME CheckTypes, NEW d \in Nat, Expected(d) \in Int
    PROVE  /\ Denominator(Self, d) - CountOk(Self, d) \in Nat
           /\ Expected(d) - Count(Self, d) <= Denominator(Self, d) - CountOk(Self, d)
<1>1. Count(Self, d) \in Nat /\ CountOk(Self, d) \in Nat /\ CountOk(Self, d) <= Count(Self, d)
  BY DayChecks
<1>2. Denominator(Self, d) = Max({Count(Self, d), Expected(d)})  BY DEF Denominator
<1>3. PICK a \in Nat : a = Count(Self, d)  BY <1>1
<1>4. PICK b \in Int : b = Expected(d)  OBVIOUS
<1>5. Max({a, b}) = IF a <= b THEN b ELSE a  BY OfTwo
<1>6. Denominator(Self, d) = IF a <= b THEN b ELSE a  BY <1>2, <1>3, <1>4, <1>5
<1> QED BY <1>1, <1>3, <1>4, <1>6

\* Added up, days round the time down by one interval each.
LEMMA NotUpBound ==
    ASSUME CheckTypes, checks # <<>>, checks[1].at \in Nat, checks[1].at <= now
    PROVE  /\ NotUp(Self) \in Int
           /\ (now - checks[1].at) \div Interval - now \div DayLength - Cardinality(Of(Self))
                <= NotUp(Self)
<1>1. PICK N \in Nat : N = now \div DayLength
  <2>1. now \in Nat /\ DayLength \in Nat \ {0}  BY MonitorAssumption DEF CheckTypes
  <2>2. now \div DayLength \in Nat  BY <2>1
  <2> QED BY <2>2
<1>2. PICK first \in Nat, L \in Nat \ {0}, I \in Nat \ {0}, t \in Nat :
        first = checks[1].at /\ L = DayLength /\ I = Interval /\ t = now
  BY MonitorAssumption DEF CheckTypes
<1>3. PICK g : g = NotUpOn(N)  OBVIOUS
<1>4. PICK f : Sums(f, g, N) /\ NotUp(Self) = f[N]  BY <1>1, <1>3, NotUpSums
<1>5. \A d \in 0..N : f[d] = (IF d = 0 THEN 0 ELSE f[d - 1]) + g[d]  BY <1>4 DEF Sums
<1>6. first <= t  BY <1>2
<1>7. N * L <= t /\ t < (N + 1) * L
  <2>1. L * N <= t /\ t < L * N + L
    <3>1. t \in Int  OBVIOUS
    <3> QED BY <1>1, <1>2, <3>1, Intervals
  <2>2. N * L = L * N /\ (N + 1) * L = L * N + L
    <3>1. N \in Int  OBVIOUS
    <3>2. L * (N + 1) = L * N + L  BY <3>1, Products
    <3> QED BY <3>2
  <2> QED BY <2>1, <2>2
\* where a day ends, or now; and where it starts, or the first check
<1> DEFINE End(d) == IF t <= (d + 1) * L THEN t ELSE (d + 1) * L
           From(d) == IF first <= d * L THEN d * L ELSE first
<1>8. ASSUME NEW d \in Nat
      PROVE  Expected(d) = (End(d) - From(d)) \div I /\ End(d) \in Int /\ From(d) \in Int
  <2>1. PICK a \in Nat, b \in Nat : a = (d + 1) * L /\ b = d * L
    <3>1. (d + 1) * L \in Nat /\ d * L \in Nat  OBVIOUS
    <3> QED BY <3>1
  <2>2. Min({t, a}) = IF t <= a THEN t ELSE a
    <3>1. t \in Int /\ a \in Int  OBVIOUS
    <3> QED BY <3>1, OfTwo
  <2>3. Max({first, b}) = IF first <= b THEN b ELSE first  BY OfTwo
  <2>4. Expected(d) = (Min({t, a}) - Max({first, b})) \div I  BY <1>2, <2>1 DEF Expected
  <2> QED BY <2>1, <2>2, <2>3, <2>4
<1>9. ASSUME NEW d \in 0..N
      PROVE  g[d] \in Nat /\ (End(d) - From(d)) \div I - Count(Self, d) <= g[d]
             /\ (End(d) - From(d)) \div I \in Int
  <2>1. d \in Nat  OBVIOUS
  <2>2. Expected(d) \in Int
    <3> HIDE DEF End, From
    <3>1. End(d) - From(d) \in Int  BY <1>8, <2>1
    <3>2. (End(d) - From(d)) \div I \in Int  BY <3>1
    <3> QED BY <1>8, <2>1, <3>2
  <2>3. g[d] = Denominator(Self, d) - CountOk(Self, d)  BY <1>3 DEF NotUpOn
  <2> QED BY <1>8, <2>1, <2>2, <2>3, OneDay
<1> DEFINE Enough(n) == /\ f[n] \in Nat
                        /\ (End(n) - first) \div I - n - Cardinality(Until(n)) <= f[n]
           T == {n \in Nat : n <= N /\ ~Enough(n)}
<1>10. ASSUME NEW n \in 0..N PROVE (End(n) - first) \div I \in Int /\ Cardinality(Until(n)) \in Nat
                                   /\ Count(Self, n) \in Nat /\ Count(Self, n) <= Cardinality(Until(n))
  <2>1. n \in Nat  OBVIOUS
  <2>2. End(n) - first \in Int  BY <1>8, <2>1
  <2> HIDE DEF End
  <2>3. (End(n) - first) \div I \in Int  BY <2>2
  <2> QED BY <2>1, <2>3, DayChecks
<1>11. Enough(0)
  <2>1. 0 \in 0..N  OBVIOUS
  <2>2. f[0] = g[0] /\ g[0] \in Nat  BY <1>5, <1>9, <2>1
  <2>3. From(0) = first  OBVIOUS
  <2>4. (End(0) - first) \div I - Count(Self, 0) <= g[0]  BY <1>9, <2>1, <2>3
  <2>5. (End(0) - first) \div I \in Int /\ Cardinality(Until(0)) \in Nat
        /\ Count(Self, 0) \in Nat /\ Count(Self, 0) <= Cardinality(Until(0))
    BY <1>10, <2>1
  <2> HIDE DEF End
  <2> QED BY <2>2, <2>4, <2>5
<1>12. ASSUME NEW m \in 0..N, m # 0, Enough(m - 1) PROVE Enough(m)
  <2>1. PICK n \in 0..N : n = m - 1 /\ n + 1 = m /\ n \in Nat /\ m \in Nat  BY <1>12
  <2>2. f[m] = f[n] + g[m] /\ g[m] \in Nat /\ f[n] \in Nat  BY <1>5, <1>9, <1>12, <2>1
  <2>3. (End(m) - From(m)) \div I - Count(Self, m) <= g[m] /\ (End(m) - From(m)) \div I \in Int
    BY <1>9
  <2>4. (End(n) - first) \div I - n - Cardinality(Until(n)) <= f[n]  BY <1>12, <2>1
  <2>5. /\ (End(n) - first) \div I \in Int /\ (End(m) - first) \div I \in Int
        /\ Cardinality(Until(n)) \in Nat /\ Cardinality(Until(m)) \in Nat /\ Count(Self, m) \in Nat
    BY <1>10
  <2>6. Cardinality(Until(m)) = Cardinality(Until(n)) + Count(Self, m)  BY <2>1, DayChecks
  <2>7. CASE first > m * L
    <3>1. From(m) = first  BY <2>7
    <3> HIDE DEF End, From
    <3>2. (End(m) - first) \div I - Count(Self, m) <= g[m]  BY <2>3, <3>1
    <3>3. PICK d \in Int, c \in Nat, k \in Nat, u \in Nat, upto \in Nat, to \in Nat, day \in Nat :
             /\ d = (End(m) - first) \div I /\ c = Count(Self, m) /\ k = Cardinality(Until(n)) /\ u = Cardinality(Until(m))
             /\ upto = f[n] /\ to = f[m] /\ day = g[m]
      <4>1. f[m] \in Nat  BY <2>2
      <4> QED BY <2>2, <2>5, <4>1
    <3>4. d - c <= day /\ u = k + c /\ to = upto + day  BY <2>2, <2>6, <3>2, <3>3
    <3>5. m \in Nat  BY <2>1
    <3>6. d - m - u <= to
      <4>1. ASSUME NEW x \in Int, NEW y \in Nat, NEW z \in Nat, NEW w \in Nat, NEW v \in Nat, NEW i \in Nat, x - y <= v
            PROVE  x - i - (z + y) <= w + v
        BY <4>1
      <4> QED BY <3>3, <3>4, <3>5, <4>1
    <3> QED BY <3>3, <3>6, <2>2
  <2>8. CASE first <= m * L
    <3>1. From(m) = m * L  BY <2>8
    <3>2. End(n) = m * L
      <4>1. m * L <= t
        <5>1. N - m \in Nat  OBVIOUS
        <5>2. (N - m) * L \in Nat  BY <5>1
        <5>3. (N - m) * L = N * L - m * L  OBVIOUS
        <5> QED BY <1>7, <5>2, <5>3
      <4> QED BY <2>1, <4>1
    <3>3. PICK x \in Int : x = End(n) - first
      <4>1. End(n) - first \in Int  BY <1>8, <2>1
      <4> QED BY <4>1
    <3>4. PICK y \in Int : y = End(m) - From(m)
      <4>1. End(m) - From(m) \in Int  BY <1>8, <2>1
      <4> QED BY <4>1
    <3>5. End(m) - first = x + y
      <4>1. End(m) \in Int /\ m * L \in Int  BY <1>8, <2>1
      <4> HIDE DEF End, From
      <4> QED BY <3>1, <3>2, <3>3, <3>4, <4>1
    <3>6. (x + y) \div I <= x \div I + y \div I + 1  BY IntervalParts
    <3> HIDE DEF End, From
    <3>7. x \div I \in Int /\ y \div I \in Int /\ (x + y) \div I \in Int
      BY <2>3, <2>5, <3>3, <3>4, <3>5
    <3>8. x \div I - n - Cardinality(Until(n)) <= f[n] /\ y \div I - Count(Self, m) <= g[m]
      BY <2>3, <2>4, <3>3, <3>4
    <3>9. (x + y) \div I - m - Cardinality(Until(m)) <= f[m]
      BY <2>1, <2>2, <2>5, <2>6, <3>6, <3>7, <3>8
    <3> QED BY <2>2, <3>5, <3>9
  <2> QED BY <2>7, <2>8
<1>13. ASSUME T # {} PROVE FALSE
  <2>1. PICK m \in T : \A k \in T : m <= k
    <3>1. T \subseteq Nat  OBVIOUS
    <3> HIDE DEF T
    <3> QED BY <1>13, <3>1, LeastNumber
  <2>2. m \in 0..N /\ ~Enough(m)  BY <2>1
  <2> HIDE DEF Enough
  <2>3. m # 0  BY <1>11, <2>2
  <2>4. m - 1 \in Nat /\ m - 1 <= N /\ ~(m <= m - 1)  BY <2>2, <2>3
  <2>5. m - 1 \notin T
    <3> HIDE DEF T
    <3> QED BY <2>1, <2>4
  <2>6. Enough(m - 1)  BY <2>4, <2>5
  <2> QED BY <1>12, <2>2, <2>3, <2>6
<1>14. Enough(N)
  <2> HIDE DEF Enough
  <2> QED BY <1>13
<1>15. End(N) = t  BY <1>7
<1>16. Cardinality(Until(N)) \in Nat /\ Cardinality(Until(N)) <= Cardinality(Of(Self))
       /\ Cardinality(Of(Self)) \in Nat
  BY DayChecks
<1>17. (t - first) \div I \in Int
  <2>1. t - first \in Int  OBVIOUS
  <2> QED BY <2>1
<1>18. (t - first) \div I - N - Cardinality(Until(N)) <= f[N] /\ f[N] \in Nat
  <2> HIDE DEF End
  <2> QED BY <1>14, <1>15
<1>19. (t - first) \div I - N - Cardinality(Of(Self)) <= f[N]  BY <1>16, <1>17, <1>18
<1> QED BY <1>1, <1>2, <1>4, <1>18, <1>19

LEMMA OutagesCounted ==
    ASSUME CheckTypes, OutageInv PROVE OutagesCount
<1>0. now \in Nat /\ website.starts \in Nat /\ now \div DayLength \in Nat
  <2>1. now \in Nat /\ DayLength \in Nat \ {0} /\ website.starts \in Nat
    BY MonitorAssumption DEF CheckTypes, OutageInv, ClockInv
  <2> QED BY <2>1
<1>1. CASE checks = <<>>
  <2>1. Gaps = {} /\ NotUp(Self) = 0  BY <1>1 DEF Gaps, NotUp
  <2> QED BY <1>0, <2>1, FS_EmptySet DEF OutagesCount
<1>2. CASE checks # <<>>
  <2> DEFINE K == (now - checks[1].at) \div Interval
  <2>1. /\ checks[1].at \in Nat /\ checks[1].at <= now
        /\ Cardinality(Gaps) \in Nat /\ Cardinality(Of(Self)) \in Nat
        /\ Cardinality(Gaps) <= K - Cardinality(Of(Self)) + website.starts
    BY <1>2, GapsBound
  <2>2. NotUp(Self) \in Int /\ K - now \div DayLength - Cardinality(Of(Self)) <= NotUp(Self)
    BY <1>2, <2>1, NotUpBound
  <2>3. K \in Int
    <3>1. now - checks[1].at \in Int  BY <1>0, <2>1
    <3> QED BY <3>1, MonitorAssumption
  <2> HIDE DEF K
  <2>4. Cardinality(Gaps) <= NotUp(Self) + website.starts + now \div DayLength
    BY <1>0, <2>1, <2>2, <2>3
  <2> QED BY <2>4 DEF OutagesCount
<1> QED BY <1>1, <1>2

\* What the status page and the bot's messages do is such a step.
LEMMA WatchSteps ==
    [StatusNext \/ WelcomeNext]_<<monitorVars, bulletinVars>> => MonitorStep
<1> SUFFICES ASSUME [StatusNext \/ WelcomeNext]_<<monitorVars, bulletinVars>> PROVE MonitorStep  OBVIOUS
<1> USE DEF monitorVars
<1>1. ASSUME NEW j, Keep(j) PROVE MonitorStep
  BY <1>1 DEF Keep, ReadChannel, ReadPointer, EditMessage, SendMessage, SavePointer, MonitorStep
<1>2. ASSUME NEW t, Settle(t) PROVE MonitorStep
  BY <1>2 DEF Settle, Save, DeleteMessage, DatabaseChanges, WebsiteStopsHere, MonitorStep
<1>3. ASSUME NEW j, PostWelcome(j) PROVE MonitorStep
  BY <1>3 DEF PostWelcome, MonitorStep
<1>4. CASE Tick \/ ReadStatus \/ Compare \/ PassOver \/ BotDown \/ BotUp
  BY <1>4 DEF Tick, ReadStatus, Compare, PassOver, BotDown, BotUp, MonitorStep
<1>5. CASE (StartPass \/ RecordCheck \/ \E c \in Keys : HealthChanges(c)) /\ UNCHANGED bulletinVars
  BY <1>5 DEF HealthChanges, MonitorStep
<1>6. CASE UNCHANGED <<monitorVars, bulletinVars>>  BY <1>6 DEF MonitorStep
<1> QED BY <1>1, <1>2, <1>3, <1>4, <1>5, <1>6 DEF StatusNext, WelcomeNext

-------------------------------------------------------------------------------
(* The office: each page by itself, and the scenes one at a time.            *)

OfficeInv ==
    /\ SteamInv /\ DriveInv /\ BulletinInv /\ OutageInv /\ GangsInv /\ RulesInv /\ FormsInv
    \* tickets are written, and cards are moved, in a scene of theirs only
    /\ IF offered = "tickets" THEN TicketsInv ELSE NoTickets
    /\ IF offered = "order" THEN BoardInv ELSE NoDrags /\ DOMAIN bench = Benches

LEMMA OfficeStarts == Init => OfficeInv
<1> SUFFICES ASSUME Init PROVE OfficeInv  OBVIOUS
<1>1. SteamInv /\ DriveInv /\ BulletinInv /\ OutageInv /\ GangsInv /\ RulesInv /\ FormsInv
  BY SteamStart, DriveStart, BulletinStart, OutageStart, GangsStart, RulesStart, FormsStart DEF Init
<1>2. NoTickets /\ notes = <<>>  BY DEF Init, NoticesInit, TicketsInit, NoTickets
<1>3. TicketsInv  BY <1>2, TicketsStart
<1>4. BoardInv  BY BoardStart DEF Init
<1>5. NoDrags /\ DOMAIN bench = Benches  BY DEF Init, BoardInit, NoDrags, Unbusy
<1> QED BY <1>1, <1>2, <1>3, <1>4, <1>5 DEF OfficeInv

LEMMA OfficeKeeps == OfficeInv /\ [Next]_officeVars => OfficeInv'
<1> SUFFICES ASSUME OfficeInv, [Next]_officeVars PROVE OfficeInv'  OBVIOUS
<1>0. SteamInv /\ DriveInv /\ BulletinInv /\ OutageInv /\ GangsInv /\ RulesInv /\ FormsInv
  BY DEF OfficeInv
<1>1. offered' = offered
  BY DEF Next, Desks, InScene, officeVars
<1>2. /\ [SteamNext]_steamVars /\ [DriveNext]_driveVars
      /\ [StatusNext \/ WelcomeNext]_<<monitorVars, bulletinVars>>
      /\ GangsNext \/ UNCHANGED gangVars
      /\ RulebookNext \/ UNCHANGED ruleVars
  BY DEF Next, Desks, officeVars, deskVars, watchVars
<1>3. SteamInv' /\ DriveInv' /\ BulletinInv' /\ GangsInv' /\ RulesInv' /\ FormsInv'
  BY <1>0, <1>2, SteamKeeps, DriveKeeps, BulletinKeeps, GangsKeep, RulesKeep, FormsKeep
<1>o. OutageInv'
  <2>1. MonitorStep  BY <1>2, WatchSteps
  <2>2. CheckTypes /\ DOMAIN website = {"up", "next", "todo", "starts"}  BY <1>0 DEF BulletinInv
  <2> QED BY <1>0, <2>1, <2>2, OutageKeeps
<1>4. (IF offered = "tickets" THEN TicketsInv ELSE NoTickets)'
  <2>1. CASE offered = "tickets"
    <3>1. TicketsNext \/ UNCHANGED <<notes, ticketVars>>
      BY <2>1 DEF Next, Desks, InScene, officeVars, deskVars, noticeVars, StaffChange, SetStatus
    <3>2. TicketsInv'  BY <2>1, <3>1, TicketsKeep DEF OfficeInv
    <3> QED BY <1>1, <2>1, <3>2
  <2>2. CASE offered # "tickets"
    <3>1. UNCHANGED ticketVars  BY <2>2 DEF Next, Desks, InScene, officeVars, deskVars
    <3>2. NoTickets'  BY <2>2, <3>1 DEF OfficeInv, NoTickets, ticketVars
    <3> QED BY <1>1, <2>2, <3>2
  <2> QED BY <2>1, <2>2
<1>5. (IF offered = "order" THEN BoardInv ELSE NoDrags /\ DOMAIN bench = Benches)'
  <2>1. CASE offered = "order"
    <3>1. OrderNext \/ UNCHANGED boardVars  BY <2>1 DEF Next, Desks, InScene, officeVars, deskVars
    <3>2. BoardInv'  BY <2>1, <3>1, BoardKeeps DEF OfficeInv
    <3> QED BY <1>1, <2>1, <3>2
  <2>2. CASE offered # "order"
    <3>1. PartsNext \/ LabelsNext
            \/ UNCHANGED boardVars  BY <2>2 DEF Next, Desks, InScene, officeVars, deskVars
    <3>2. NoDrags' /\ DOMAIN bench' = Benches  BY <2>2, <3>1, DragsStayAway DEF OfficeInv
    <3> QED BY <1>1, <2>2, <3>2
  <2> QED BY <2>1, <2>2
<1> QED BY <1>3, <1>o, <1>4, <1>5 DEF OfficeInv

\* The inductive invariant of the office: what each page keeps.
THEOREM OfficeInvariance == Spec => []OfficeInv
BY OfficeStarts, OfficeKeeps, PTL DEF Spec

\* Every public answer of a ticket is told to the other side, whoever takes the ticket
\* over between the message and the notification (AddMessage, notifyOther).
THEOREM AnswersAreTold == Spec => []EveryAnswerTold
<1>1. OfficeInv => EveryAnswerTold
  <2>1. TicketsInv => EveryAnswerTold  BY DEF TicketsInv
  <2>2. NoTickets => EveryAnswerTold  BY DEF NoTickets, EveryAnswerTold, Answers
  <2> QED BY <2>1, <2>2 DEF OfficeInv
<1> QED BY <1>1, OfficeInvariance, PTL

\* Whatever two editors do at once, a version of the rulebook highlights the rules the
\* version before it did not say, and no others (Save).
THEOREM HighlightsAreTrue == Spec => []HighlightsTrue
<1>1. OfficeInv => HighlightsTrue  BY ChangesRead DEF OfficeInv
<1> QED BY <1>1, OfficeInvariance, PTL

\* What was typed into the section editor, whatever its sections, rules and points, is
\* what is read of the version that was saved from it, in its order (bodyFromSections,
\* writeRules, parseDoc); only rules, points and paragraphs that say nothing are dropped.
THEOREM NothingTypedLost == Spec => []NothingLost
<1>1. OfficeInv => NothingLost  BY FormsRead DEF OfficeInv
<1> QED BY <1>1, OfficeInvariance, PTL

\* Nothing that was written into a document of a drive is lost to another save
\* (UpdateItem).
THEOREM DocumentsComplete == Spec => []VersionsComplete
<1>1. OfficeInv => VersionsComplete  BY DEF OfficeInv, DriveInv
<1> QED BY <1>1, OfficeInvariance, PTL

\* The log of a gang tells who is in it and as what, though leaders act at once.
THEOREM GangLogsReplay == Spec => []GangLogReplays
<1>1. OfficeInv => GangLogReplays  BY GangLogTold DEF OfficeInv
<1> QED BY <1>1, OfficeInvariance, PTL

\* steam.refresh: however refreshes overlap and fail, the count kept of a player is not above
\* all of what was there first and what the staff was or is about to be told, except when the
\* flag that was to tell it was lost with a failed insert or a stop of the website.  It says
\* nothing of a rise to no more than what was told before.
THEOREM OnlyLostFlagsUntold == Spec => []UntoldOnlyIfLost
<1>1. OfficeInv => UntoldOnlyIfLost  BY DEF OfficeInv, SteamInv
<1> QED BY <1>1, OfficeInvariance, PTL

\* What the bot posts of a component is what the latest check it read said, and an earlier
\* one said otherwise, whatever it missed while it was down (RunStatus).
THEOREM BotPostsTrue == Spec => []PostsAreTrue
<1>1. OfficeInv => PostsAreTrue  BY PostsTrue DEF OfficeInv
<1> QED BY <1>1, OfficeInvariance, PTL

\* Time in which the website recorded nothing is shown as time it was down, whatever went
\* wrong and whenever: all but one interval for each start of the website and one for each
\* midnight (Snapshot).
THEOREM OutagesAreCounted == Spec => []OutagesCount
<1>1. OfficeInv => OutagesCount  BY OutagesCounted DEF OfficeInv, BulletinInv
<1> QED BY <1>1, OfficeInvariance, PTL

\* A card lands directly above the one it is dropped on, or at the end of its column,
\* whoever else moves cards (Move, under the lock of the board).
THEOREM CardsLandThere == Spec => LandsBefore
<1>1. OfficeInv /\ [Next]_officeVars => CardLands
  <2> SUFFICES ASSUME OfficeInv, [Next]_officeVars PROVE CardLands  OBVIOUS
  <2>1. CASE offered = "order"
    <3>1. OrderNext \/ UNCHANGED boardVars  BY <2>1 DEF Next, Desks, InScene, officeVars, deskVars
    <3> QED BY <2>1, <3>1, CardsLand DEF OfficeInv
  <2>2. CASE offered # "order"  BY <2>2, NobodyLands DEF OfficeInv
  <2> QED BY <2>1, <2>2
<1>2. OfficeInv /\ [Next]_officeVars => [CardLands]_boardVars  BY <1>1
<1>3. LandsBefore <=> [][CardLands]_boardVars  BY DEF LandsBefore, CardLands
<1> QED BY <1>2, <1>3, OfficeInvariance, PTL DEF Spec

===============================================================================
