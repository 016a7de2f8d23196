-------------------------------- MODULE Tickets --------------------------------
(***************************************************************************)
(* The support tickets of the website.  A player opens one; the player and *)
(* the staff with the support panel write in it; the staff also write      *)
(* notes that the player never sees.  A ticket is assigned to a member of  *)
(* the staff, and each public answer is told to the other side: to the     *)
(* owner, or to whom the ticket is assigned to when it is told.            *)
(*                                                                         *)
(* A request runs its statements one by one; what the session may do was   *)
(* resolved by the middleware before the first.                            *)
(***************************************************************************)
EXTENDS Notices

CONSTANTS
    Clerks,         \* requests to a ticket that run at the same time
    Supporters,     \* whose rank or override has panel.support
    Categories,     \* ids of ticket_categories, which nothing edits
    Parent,         \* of a category, or 0
    MaxTickets, MaxMessages

VARIABLES
    tickets,        \* support_tickets: [owner, cat, sub, status, urgent, assigned, closedAt]
    messages,       \* support_ticket_messages, with whom it was assigned to while it was
                    \* being told (held), and whether that is over (told)
    trusted,        \* who ever worked support
    desk            \* what a request is doing

ticketVars == <<tickets, messages, trusted, desk>>

AtRest == [at |-> "idle"]
WorksSupport(p) == p \in Supporters /\ status[p] = "active"
Trusted == trusted \cup {p \in People : WorksSupport(p)}

TicketsInit ==
    /\ tickets = <<>> /\ messages = <<>>
    /\ trusted = {p \in People : WorksSupport(p)}
    /\ desk = [c \in Clerks |-> AtRest]

Then(c, next) == desk' = [desk EXCEPT ![c] = next]

-------------------------------------------------------------------------------
\* The player's side

\* validateCategoryPair: a category at the top, and none or one of its own below it.
ValidPair(cat, sub) ==
    /\ cat \in Categories /\ Parent[cat] = 0
    /\ sub # 0 => sub \in Categories /\ Parent[sub] = cat

Message(t, p, internal, over) ==
    [ticket |-> t, author |-> p, internal |-> internal, held |-> {}, told |-> over]

\* CreateTicket: the ticket and its first message in one transaction.
CreateTicket(p, cat, sub, urgent) ==
    /\ Len(tickets) < MaxTickets /\ Len(messages) < MaxMessages
    /\ ValidPair(cat, sub)
    /\ tickets' = Append(tickets, [owner |-> p, cat |-> cat, sub |-> sub, status |-> "open",
                                   urgent |-> urgent, assigned |-> None, closedAt |-> FALSE])
    /\ messages' = Append(messages, Message(Len(tickets) + 1, p, FALSE, TRUE))
    /\ UNCHANGED <<trusted, desk, noticeVars>>

-------------------------------------------------------------------------------
\* ReplyToTicket

MayOpen(p, t) == tickets[t].owner = p \/ WorksSupport(p)

\* The owner or staff, and not of a closed ticket; a note is one only if staff wrote it.
Reply(c, p, t, note) ==
    /\ desk[c] = AtRest /\ MayOpen(p, t) /\ tickets[t].status # "closed"
    /\ Then(c, [at |-> "write", by |-> p, ticket |-> t, internal |-> note /\ WorksSupport(p)])
    /\ trusted' = Trusted
    /\ UNCHANGED <<tickets, messages, noticeVars>>

\* The insert; nobody looks again whether the ticket was closed meanwhile.
Write(c) ==
    /\ desk[c].at = "write" /\ Len(messages) < MaxMessages
    /\ LET q == desk[c] IN
       /\ messages' = Append(messages, [Message(q.ticket, q.by, q.internal, q.internal) EXCEPT
                                           !.held = {tickets[q.ticket].assigned}])
       /\ Then(c, IF q.internal THEN AtRest
                  ELSE [at |-> "assignee", by |-> q.by, ticket |-> q.ticket, message |-> Len(messages) + 1])
    /\ UNCHANGED <<tickets, trusted, noticeVars>>

\* Mutant: staff answer the owner, and an owner who works support is staff.
OtherSideOfStaff(q) ==
    LET t == tickets[q.ticket] IN
    IF WorksSupport(q.by) THEN t.owner ELSE IF t.assigned = q.by THEN None ELSE t.assigned
\* The other side: the owner, or the assignee of now, unless the owner is that too.
OtherSide(q) ==
    LET t == tickets[q.ticket] IN
    IF q.by # t.owner THEN t.owner ELSE IF t.assigned = q.by THEN None ELSE t.assigned

ReadAssignee(c) ==
    /\ desk[c].at = "assignee"
    /\ Then(c, [at |-> "tell", to |-> OtherSide(desk[c]), message |-> desk[c].message])
    /\ UNCHANGED <<tickets, messages, trusted, noticeVars>>

Told(q) == [messages EXCEPT ![q.message].told = TRUE]

Tell(c) ==
    /\ desk[c].at = "tell" /\ (desk[c].to # None => Len(notes) < MaxNotes)
    /\ notes' = IF desk[c].to = None THEN notes ELSE Sent(desk[c].to, desk[c].message)
    /\ messages' = Told(desk[c])
    /\ Then(c, AtRest)
    /\ UNCHANGED <<tickets, trusted, status, signedIn>>

\* A statement fails: the error of a notification is dropped, any other ends the request.
ClerkFails(c) ==
    /\ desk[c] # AtRest /\ Then(c, AtRest)
    /\ UNCHANGED <<tickets, messages, trusted, noticeVars>>

-------------------------------------------------------------------------------
\* The staff's side, for who was let into the support panel

\* A message that is being told notices who holds its ticket meanwhile.
Holding(t, p) ==
    [i \in DOMAIN messages |->
        IF messages[i].ticket = t /\ ~messages[i].told
        THEN [messages[i] EXCEPT !.held = messages[i].held \cup {p}] ELSE messages[i]]

\* AssignTicket to nobody.
Unassign(t) ==
    /\ tickets' = [tickets EXCEPT ![t].assigned = None]
    /\ messages' = Holding(t, None)
    /\ UNCHANGED <<trusted, desk, noticeVars>>

\* AssignTicket: who may be assigned is read first, and whatever their status.
Eligible(c, t, p) ==
    /\ desk[c] = AtRest /\ p \in Supporters
    /\ Then(c, [at |-> "assign", ticket |-> t, to |-> p])
    /\ UNCHANGED <<tickets, messages, trusted, noticeVars>>

\* An open ticket is pending then.
Assign(c) ==
    /\ desk[c].at = "assign"
    /\ LET t == desk[c].ticket row == tickets[t] IN
       /\ tickets' = [tickets EXCEPT ![t] = [row EXCEPT !.assigned = desk[c].to,
                                                        !.status = IF row.status = "open" THEN "pending" ELSE row.status]]
       /\ messages' = Holding(t, desk[c].to)
    /\ Then(c, AtRest)
    /\ UNCHANGED <<trusted, noticeVars>>

SetTicketPriority(t, urgent) ==
    /\ tickets' = [tickets EXCEPT ![t].urgent = urgent]
    /\ UNCHANGED <<messages, trusted, desk, noticeVars>>

SetTicketCategory(t, cat, sub) ==
    /\ ValidPair(cat, sub)
    /\ tickets' = [tickets EXCEPT ![t] = [@ EXCEPT !.cat = cat, !.sub = sub]]
    /\ UNCHANGED <<messages, trusted, desk, noticeVars>>

\* setTicketStatus, of CloseTicket and ReopenTicket.
SetTicketStatus(t, s) ==
    /\ tickets' = [tickets EXCEPT ![t] = [@ EXCEPT !.status = s, !.closedAt = (s = "closed")]]
    /\ UNCHANGED <<messages, trusted, desk, noticeVars>>

Staffed == \E p \in People : WorksSupport(p)

TicketsNext ==
    \/ \E p \in People, cat, sub \in Categories \cup {0}, urgent \in BOOLEAN : CreateTicket(p, cat, sub, urgent)
    \/ \E c \in Clerks, t \in DOMAIN tickets, p \in People :
          \/ (Staffed /\ Eligible(c, t, p))
          \/ \E note \in BOOLEAN : Reply(c, p, t, note)
    \/ \E c \in Clerks :
          Write(c) \/ ReadAssignee(c) \/ Tell(c) \/ Assign(c) \/ ClerkFails(c)
    \/ Staffed /\ \E t \in DOMAIN tickets :
          \/ Unassign(t) \/ \E s \in {"open", "closed"} : SetTicketStatus(t, s)
          \/ \E urgent \in BOOLEAN : SetTicketPriority(t, urgent)
          \/ \E cat, sub \in Categories \cup {0} : SetTicketCategory(t, cat, sub)

-------------------------------------------------------------------------------
IsTold(p, i) == \E n \in DOMAIN notes : notes[n].to = p /\ notes[n].about = i

Answers == {i \in DOMAIN messages : messages[i].held # {}}

\* Each public answer is told to the other side: one of the staff's to the owner, one of
\* the owner's to somebody who held the ticket while it was being told (ReplyToTicket,
\* "Notify the other side (never for internal staff notes)").
EveryAnswerTold ==
    \A i \in Answers :
        LET m == messages[i] owner == tickets[m.ticket].owner IN
        /\ m.internal => ~\E p \in People : IsTold(p, i)
        /\ m.told /\ ~m.internal =>
              IF m.author # owner THEN IsTold(owner, i)
              ELSE m.held \cap {None, owner} # {} \/ \E p \in m.held : IsTold(p, i)

\* The staff a ticket is assigned to can open it ("Resolved the same way session panel
\* access is", fetchSupportStaff); not so of the suspended.
AssigneesHelp ==
    \A t \in DOMAIN tickets : tickets[t].assigned # None => tickets[t].assigned \in trusted

===============================================================================
