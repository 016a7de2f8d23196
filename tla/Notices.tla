-------------------------------- MODULE Notices --------------------------------
(***************************************************************************)
(* The notifications of the website: a line in the list behind the bell,   *)
(* or an essential notice, which is a banner on every page until the       *)
(* person acknowledges it.  A notice goes to the staff of the moment, or   *)
(* to whoever has a session; a single notification is sent by the handlers *)
(* of other modules.                                                       *)
(***************************************************************************)
EXTENDS Sequences, SequencesExt, FiniteSets, Naturals

CONSTANTS
    People,
    FirstStaff,     \* staff_status of the people in the beginning, "none" without a rank
    None,
    MaxNotes        \* bound of this model on the notifications

ASSUME NoticesAssumption == None \notin People

VARIABLES
    status,         \* players.staff_rank_id and staff_status
    signedIn,       \* who has a row of web_sessions
    notes           \* notifications: [to, notice, about, read, acked]

noticeVars == <<status, signedIn, notes>>

NoticesInit ==
    /\ status = FirstStaff
    /\ signedIn = {p \in People : FirstStaff[p] # "none"}
    /\ notes = <<>>

\* The staff are changed by their seniors, people sign in and out (see Careers and
\* Access).
SetStatus(p, s) ==
    /\ status[p] \notin {"none", s} /\ status' = [status EXCEPT ![p] = s]
    /\ UNCHANGED <<signedIn, notes>>

SignInOrOut(p) ==
    /\ signedIn' = IF p \in signedIn THEN signedIn \ {p} ELSE signedIn \cup {p}
    /\ UNCHANGED <<status, notes>>

-------------------------------------------------------------------------------
\* notify.go

Essential(n) == n.notice # 0

\* Send, with what it is about; nobody is told of what happens to player 0.
Sent(p, about) ==
    Append(notes, [to |-> p, notice |-> 0, about |-> about, read |-> FALSE, acked |-> FALSE])

Posted == {notes[n].notice : n \in DOMAIN notes} \cup {0}
NextNotice == CHOOSE k \in 1..(Cardinality(Posted) + 1) : k \notin Posted

\* Broadcast: all staff but the suspended, or everyone who is signed in; in one statement
\* of the transaction that posts the notice.
Audience(whom) ==
    IF whom = "staff" THEN {p \in People : status[p] \notin {"none", "suspended"}} ELSE signedIn

Broadcast(whom, about) ==
    LET new(p) == [to |-> p, notice |-> NextNotice, about |-> about, read |-> FALSE, acked |-> FALSE]
    IN  notes \o SetToSeq({new(p) : p \in Audience(whom)})

\* Open: only one's own.
Open(p, n) ==
    /\ n \in DOMAIN notes /\ notes[n].to = p
    /\ notes' = [notes EXCEPT ![n].read = TRUE]
    /\ UNCHANGED <<status, signedIn>>

\* MarkAllRead: an essential notice is still to be acknowledged.
MarkedRead(p) ==
    [n \in DOMAIN notes |-> IF notes[n].to = p THEN [notes[n] EXCEPT !.read = TRUE] ELSE notes[n]]

MarkAllRead(p) == notes' = MarkedRead(p) /\ UNCHANGED <<status, signedIn>>

\* What a banner still shows, one at a time (PendingEssential).
Unacknowledged(p) == {n \in DOMAIN notes : notes[n].to = p /\ Essential(notes[n]) /\ ~notes[n].acked}

\* Acknowledge, by a button under any of them.
Acknowledge(p, n) ==
    /\ n \in Unacknowledged(p)
    /\ notes' = [notes EXCEPT ![n].acked = TRUE, ![n].read = TRUE]
    /\ UNCHANGED <<status, signedIn>>

\* AdminNoticePost.
AdminNoticePost(whom) ==
    /\ Len(notes) + Cardinality(People) <= MaxNotes
    /\ notes' = Broadcast(whom, 0)
    /\ UNCHANGED <<status, signedIn>>

NoticesNext ==
    \/ \E p \in People : \/ MarkAllRead(p)
                         \/ \E n \in DOMAIN notes : Open(p, n) \/ Acknowledge(p, n)
    \/ \E whom \in {"staff", "everyone"} : AdminNoticePost(whom)

StaffChange == \E p \in People, s \in {"active", "suspended"} : SetStatus(p, s)
PeopleChange == StaffChange \/ \E p \in People : SignInOrOut(p)

===============================================================================
