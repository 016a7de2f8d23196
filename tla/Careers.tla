-------------------------------- MODULE Careers --------------------------------
(***************************************************************************)
(* Who is on the staff: applications to join it and their interviews, the  *)
(* rank, status and team of its members, leave that ends by itself, notes  *)
(* about members; and the letters the applicants get, queued in the outbox *)
(* of Delivery by the transaction that decides.                            *)
(*                                                                         *)
(* A request is a goroutine of the website.  One whose transaction reads   *)
(* only rows it has locked, or whose one statement checks and writes, is   *)
(* one action.  Others are kept in steps: the permission or the state that *)
(* was read first, and each transaction.  Any step but the first may find  *)
(* its client gone, the database failing or choosing it as the victim of a *)
(* deadlock (GiveUp).                                                      *)
(*                                                                         *)
(* A rank stands for its level, 0 for none.  Answers, reasons, the staff   *)
(* log and the notices inside the website are left out.                    *)
(***************************************************************************)
EXTENDS Delivery

CONSTANTS
    People,
    Founders,         \* the rank of those on the staff in the beginning, 0 for the others
    TopRank, HeadAdminLevel,
    Grants,           \* the permissions of a rank
    Linked,           \* people with a Discord account
    Banned,           \* people with a running ban
    Web,              \* requests running at the same time
    Teams, Outcomes, None,
    Scenarios,        \* sets of operations: a behaviour uses those of one of them
    MaxApps, MaxNotes   \* bounds

ASSUME CareersAssumption ==
    /\ TopRank \in Nat /\ HeadAdminLevel \in 1..TopRank
    /\ Founders \in [People -> 0..TopRank]
    /\ Linked \subseteq People /\ Banned \subseteq People
    /\ {MaxApps, MaxNotes} \subseteq Nat
    /\ None \notin Teams /\ Outcomes \subseteq {"pass", "fail"}
    /\ Keys = (1..MaxApps) \X {"interview", "decision"}

VARIABLES
    staff,        \* of players: [rank, status, ends, team]
    hired,        \* who has a row of rank_changes from no rank to one
    apps,         \* staff_applications, by id: [player, status, cooling]
    interviews,   \* staff_interviews: the outcome, "none" without a row
    notes,        \* staff_notes: <<about, author>>
    request,      \* what each request is doing
    offered       \* the operations of this behaviour

office == <<staff, hired, apps, interviews, notes>>
vars == <<office, request, offered, deliveryVars>>

Idle == [at |-> "idle"]
Outsider == [rank |-> 0, status |-> "active", ends |-> "never", team |-> None]

Init ==
    /\ DeliveryInit
    /\ staff = [p \in People |-> [Outsider EXCEPT !.rank = Founders[p]]]
    /\ hired = {} /\ apps = <<>> /\ notes = {}
    /\ interviews = [a \in 1..MaxApps |-> "none"]
    /\ request = [w \in Web |-> Idle]
    /\ offered \in Scenarios

-------------------------------------------------------------------------------
\* auth.Can: nobody on leave or suspended may do anything.
Can(x, key) ==
    /\ staff[x].rank > 0 /\ staff[x].status = "active"
    /\ key \in Grants[staff[x].rank]

Open(a) == apps[a].status \in {"pending", "interview"}
Level(x) == staff[x].rank

\* Mutant: one's equals count as below.
OutranksEquals(by, p) == by # p /\ (Level(p) <= Level(by) \/ Level(by) >= HeadAdminLevel)

\* checkSeniority, with both rows locked: not yourself, and only those below you.
Outranks(by, p) == by # p /\ (Level(p) < Level(by) \/ Level(by) >= HeadAdminLevel)

\* dm: a letter to someone who linked Discord.
Letter(p, key, text) == IF p \in Linked THEN Enqueue(key, text) ELSE UNCHANGED outbox

-------------------------------------------------------------------------------
\* Applying

\* latestStaffApp
Latest(p) == LET own == {a \in DOMAIN apps : apps[a].player = p}
             IN {a \in own : \A other \in own : other <= a}

\* StaffEligibility.  Only a linked account counts, not whether Discord knows it.
StaffEligibility(p) ==
    /\ Level(p) = 0 /\ p \notin Banned /\ p \in Linked
    /\ \A a \in Latest(p) : ~Open(a) /\ ~apps[a].cooling

StaffApplySubmit(w) ==
    /\ request[w] = Idle
    /\ \E p \in People :
         /\ StaffEligibility(p)
         /\ request' = [request EXCEPT ![w] = [at |-> "apply", who |-> p]]
    /\ UNCHANGED <<office, offered, deliveryVars>>

\* Mutant: there is no unique index.
InsertUnchecked(w) ==
    /\ request[w].at = "apply"
    /\ Len(apps) < MaxApps
    /\ apps' = Append(apps, [player |-> request[w].who, status |-> "pending", cooling |-> FALSE])
    /\ request' = [request EXCEPT ![w] = Idle]
    /\ UNCHANGED <<staff, hired, interviews, notes, offered, deliveryVars>>

\* SubmitStaff's insert: idx_staff_applications_open refuses a second open one.
SubmitStaff(w) ==
    /\ request[w].at = "apply"
    /\ Len(apps) < MaxApps
    /\ LET p == request[w].who IN
       IF \E a \in DOMAIN apps : apps[a].player = p /\ Open(a) THEN UNCHANGED apps
       ELSE apps' = Append(apps, [player |-> p, status |-> "pending", cooling |-> FALSE])
    /\ request' = [request EXCEPT ![w] = Idle]
    /\ UNCHANGED <<staff, hired, interviews, notes, offered, deliveryVars>>

WithdrawStaff(p) ==
    \E a \in DOMAIN apps :
        apps[a].player = p /\ Open(a) /\ apps' = [apps EXCEPT ![a].status = "withdrawn"]

StaffApplyWithdraw ==
    /\ \E p \in People : WithdrawStaff(p)
    /\ UNCHANGED <<staff, hired, interviews, notes, request, offered, deliveryVars>>

-------------------------------------------------------------------------------
\* Reviewing

\* lockOpenStaff
LockOpenStaff(a, by) == Open(a) /\ apps[a].player # by

\* What every action on an application asks for.
ApplicationAction(x) == Can(x, "applications.view") /\ Can(x, "applications.decide")

ToInterview(x, a) ==
    /\ ApplicationAction(x)
    /\ LockOpenStaff(a, x) /\ apps[a].status = "pending"
    /\ apps' = [apps EXCEPT ![a].status = "interview"]
    /\ interviews' = [interviews EXCEPT ![a] = IF @ = "none" THEN "open" ELSE @]
    /\ Letter(apps[a].player, <<a, "interview">>, "interview")
    /\ UNCHANGED <<staff, hired, notes, request, offered, worker, posterVars, faults>>

SaveInterview(x, a) ==
    /\ ApplicationAction(x)
    /\ apps[a].status = "interview"
    /\ \E outcome \in {"open"} \cup Outcomes : interviews' = [interviews EXCEPT ![a] = outcome]
    /\ UNCHANGED <<staff, hired, apps, notes, request, offered, deliveryVars>>

RejectStaff(x, a) ==
    /\ ApplicationAction(x)
    /\ LockOpenStaff(a, x)
    /\ apps' = [apps EXCEPT ![a].status = "rejected", ![a].cooling = TRUE]
    /\ Letter(apps[a].player, <<a, "decision">>, "rejected")
    /\ UNCHANGED <<staff, hired, interviews, notes, request, offered, worker, posterVars, faults>>

\* The staff pages ask for one permission, each of their actions for another.
MayStaff(x, key) == Can(x, "staff.view") /\ Can(x, key)

\* The ranks of this behaviour: all, or removing from the staff only.
Ranks == IF "rank" \in offered THEN 0..TopRank ELSE {0}

\* A change of rank under way: for an application or not, and the team that follows.
Placing(by, p, rank, team, a) ==
    [at |-> "rank", by |-> by, who |-> p, rank |-> rank, team |-> team, app |-> a]

\* The entry ranks the form offers.  Without one it sends none, which is read as 0.
EntryRanks(x) ==
    LET below == {rank \in 1..TopRank : rank < Level(x) \/ Level(x) >= HeadAdminLevel}
    IN IF below = {} THEN {0} ELSE below

\* Mutant: the application is decided before the rank is given.
AcceptStaffFirst(w, x) ==
    /\ request[w] = Idle /\ ApplicationAction(x)
    /\ \E a \in DOMAIN apps, rank \in EntryRanks(x) :
         /\ Open(a) /\ apps[a].player # x
         /\ request' = [request EXCEPT ![w] =
                [Placing(x, apps[a].player, rank, None, a) EXCEPT !.at = "accept"]]
    /\ UNCHANGED <<office, offered, deliveryVars>>

\* AcceptStaff reads the application without locking it.
AcceptStaff(w, x) ==
    /\ request[w] = Idle /\ ApplicationAction(x)
    /\ \E a \in DOMAIN apps, rank \in EntryRanks(x), team \in Teams \cup {None} :
         /\ Open(a) /\ apps[a].player # x
         /\ request' = [request EXCEPT ![w] = Placing(x, apps[a].player, rank, team, a)]
    /\ UNCHANGED <<office, offered, deliveryVars>>

\* AcceptStaff's last transaction, whatever became of the application meanwhile.
Accepted(w) ==
    LET a == request[w].app IN
    /\ request[w].at = "accept"
    /\ apps' = [apps EXCEPT ![a].status = "accepted", ![a].cooling = FALSE]
    /\ Letter(apps[a].player, <<a, "decision">>, "accepted")
    /\ request' = [request EXCEPT ![w] = Idle]
    /\ UNCHANGED <<staff, hired, interviews, notes, offered, worker, posterVars, faults>>

CooldownOver ==
    /\ \E a \in DOMAIN apps : apps[a].cooling /\ apps' = [apps EXCEPT ![a].cooling = FALSE]
    /\ UNCHANGED <<staff, hired, interviews, notes, request, offered, deliveryVars>>

-------------------------------------------------------------------------------
\* Members of the staff

\* StaffSetRank: rank 0 removes from the staff.
StaffSetRank(w, x) ==
    /\ request[w] = Idle
    /\ \E p \in People, rank \in Ranks :
         /\ MayStaff(x, IF rank = 0 THEN "staff.remove" ELSE "staff.edit")
         /\ request' = [request EXCEPT ![w] = Placing(x, p, rank, None, None)]
    /\ UNCHANGED <<office, offered, deliveryVars>>

\* StaffAdd: anyone, by their Steam ID.
StaffAdd(w, x) ==
    /\ request[w] = Idle /\ MayStaff(x, "staff.edit")
    /\ \E p \in People, rank \in 1..TopRank :
         request' = [request EXCEPT ![w] = Placing(x, p, rank, None, None)]
    /\ UNCHANGED <<office, offered, deliveryVars>>

\* StaffSetPlacement: the rank if it differs from the one read, then the team.
StaffSetPlacement(w, x) ==
    /\ request[w] = Idle /\ MayStaff(x, "staff.edit")
    /\ \E p \in People, team \in Teams :
         \E rank \in (Ranks \cup {Level(p)}) \ {0} :
             request' = [request EXCEPT ![w] =
                 [Placing(x, p, rank, team, None) EXCEPT !.at = IF rank = Level(p) THEN "team" ELSE @]]
    /\ UNCHANGED <<office, offered, deliveryVars>>

\* What follows a transaction of a request.
Continue(w, at) == request' = [request EXCEPT ![w] = IF at = "idle" THEN Idle ELSE [@ EXCEPT !.at = at]]

AfterTeam(r) == IF r.app # None THEN "accept" ELSE "idle"
AfterRank(r) == IF r.team # None THEN "team" ELSE AfterTeam(r)

\* Leaving the staff clears status and team.
Placed(p, rank) == IF rank = 0 THEN Outsider ELSE [staff[p] EXCEPT !.rank = rank]

\* SetRank
SetRank(w) ==
    LET r == request[w] IN
    /\ r.at = "rank"
    /\ IF Outranks(r.by, r.who) /\ (r.rank < Level(r.by) \/ Level(r.by) >= HeadAdminLevel)
       THEN /\ staff' = [staff EXCEPT ![r.who] = Placed(r.who, r.rank)]
            /\ hired' = IF Level(r.who) = 0 /\ r.rank > 0 THEN hired \cup {r.who} ELSE hired
            /\ Continue(w, AfterRank(r))
       ELSE Continue(w, "idle") /\ UNCHANGED <<staff, hired>>
    /\ UNCHANGED <<apps, interviews, notes, offered, deliveryVars>>

\* SetTeam; StaffSetPlacement asks for the permission again.
SetTeam(w) ==
    LET r == request[w] IN
    /\ r.at = "team"
    /\ IF /\ Outranks(r.by, r.who) /\ Level(r.who) > 0
          /\ r.app # None \/ Can(r.by, "staff.edit")
       THEN staff' = [staff EXCEPT ![r.who].team = r.team] /\ Continue(w, AfterTeam(r))
       ELSE Continue(w, "idle") /\ UNCHANGED staff
    /\ UNCHANGED <<hired, apps, interviews, notes, offered, deliveryVars>>

\* RequiredStatusPermission
RequiredStatusPermission(current, next) ==
    IF "suspended" \in {current, next} THEN "staff.suspend" ELSE "staff.loa"

\* StaffSetStatus: the permission depends on the status that was read.
StaffSetStatus(w, x) ==
    /\ request[w] = Idle
    /\ \E p \in People, status \in {"active", "loa", "suspended"}, ends \in {"never", "later"} :
         /\ MayStaff(x, RequiredStatusPermission(staff[p].status, status))
         /\ request' = [request EXCEPT ![w] =
                [at |-> "status", by |-> x, who |-> p, status |-> status,
                 ends |-> IF status = "active" THEN "never" ELSE ends]]
    /\ UNCHANGED <<office, offered, deliveryVars>>

\* SetStatus
SetStatus(w) ==
    LET r == request[w] IN
    /\ r.at = "status"
    /\ IF Outranks(r.by, r.who) /\ Level(r.who) > 0
       THEN staff' = [staff EXCEPT ![r.who].status = r.status, ![r.who].ends = r.ends]
       ELSE UNCHANGED staff
    /\ request' = [request EXCEPT ![w] = Idle]
    /\ UNCHANGED <<hired, apps, interviews, notes, offered, deliveryVars>>

StaffAddNote(x) ==
    /\ MayStaff(x, "staff.notes") /\ Cardinality(notes) < MaxNotes
    /\ \E p \in People \ {x} : notes' = notes \cup {<<p, x>>}
    /\ UNCHANGED <<staff, hired, apps, interviews, request, offered, deliveryVars>>

Expired(p) == staff[p].status = "loa" /\ staff[p].ends = "past"

\* EndExpiredLOAs, every five minutes, for all of them; suspensions stay.
EndExpiredLOAs ==
    /\ \E p \in People : Expired(p)
    /\ staff' = [p \in People |->
           IF Expired(p) THEN [staff[p] EXCEPT !.status = "active", !.ends = "never"] ELSE staff[p]]
    /\ UNCHANGED <<hired, apps, interviews, notes, request, offered, deliveryVars>>

\* The end date of a leave or a suspension passes.
EndDatePasses ==
    /\ \E p \in People : staff[p].ends = "later" /\ staff' = [staff EXCEPT ![p].ends = "past"]
    /\ UNCHANGED <<hired, apps, interviews, notes, request, offered, deliveryVars>>

\* A request ends without its next transaction.
GiveUp(w) ==
    /\ request[w] # Idle
    /\ request' = [request EXCEPT ![w] = Idle]
    /\ UNCHANGED <<office, offered, deliveryVars>>

-------------------------------------------------------------------------------
Offered(what) == what \in offered

Recruiting(w) ==
    \/ Offered("apply") /\ StaffApplySubmit(w)
    \/ SubmitStaff(w)
    \/ \E x \in People : Offered("accept") /\ AcceptStaff(w, x)
    \/ Accepted(w)

Reviewing ==
    \/ StaffApplyWithdraw
    \/ \E x \in People, a \in DOMAIN apps :
         \/ ToInterview(x, a)
         \/ Offered("interview") /\ SaveInterview(x, a)
         \/ RejectStaff(x, a)
    \/ CooldownOver

Managing(w) ==
    \/ \E x \in People :
         \/ (Offered("rank") \/ Offered("remove")) /\ StaffSetRank(w, x)
         \/ Offered("rank") /\ StaffAdd(w, x)
         \/ Offered("placement") /\ StaffSetPlacement(w, x)
         \/ Offered("status") /\ StaffSetStatus(w, x)
    \/ SetRank(w) \/ SetTeam(w) \/ SetStatus(w)

Delivering ==
    \/ Offered("outbox") /\ EnqueueNow
    \/ Offered("log") /\ LogStaffAction
    \/ TakeBatch \/ Send \/ Mark \/ BackoffOver
    \/ TakePending \/ PostRow \/ MarkPosted
    \/ DayPasses \/ BotRestart

Next ==
    \/ \E w \in Web : Recruiting(w) \/ Managing(w) \/ GiveUp(w)
    \/ Reviewing
    \/ \E x \in People : Offered("notes") /\ StaffAddNote(x)
    \/ EndDatePasses \/ EndExpiredLOAs
    \/ (Offered("outbox") \/ Offered("log")) /\ Delivering /\ UNCHANGED <<office, request, offered>>

Spec == Init /\ [][Next]_vars

\* The sweep and Delivery's loops go round as long as the website runs.
RunLOASweep == WF_vars(EndExpiredLOAs)
FairSpec == Spec /\ RunLOASweep /\ OutboxRun /\ PosterRun /\ TimePasses

-------------------------------------------------------------------------------
\* Properties

Requests ==
    {Idle}
    \cup [at : {"apply"}, who : People]
    \cup [at : {"rank", "team", "accept"}, by : People, who : People, rank : 0..TopRank,
          team : Teams \cup {None}, app : (1..MaxApps) \cup {None}]
    \cup [at : {"status"}, by : People, who : People, status : {"active", "loa", "suspended"},
          ends : {"never", "later"}]

\* Every table holds rows of its kind, a request is at one of its steps, and whoever
\* is not on the staff has no status and no team left over ("so a returning member
\* starts clean", SetRank).
TypeOK ==
    /\ DeliveryTypeOK
    /\ staff \in [People -> [rank : 0..TopRank, status : {"active", "loa", "suspended"},
                             ends : {"never", "later", "past"}, team : Teams \cup {None}]]
    /\ hired \subseteq People
    /\ apps \in Seq([player : People, cooling : BOOLEAN,
                     status : {"pending", "interview", "accepted", "rejected", "withdrawn"}])
    /\ Len(apps) <= MaxApps
    /\ interviews \in [1..MaxApps -> {"none", "open", "pass", "fail"}]
    /\ notes \subseteq People \X People
    /\ request \in [Web -> Requests]
    /\ offered \in Scenarios
    /\ \A p \in People : staff[p].rank = 0 => staff[p] = Outsider

\* Nobody has two applications in progress, however many forms they send at once
\* (the check of StaffEligibility, and the index behind SubmitStaff's insert).
OneOpenApplication ==
    \A a, b \in DOMAIN apps : a # b /\ apps[a].player = apps[b].player => ~(Open(a) /\ Open(b))

\* Whose application is accepted was given a rank, though the rank is given in an
\* earlier transaction that may be refused (AcceptStaff).
AcceptedWereHired ==
    \A a \in DOMAIN apps : apps[a].status = "accepted" => apps[a].player \in hired

\* Applications are one at a time, and accepting one hires (SubmitStaff, AcceptStaff).
ApplicationsInOrder == TypeOK /\ OneOpenApplication /\ AcceptedWereHired

InChargeOf(p) == {x \in People \ {p} : Level(x) > Level(p) \/ Level(x) >= HeadAdminLevel}

\* A member of the staff is changed only by someone who is above them at that very
\* moment, or is a head admin, and never by themselves; nobody raises another to
\* their own level; and only leave ends without anyone's doing (checkSeniority under
\* both locks, SetRank, EndExpiredLOAs).
OnlyFromAbove ==
    [][\A p \in People :
         \/ [staff'[p] EXCEPT !.ends = "never"] = [staff[p] EXCEPT !.ends = "never"]
         \/ staff[p].status = "loa" /\ staff'[p] = [staff[p] EXCEPT !.status = "active", !.ends = "never"]
         \/ \E x \in InChargeOf(p) :
              /\ \E w \in Web : request[w].at \in {"rank", "team", "status"} /\ request[w].by = x
                                /\ request[w].who = p
              /\ staff'[p].rank \in {0, staff[p].rank} \/ staff'[p].rank < Level(x)
                   \/ Level(x) >= HeadAdminLevel]_vars

\* Leave that is over ends (RunLOASweep).
LeaveEnds == \A p \in People : Expired(p) ~> ~Expired(p)

\* The background loops get done what waits for them.
LoopsGetDone == LeaveEnds /\ EveryMessageEnds

\* The letter an applicant is sent about the decision says what was decided: "if the
\* action commits the message is guaranteed to be queued" (the comment of Enqueue).
ToldTheDecision ==
    \A i \in DOMAIN outbox :
        LET a == outbox[i].key[1] IN
        /\ outbox[i].key[2] = "decision" /\ apps[a].status \in {"accepted", "rejected"}
        => outbox[i].text = apps[a].status

===============================================================================
