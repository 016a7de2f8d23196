-------------------------------- MODULE Factions --------------------------------
(***************************************************************************)
(* A faction (police or EMS) and its command panel: the levels of its      *)
(* members, recruits on probation and their training, discipline,          *)
(* discharges, the blacklist, applications to join the faction and its     *)
(* divisions, qualifications, postings and personnel files, and the rules  *)
(* of the ranks.                                                           *)
(*                                                                         *)
(* A request is a goroutine of the website.  A transaction is one action   *)
(* when the rows its outcome depends on are locked or have no writer that  *)
(* could come in between to another outcome than one after the other.      *)
(* Otherwise it is kept in two: what it read, and what it commits.  A      *)
(* change of level holds the rows of both players in between, an entry of  *)
(* discipline that of its player; a row that refers to a locked player     *)
(* waits for it.  A request may end between two of its steps (GiveUp).     *)
(*                                                                         *)
(* A rank stands for its level, 0 for none.  Texts, the Command log,       *)
(* notices and lengths of time are left out; the time in rank a promotion  *)
(* needs, and how long a failed item may not be retaken, may refuse at any *)
(* time, which is a request that gives up.                                 *)
(***************************************************************************)
EXTENDS Integers, Sequences, FiniteSets, FiniteSetsExt

CONSTANTS
    People,
    Founders,         \* the level of each in the beginning
    TopLevel,
    FirstRanks,       \* faction_rank_names: [command, cabinet, upTo, slots, quals] of a level
    Configure,        \* staff with factions.configure
    EditLevels,       \* staff with players.edit_police or players.edit_medic
    Quals, Divisions, \* Divisions[d]: [admin, roles, minLevel, quals]
    Items,            \* of the training sheet
    Points,           \* what an entry may carry
    SlotSizes, RankQuals,   \* what may be set in the rules of a rank
    Web,              \* requests running at the same time
    None,
    Scenarios,        \* sets of operations: a behaviour uses those of one of them
    MaxProbations, MaxEntries, MaxApps, MaxListed, MaxDischarges   \* bounds

ASSUME FactionsAssumption ==
    /\ TopLevel \in Nat \ {0} /\ Founders \in [People -> 0..TopLevel]
    /\ None \notin People /\ Points \subseteq Nat \ {0}
    /\ Configure \subseteq People /\ EditLevels \subseteq People
    /\ {MaxProbations, MaxEntries, MaxApps, MaxListed, MaxDischarges} \subseteq Nat
    /\ DOMAIN FirstRanks = 1..TopLevel /\ \A l \in 1..TopLevel : FirstRanks[l].upTo \in 0..(l - 1)
    /\ \A d \in DOMAIN Divisions :
           /\ Divisions[d].roles \in Seq(STRING) /\ Len(Divisions[d].roles) > 0
           /\ Divisions[d].quals \subseteq Quals

VARIABLES
    level,        \* players.cop_level or medic_level
    lastLevel,    \* what they had before their last removal (faction_log)
    probations,   \* faction_probations, by id: [who, status, fto, sheet]
    posting,      \* faction_member_divisions: the role of a player in a division
    file,         \* faction_members and faction_roll_call: [status, mark]
    ranks,        \* faction_rank_names
    held, heads,  \* faction_member_quals; faction_quals.head_id
    entries,      \* faction_discipline, by id: [who, kind, points, of, level, live]
    suspensions,  \* faction_suspensions, by id: [who, entry, live]
    discharges,   \* faction_discharges: [who, last, type]
    listed,       \* faction_blacklist, by id: [who, live]
    apps,         \* faction_applications, by id: [who, status, cooling]
    admitted,     \* the applications a level was given for
    letters,      \* the outbox's letter about an application
    divapps,      \* faction_division_applications, by id: [who, div, status, cooling]
    request,      \* what each request is doing
    offered       \* the operations of this behaviour

members == <<level, lastLevel, probations, posting, file>>
quals == <<held, heads>>
books == <<entries, suspensions, discharges, listed>>
desk == <<apps, admitted, letters, divapps>>
tables == <<members, ranks, quals, books, desk>>
vars == <<tables, request, offered>>

Idle == [at |-> "idle"]
NoFile == [status |-> "none", mark |-> ""]

Init ==
    /\ level = Founders /\ lastLevel = [p \in People |-> 0]
    /\ probations = <<>>
    /\ posting = [p \in People |-> [d \in DOMAIN Divisions |-> None]]
    /\ file = [p \in People |-> NoFile]
    /\ ranks = FirstRanks
    /\ held = [p \in People |-> {}] /\ heads = [q \in Quals |-> None]
    /\ entries = <<>> /\ suspensions = <<>> /\ discharges = {} /\ listed = <<>>
    /\ apps = <<>> /\ admitted = {} /\ divapps = <<>>
    /\ letters = [a \in 1..MaxApps |-> None]
    /\ request = [w \in Web |-> Idle]
    /\ offered \in Scenarios

-------------------------------------------------------------------------------
\* Authority, as read at one moment

IsCommand(x) == level[x] > 0 /\ ranks[level[x]].command
Cabinet(x) == IsCommand(x) /\ ranks[level[x]].cabinet
TargetCabinet(p) == level[p] > 0 /\ ranks[level[p]].cabinet

\* CanPromote
CanPromote(l) == ranks[l].command /\ ranks[l].upTo \in 1..(l - 1)
UpTo(x) == IF level[x] > 0 /\ CanPromote(level[x]) THEN ranks[level[x]].upTo ELSE 0

Commander(d) == Divisions[d].roles[1]
EntryRole(d) == Divisions[d].roles[Len(Divisions[d].roles)]
LeadRoles(d) ==
    {Divisions[d].roles[i] : i \in 1..(IF Len(Divisions[d].roles) >= 3 THEN 2 ELSE 1)}

AdminDivisions == {d \in DOMAIN Divisions : Divisions[d].admin}
InAdmin(x) == \E d \in AdminDivisions : posting[x][d] # None
AdminCommander(x) == \E d \in AdminDivisions : posting[x][d] = Commander(d)
Leads(x) == {d \in DOMAIN Divisions \ AdminDivisions : posting[x][d] \in LeadRoles(d)}
FTO(x) == "FTO" \in held[x]

\* CommandIn: who has the panel.
CommandIn(x) == level[x] > 0 /\ (IsCommand(x) \/ InAdmin(x) \/ Leads(x) # {} \/ FTO(x))

\* panelActor: Management acts by override only when it has no access of its own.
PanelOverride(x) == x \in Configure /\ ~CommandIn(x)

\* standing
HasStanding(x, override) == override \/ (level[x] > 0 /\ (IsCommand(x) \/ InAdmin(x)))

\* canRecord, with one's own records for cabinet and Management only
CanRecord(x, override, p) ==
    \/ override \/ Cabinet(x)
    \/ p # x /\ ((InAdmin(x) /\ ~TargetCabinet(p)) \/ (IsCommand(x) /\ level[p] < level[x]))

CommandOver(x, p) == IsCommand(x) /\ p # x /\ (Cabinet(x) \/ level[p] < level[x])
RecordsOver(x, p) == HasStanding(x, FALSE) /\ CanRecord(x, FALSE, p)
TrainingOver(x, p) == level[x] > 0 /\ (IsCommand(x) \/ FTO(x)) /\ p # x /\ level[p] > 0

\* ActiveBlacklist
Blacklisted(p) == \E b \in DOMAIN listed : listed[b].who = p /\ listed[b].live

\* Mutant: only the player changed is locked.
LockedTarget(p) ==
    \E w \in Web : request[w].at \in {"changing", "issuing"} /\ p = request[w].who

\* Mutant: an entry of discipline does not lock the player.
LockedByChange(p) ==
    \E w \in Web : request[w].at = "changing" /\ p \in {request[w].by, request[w].who}

\* The row of a player is held by a change of level, of theirs or by them, or by an
\* entry of discipline about them.
Locked(p) ==
    \E w \in Web : \/ request[w].at = "changing" /\ p \in {request[w].by, request[w].who}
                   \/ request[w].at = "issuing" /\ p = request[w].who

\* Mutant: a row may be inserted whoever holds the player's.
MayReferAlways(p) == TRUE

\* A row that refers to a player waits for whoever holds the player's (a foreign key).
MayRefer(p) == ~Locked(p)

Become(w, r) == request' = [request EXCEPT ![w] = r]
Offered(what) == what \in offered

-------------------------------------------------------------------------------
\* Changes of level

\* A change asked for: by whom, by override or not, of whom, to what; what the request
\* does after it, about which row, and the level it read before.
Change(by, override, p, to, then, ref) ==
    [at |-> "change", by |-> by, override |-> override, who |-> p, to |-> to,
     then |-> then, ref |-> ref, read |-> level[p]]

Filled(l) == Cardinality({p \in People : level[p] = l})

\* What setLevel asks of those who do not override.
CommandMaySet(x, p, to) ==
    /\ UpTo(x) > 0 /\ level[p] <= UpTo(x) /\ to <= UpTo(x)
    /\ to > level[p] /\ level[p] > 0 => ranks[to].quals \subseteq held[p]
    /\ level[p] = 0 => ~Blacklisted(p)
    /\ to > 0 /\ ranks[to].slots > 0 => Filled(to) < ranks[to].slots

\* setLevel, up to its update: lock both players and check; the slots and the
\* blacklist are not locked.  Being refused is giving up.
SetLevel(w, r) ==
    /\ ~Locked(r.by) /\ ~Locked(r.who)
    /\ r.by # r.who /\ level[r.who] # r.to /\ r.to <= TopLevel
    /\ r.override \/ CommandMaySet(r.by, r.who, r.to)
    /\ Become(w, [r EXCEPT !.at = "changing"])

\* A request that read something before it calls setLevel.
GoOnToSetLevel(w) == request[w].at = "change" /\ SetLevel(w, request[w]) /\ UNCHANGED <<tables, offered>>

ActiveProbation(p) ==
    {i \in DOMAIN probations : probations[i].who = p /\ probations[i].status = "active"}

\* The probations once p has left.
WithoutProbation(p) ==
    [i \in DOMAIN probations |->
        IF i \in ActiveProbation(p) THEN [probations[i] EXCEPT !.status = "ended"] ELSE probations[i]]

\* afterLevelChange: recruits start probation; leaving ends it, and their postings.
AfterLevelChange(p, to) ==
    CASE level[p] = 0 ->
           /\ IF ActiveProbation(p) # {} THEN UNCHANGED probations
              ELSE /\ Len(probations) < MaxProbations
                   /\ probations' = Append(probations,
                          [who |-> p, status |-> "active", fto |-> None,
                           sheet |-> [i \in Items |-> "none"]])
           /\ file' = [file EXCEPT ![p].status = "active"]
           /\ UNCHANGED posting
      [] level[p] > 0 /\ to = 0 ->
           /\ probations' = WithoutProbation(p)
           /\ posting' = [posting EXCEPT ![p] = [d \in DOMAIN Divisions |-> None]]
           /\ UNCHANGED file
      [] OTHER -> UNCHANGED <<probations, posting, file>>

\* setLevel commits; a request with more to do goes on in another statement.
CommitLevel(w) ==
    LET r == request[w] IN
    /\ r.at = "changing"
    /\ level' = [level EXCEPT ![r.who] = r.to]
    /\ lastLevel' = IF r.to = 0 THEN [lastLevel EXCEPT ![r.who] = level[r.who]] ELSE lastLevel
    /\ AfterLevelChange(r.who, r.to)
    /\ admitted' = IF r.then = "accept" THEN admitted \cup {r.ref} ELSE admitted
    /\ Become(w, IF r.then = "nothing" THEN Idle ELSE [r EXCEPT !.at = "finish"])
    /\ UNCHANGED <<ranks, quals, books, apps, letters, divapps, offered>>

\* CommandSetRank, and CommandRecruit for a level above 0
CommandSetRank(w, x) ==
    /\ request[w] = Idle
    /\ \E p \in People, to \in 0..TopLevel : SetLevel(w, Change(x, FALSE, p, to, "nothing", 0))
    /\ UNCHANGED <<tables, offered>>

CommandRecruit(w, x) ==
    /\ request[w] = Idle
    /\ \E p \in People, to \in 1..TopLevel : SetLevel(w, Change(x, FALSE, p, to, "nothing", 0))
    /\ UNCHANGED <<tables, offered>>

\* PlayerSetFactionLevel: a staff override
PlayerSetFactionLevel(w, x) ==
    /\ request[w] = Idle /\ x \in EditLevels
    /\ \E p \in People, to \in 0..TopLevel : SetLevel(w, Change(x, TRUE, p, to, "nothing", 0))
    /\ UNCHANGED <<tables, offered>>

-------------------------------------------------------------------------------
\* Probation and training

\* SetTraining
SetTraining(x, i, item, result) ==
    /\ probations[i].status = "active" /\ TrainingOver(x, probations[i].who)
    /\ result # probations[i].sheet[item]
    /\ probations' = [probations EXCEPT ![i].sheet[item] = result]
    /\ MayRefer(x) /\ MayRefer(probations[i].who)
    /\ UNCHANGED <<level, lastLevel, posting, file, ranks, quals, books, desk, request, offered>>

\* UpdateProbation: the training officer must be above the recruit.
UpdateProbation(x, i, fto) ==
    /\ probations[i].status = "active" /\ TrainingOver(x, probations[i].who)
    /\ fto # None => fto # probations[i].who /\ level[fto] > level[probations[i].who]
    /\ fto # probations[i].fto
    /\ probations' = [probations EXCEPT ![i].fto = fto]
    /\ MayRefer(x) /\ MayRefer(probations[i].who)
    /\ UNCHANGED <<level, lastLevel, posting, file, ranks, quals, books, desk, request, offered>>

\* ConfirmProbation and EndProbation read the probation and the level without a lock.
ConfirmProbation(w, x, i) ==
    /\ request[w] = Idle
    /\ probations[i].status = "active" /\ \A item \in Items : probations[i].sheet[item] = "pass"
    /\ Become(w, Change(x, FALSE, probations[i].who, level[probations[i].who] + 1, "confirm", i))
    /\ UNCHANGED <<tables, offered>>

Confirmed(w) ==
    LET r == request[w] IN
    /\ r.at = "finish" /\ r.then = "confirm"
    /\ probations' = [probations EXCEPT ![r.ref].status = IF @ = "active" THEN "confirmed" ELSE @]
    /\ Become(w, Idle)
    /\ UNCHANGED <<level, lastLevel, posting, file, ranks, quals, books, desk, offered>>

EndProbation(w, x, i) ==
    /\ request[w] = Idle /\ probations[i].status = "active"
    /\ Become(w, Change(x, FALSE, probations[i].who, 0, "end", i))
    /\ UNCHANGED <<tables, offered>>

\* A discharge record, with the level that was read before the change.
Discharged(r, type) ==
    /\ Cardinality(discharges) < MaxDischarges
    /\ discharges' = discharges \cup {[who |-> r.who, last |-> r.read, type |-> type]}

Ended(w) ==
    LET r == request[w] IN
    /\ r.at = "finish" /\ r.then = "end"
    /\ probations' = [probations EXCEPT ![r.ref].status = "ended"]
    /\ Discharged(r, "probation_ended")
    /\ Become(w, Idle)
    /\ UNCHANGED <<level, lastLevel, posting, file, ranks, quals, entries, suspensions, listed, desk, offered>>

\* CommandProbation
CommandProbation(w, x) ==
    \E i \in DOMAIN probations :
        \/ Offered("train") /\ \E item \in Items, result \in {"pass", "fail", "none"} : SetTraining(x, i, item, result)
        \/ Offered("train") /\ \E fto \in People \cup {None} : UpdateProbation(x, i, fto)
        \/ Offered("confirm") /\ ConfirmProbation(w, x, i)
        \/ Offered("end") /\ EndProbation(w, x, i)

-------------------------------------------------------------------------------
\* Discipline

\* Ladder: the highest step of it passed is what crossing leads to.
Ladder == {10, 15, 20, 30, 40, 50}
Crossed(before, after) ==
    LET passed == {t \in Ladder : before < t /\ after >= t} IN IF passed = {} THEN 0 ELSE Max(passed)

Suspends(t) == t \in {10, 15, 20, 30}
Demotes(t) == t = 30
Terminates(t) == t \in {40, 50}
Blacklists(t) == t = 50

Corrected(e) == \E c \in DOMAIN entries : entries[c].of = e
Conversions(p) == {e \in DOMAIN entries : entries[e].who = p /\ entries[e].kind = "mvw_conversion"}

\* StandingOf: active points; active warnings since the last conversion.
ActivePoints(p) ==
    MapThenSumSet(LAMBDA e : entries[e].points,
                  {e \in DOMAIN entries : entries[e].who = p /\ entries[e].live})
ActiveMVWs(p) ==
    {e \in DOMAIN entries :
        /\ entries[e].who = p /\ entries[e].kind = "mvw" /\ entries[e].live
        /\ ~Corrected(e) /\ \A c \in Conversions(p) : c < e}

MVWsPerConversion == 3
MVWConversionPoints == 10

\* What may be issued in this behaviour; 0 is a marked verbal warning.
Amounts == (IF "points" \in offered THEN Points ELSE {})
           \cup (IF "warnings" \in offered THEN {0} ELSE {})

\* IssueDiscipline locks the player and reads where they stand.
IssueDiscipline(w, x, p, points, apply) ==
    /\ request[w] = Idle
    /\ CommandOver(x, p) /\ level[p] > 0 /\ ~Locked(p)
    /\ Become(w, [at |-> "issuing", by |-> x, who |-> p, points |-> points, apply |-> apply,
                  before |-> ActivePoints(p), warnings |-> Cardinality(ActiveMVWs(p)),
                  rankOK |-> level[p] <= UpTo(x)])
    /\ UNCHANGED <<tables, offered>>

CommandDisciplineIssue(w, x) ==
    \E p \in People, points \in Amounts, apply \in BOOLEAN : IssueDiscipline(w, x, p, points, apply)

Entry(p, kind, points, of) ==
    [who |-> p, kind |-> kind, points |-> points, of |-> of, level |-> level[p], live |-> TRUE]

\* IssueDiscipline commits: the entry, the conversion of a third warning, and what the
\* threshold it crosses leads to.  A change of level follows in its own transaction.
Issued(w) ==
    LET r == request[w]
        converted == r.points = 0 /\ r.warnings + 1 >= MVWsPerConversion
        crossed == IF r.apply THEN Crossed(r.before, r.before + r.points
                                           + (IF converted THEN MVWConversionPoints ELSE 0))
                   ELSE 0
        first == Len(entries) + 1
    IN
    /\ r.at = "issuing"
    /\ Len(entries) + 1 < MaxEntries
    /\ entries' = entries
         \o <<Entry(r.who, IF r.points = 0 THEN "mvw" ELSE "points", r.points, 0)>>
         \o (IF converted THEN <<Entry(r.who, "mvw_conversion", MVWConversionPoints, 0)>> ELSE <<>>)
    /\ suspensions' = IF Suspends(crossed)
                      THEN Append(suspensions, [who |-> r.who, entry |-> first, live |-> TRUE])
                      ELSE suspensions
    /\ IF Blacklists(crossed)
       THEN Len(listed) < MaxListed /\ listed' = Append(listed, [who |-> r.who, live |-> TRUE])
       ELSE UNCHANGED listed
    /\ Become(w, IF Terminates(crossed) /\ r.rankOK
                 THEN Change(r.by, FALSE, r.who, 0, "terminate", first)
                 ELSE IF Demotes(crossed) /\ r.rankOK /\ level[r.who] > 1
                 THEN Change(r.by, FALSE, r.who, level[r.who] - 1, "nothing", 0)
                 ELSE Idle)
    /\ UNCHANGED <<members, ranks, quals, discharges, desk, offered>>

Correctable(e) == entries[e].kind # "correction" /\ ~Corrected(e)

\* CorrectDiscipline: an opposite entry that expires with the first, once; the
\* suspension it caused ends, the rank stays.
CorrectDiscipline(x, e) ==
    LET p == entries[e].who IN
    /\ Correctable(e) /\ IsCommand(x) /\ p # x
    /\ Cabinet(x) \/ (level[p] < level[x] /\ entries[e].level < level[x])
    /\ Len(entries) < MaxEntries /\ MayRefer(x) /\ MayRefer(p)
    /\ entries' = Append(entries, [Entry(p, "correction", -entries[e].points, e)
                                   EXCEPT !.live = entries[e].live])
    /\ suspensions' = [s \in DOMAIN suspensions |->
          IF suspensions[s].entry = e THEN [suspensions[s] EXCEPT !.live = FALSE] ELSE suspensions[s]]
    /\ UNCHANGED <<members, ranks, quals, discharges, listed, desk, request, offered>>

CommandDisciplineCorrect(x) == Offered("correct") /\ \E e \in DOMAIN entries : CorrectDiscipline(x, e)

\* An entry expires, and its correction with it.
EntryExpires(e) ==
    /\ entries[e].live /\ entries[e].of = 0
    /\ entries' = [i \in DOMAIN entries |->
          IF i = e \/ entries[i].of = e THEN [entries[i] EXCEPT !.live = FALSE] ELSE entries[i]]
    /\ UNCHANGED <<members, ranks, quals, suspensions, discharges, listed, desk, request, offered>>

SuspensionEnds(s) ==
    /\ suspensions[s].live
    /\ suspensions' = [suspensions EXCEPT ![s].live = FALSE]
    /\ UNCHANGED <<members, ranks, quals, entries, discharges, listed, desk, request, offered>>

\* Discharge reads the level before setLevel.
Discharge(w, x, p) ==
    /\ request[w] = Idle /\ Become(w, Change(x, FALSE, p, 0, "discharge", 0))
    /\ UNCHANGED <<tables, offered>>

CommandDischarge(w, x) == Offered("discharge") /\ \E p \in People : Discharge(w, x, p)

DischargeRecorded(w) ==
    LET r == request[w] IN
    /\ r.at = "finish" /\ r.then \in {"discharge", "terminate"}
    /\ \E type \in IF r.then = "terminate" THEN {"contract_termination"}
                   ELSE {"resigned", "contract_termination"} : Discharged(r, type)
    /\ Become(w, Idle)
    /\ UNCHANGED <<members, ranks, quals, entries, suspensions, listed, desk, offered>>

\* Nothing AddBlacklist reads is locked.
AddBlacklist(w, x, p) ==
    /\ request[w] = Idle
    /\ CommandOver(x, p) /\ level[p] = 0 /\ ~Blacklisted(p) /\ lastLevel[p] <= UpTo(x)
    /\ Become(w, [at |-> "listing", who |-> p])
    /\ UNCHANGED <<tables, offered>>

CommandBlacklistAdd(w, x) == Offered("blacklist") /\ \E p \in People : AddBlacklist(w, x, p)

Listed(w) ==
    /\ request[w].at = "listing" /\ MayRefer(request[w].who)
    /\ Len(listed) < MaxListed
    /\ listed' = Append(listed, [who |-> request[w].who, live |-> TRUE])
    /\ Become(w, Idle)
    /\ UNCHANGED <<members, ranks, quals, entries, suspensions, discharges, desk, offered>>

\* LiftBlacklist is for cabinet.
LiftBlacklist(x, b) ==
    /\ Cabinet(x) /\ listed[b].live /\ listed[b].who # x
    /\ listed' = [listed EXCEPT ![b].live = FALSE]
    /\ UNCHANGED <<members, ranks, quals, entries, suspensions, discharges, desk, request, offered>>

CommandBlacklistLift(x) == Offered("lift") /\ \E b \in DOMAIN listed : LiftBlacklist(x, b)

BlacklistEnds(b) ==
    /\ listed[b].live /\ listed' = [listed EXCEPT ![b].live = FALSE]
    /\ UNCHANGED <<members, ranks, quals, entries, suspensions, discharges, desk, request, offered>>

-------------------------------------------------------------------------------
\* Applications to join the faction

\* What SubmitFaction asks for before its insert.
SubmitFaction(w, p) ==
    /\ request[w] = Idle
    /\ level[p] = 0 /\ ~Blacklisted(p)
    /\ \A a \in DOMAIN apps : apps[a].who = p => ~apps[a].cooling
    /\ Become(w, [at |-> "applying", who |-> p, div |-> None])
    /\ UNCHANGED <<tables, offered>>

\* The insert: idx_faction_applications_open refuses a second open one.
FactionApplied(w) ==
    LET p == request[w].who IN
    /\ request[w].at = "applying" /\ request[w].div = None
    /\ IF \E a \in DOMAIN apps : apps[a].who = p /\ apps[a].status = "pending" THEN UNCHANGED apps
       ELSE /\ Len(apps) < MaxApps
            /\ apps' = Append(apps, [who |-> p, status |-> "pending", cooling |-> FALSE])
    /\ Become(w, Idle)
    /\ UNCHANGED <<members, ranks, quals, books, admitted, letters, divapps, offered>>

WithdrawFaction(p) ==
    /\ \E a \in DOMAIN apps :
         /\ apps[a].who = p /\ apps[a].status = "pending"
         /\ apps' = [apps EXCEPT ![a].status = "withdrawn"]
    /\ UNCHANGED <<members, ranks, quals, books, admitted, letters, divapps, request, offered>>

FactionApplySubmit(w, p) == Offered("apply") /\ (SubmitFaction(w, p) \/ WithdrawFaction(p))

\* DecideFaction reads the application without a lock; accepting
\* recruits first, at the lowest level.
DecideFaction(w, x, a, accept) ==
    LET ch == Change(x, FALSE, apps[a].who, 1, IF accept THEN "accept" ELSE "reject", a) IN
    /\ request[w] = Idle /\ apps[a].status = "pending" /\ CommandIn(x)
    /\ Become(w, IF accept THEN ch ELSE [ch EXCEPT !.at = "finish"])
    /\ UNCHANGED <<tables, offered>>

CommandDecideApp(w, x) ==
    Offered("apply") /\ \E a \in DOMAIN apps, accept \in BOOLEAN : DecideFaction(w, x, a, accept)

\* Mutant: the decision is written whatever was decided meanwhile.
StillOpenAlways(a) == TRUE

StillOpen(a) == apps[a].status = "pending"

\* DecideFaction's last transaction: the decision and, once, the letter about it.
Decided(w) ==
    LET a == request[w].ref
        status == IF request[w].then = "accept" THEN "accepted" ELSE "rejected"
    IN
    /\ request[w].at = "finish" /\ request[w].then \in {"accept", "reject"}
    /\ IF StillOpen(a)
       THEN /\ apps' = [apps EXCEPT ![a].status = status, ![a].cooling = (status = "rejected")]
            /\ letters' = [letters EXCEPT ![a] = IF @ = None THEN status ELSE @]
       ELSE UNCHANGED <<apps, letters>>
    /\ Become(w, Idle)
    /\ UNCHANGED <<members, ranks, quals, books, admitted, divapps, offered>>

-------------------------------------------------------------------------------
\* Divisions and qualifications

\* The divisions of this behaviour.
DivisionsHere == DOMAIN Divisions \cap offered

PostingTo(p, d, role, leave, app) ==
    [at |-> "posting", who |-> p, div |-> d, role |-> role, leave |-> leave, app |-> app]

Fits(p, d) == level[p] >= Divisions[d].minLevel /\ Divisions[d].quals \subseteq held[p]

\* Who appoints to the Administration division in a role, or takes out of it.
MayAppoint(x, override, p, d, role) ==
    \/ override \/ Cabinet(x)
    \/ AdminCommander(x) /\ Commander(d) \notin {role, posting[p][d]}

RolesOf(d) == {Divisions[d].roles[i] : i \in DOMAIN Divisions[d].roles}

\* SetDivision locks nothing.  role = None takes out.
SetDivision(w, x, override, p, d, role) ==
    /\ request[w] = Idle /\ HasStanding(x, override)
    /\ level[p] > 0 /\ posting[p][d] # role
    /\ p # x \/ override \/ Cabinet(x)
    /\ IF Divisions[d].admin THEN MayAppoint(x, override, p, d, role) ELSE CanRecord(x, override, p)
    /\ role # None => Fits(p, d)
    /\ Become(w, PostingTo(p, d, role,
         IF role = None \/ Divisions[d].admin THEN {}
         ELSE {e \in DOMAIN Divisions \ (AdminDivisions \cup {d}) : posting[p][e] # None}, 0))
    /\ UNCHANGED <<tables, offered>>

CommandDivisionAction(w, x) ==
    Offered("division") /\ \E p \in People, d \in DivisionsHere : \E role \in RolesOf(d) \cup {None} :
        SetDivision(w, x, PanelOverride(x), p, d, role)

\* A member leaves a division in favour of another, and gets a role there.
Posted(p, d, role, leave) ==
    posting' = [posting EXCEPT ![p] = [e \in DOMAIN Divisions |->
                   IF e = d THEN role ELSE IF e \in leave THEN None ELSE posting[p][e]]]

DivisionSet(w) ==
    LET r == request[w] IN
    /\ r.at = "posting" /\ r.app = 0 /\ MayRefer(r.who)
    /\ Posted(r.who, r.div, r.role, r.leave)
    /\ Become(w, Idle)
    /\ UNCHANGED <<level, lastLevel, probations, file, ranks, quals, books, desk, offered>>

\* What ApplyToDivision asks for before its insert.
ApplyToDivision(w, p, d) ==
    /\ request[w] = Idle
    /\ level[p] > 0 /\ level[p] >= Divisions[d].minLevel /\ posting[p][d] = None
    /\ Divisions[d].admin => ~Cabinet(p)
    /\ \A a \in DOMAIN divapps : divapps[a].who = p /\ divapps[a].div = d => ~divapps[a].cooling
    /\ Become(w, [at |-> "applying", who |-> p, div |-> d])
    /\ UNCHANGED <<tables, offered>>

DivisionApplied(w) ==
    LET p == request[w].who  d == request[w].div IN
    /\ request[w].at = "applying" /\ d # None /\ MayRefer(p)
    /\ IF \E a \in DOMAIN divapps :
             divapps[a].who = p /\ divapps[a].div = d /\ divapps[a].status = "pending"
       THEN UNCHANGED divapps
       ELSE /\ Len(divapps) < MaxApps
            /\ divapps' = Append(divapps, [who |-> p, div |-> d, status |-> "pending", cooling |-> FALSE])
    /\ Become(w, Idle)
    /\ UNCHANGED <<members, ranks, quals, books, apps, admitted, letters, offered>>

\* The row of an application is held while it is accepted.
Taken(a) == \E w \in Web : request[w].at = "posting" /\ request[w].app = a

Waiting(a) == divapps[a].status = "pending" /\ ~Taken(a)

WithdrawDivisionApp(p, a) ==
    /\ Waiting(a) /\ divapps[a].who = p
    /\ divapps' = [divapps EXCEPT ![a].status = "withdrawn"]
    /\ UNCHANGED <<members, ranks, quals, books, apps, admitted, letters, request, offered>>

DivisionApplySubmit(w, p) ==
    Offered("divapply") /\ (\/ \E d \in DivisionsHere : ApplyToDivision(w, p, d)
                            \/ \E a \in DOMAIN divapps : WithdrawDivisionApp(p, a))

CooldownOver ==
    /\ \/ \E a \in DOMAIN apps :
            apps[a].cooling /\ apps' = [apps EXCEPT ![a].cooling = FALSE] /\ UNCHANGED divapps
       \/ \E a \in DOMAIN divapps :
            divapps[a].cooling /\ divapps' = [divapps EXCEPT ![a].cooling = FALSE] /\ UNCHANGED apps
    /\ UNCHANGED <<members, ranks, quals, books, admitted, letters, request, offered>>

\* CanReview and reviewer
MayReview(x, d) ==
    \/ PanelOverride(x)
    \/ CommandIn(x) /\ (\/ Cabinet(x)
                        \/ IF Divisions[d].admin THEN AdminCommander(x) ELSE InAdmin(x) \/ d \in Leads(x))

\* DecideDivisionApp holds the application, not the applicant.
RejectDivisionApp(x, a) ==
    /\ Waiting(a) /\ MayReview(x, divapps[a].div) /\ divapps[a].who # x
    /\ divapps' = [divapps EXCEPT ![a].status = "rejected", ![a].cooling = TRUE]
    /\ UNCHANGED <<members, ranks, quals, books, apps, admitted, letters, request, offered>>

AcceptDivisionApp(w, x, a) ==
    LET p == divapps[a].who  d == divapps[a].div IN
    /\ request[w] = Idle
    /\ Waiting(a) /\ MayReview(x, d) /\ p # x /\ level[p] > 0 /\ Fits(p, d)
    /\ Become(w, PostingTo(p, d, EntryRole(d), {}, a))
    /\ UNCHANGED <<tables, offered>>

CommandDivisionDecide(w, x) ==
    Offered("divapply") /\ \E a \in DOMAIN divapps : RejectDivisionApp(x, a) \/ AcceptDivisionApp(w, x, a)

DivisionAccepted(w) ==
    LET r == request[w] IN
    /\ r.at = "posting" /\ r.app # 0 /\ MayRefer(r.who)
    /\ IF Divisions[r.div].admin /\ posting[r.who][r.div] # None THEN UNCHANGED posting
       ELSE Posted(r.who, r.div, r.role,
                   IF Divisions[r.div].admin THEN {} ELSE DOMAIN Divisions \ AdminDivisions)
    /\ divapps' = [divapps EXCEPT ![r.app].status = "accepted"]
    /\ Become(w, Idle)
    /\ UNCHANGED <<level, lastLevel, probations, file, ranks, quals, books, apps, admitted, letters, offered>>

\* SetQual.  Who loses a qualification no longer heads it.
SetQual(x, p, q) ==
    /\ RecordsOver(x, p) /\ level[p] > 0 /\ MayRefer(p)
    /\ IF q \in held[p]
       THEN /\ held' = [held EXCEPT ![p] = @ \ {q}]
            /\ heads' = [heads EXCEPT ![q] = IF @ = p THEN None ELSE @]
       ELSE held' = [held EXCEPT ![p] = @ \cup {q}] /\ UNCHANGED heads
    /\ UNCHANGED <<members, ranks, books, desk, request, offered>>

CommandMemberQual(x) == Offered("qual") /\ \E p \in People, q \in Quals : SetQual(x, p, q)

\* SetQualHead checks the holder without a lock.
SetQualHead(w, x, q, p) ==
    /\ request[w] = Idle /\ HasStanding(x, FALSE) /\ (p # None => q \in held[p])
    /\ Become(w, [at |-> "heading", qual |-> q, who |-> p])
    /\ UNCHANGED <<tables, offered>>

CommandQualHead(w, x) ==
    Offered("qual") /\ \E q \in Quals, p \in People \cup {None} : SetQualHead(w, x, q, p)

HeadSet(w) ==
    LET r == request[w] IN
    /\ r.at = "heading"
    /\ heads' = [heads EXCEPT ![r.qual] = r.who]
    /\ Become(w, Idle)
    /\ UNCHANGED <<members, ranks, held, books, desk, offered>>

-------------------------------------------------------------------------------
\* Records and rules

\* UpdateMember
UpdateMember(x, p, status) ==
    /\ RecordsOver(x, p) /\ level[p] > 0 /\ MayRefer(p)
    /\ file' = [file EXCEPT ![p].status = status]
    /\ UNCHANGED <<level, lastLevel, probations, posting, ranks, quals, books, desk, request, offered>>

\* SetRollCall
SetRollCall(x, p, mark) ==
    /\ RecordsOver(x, p) /\ level[p] > 0 /\ MayRefer(p) /\ mark # file[p].mark
    /\ file' = [file EXCEPT ![p].mark = mark]
    /\ UNCHANGED <<level, lastLevel, probations, posting, ranks, quals, books, desk, request, offered>>

\* CommandPersonnelSave
CommandPersonnelSave(x) ==
    Offered("file") /\ \E p \in People : \/ \E status \in {"active", "loa"} : UpdateMember(x, p, status)
                                       \/ \E mark \in {"present", "excused", ""} : SetRollCall(x, p, mark)

\* The rules UpdateRank allows for level l.
Rules(l) ==
    {r \in [command : BOOLEAN, cabinet : BOOLEAN, upTo : 0..(l - 1), slots : SlotSizes, quals : RankQuals] :
        r.cabinet => r.command}

\* UpdateRank
UpdateRank(x, override, l, new) ==
    LET old == ranks[l] IN
    /\ HasStanding(x, override) /\ new # old
    /\ ~override /\ l = level[x] => new.command /\ (old.cabinet => new.cabinet)
    /\ ~override /\ ~Cabinet(x) => /\ l # level[x] /\ new.upTo = old.upTo
                                   /\ new.command = old.command /\ new.cabinet = old.cabinet
    /\ ranks' = [ranks EXCEPT ![l] = new]
    /\ UNCHANGED <<members, quals, books, desk, request, offered>>

CommandRankSave(x) ==
    Offered("rules") /\ \E l \in 1..TopLevel : \E new \in Rules(l) :
        UpdateRank(x, ~Cabinet(x) /\ x \in Configure, l, new)

\* A request ends without its next step.
GiveUp(w) == request[w] # Idle /\ Become(w, Idle) /\ UNCHANGED <<tables, offered>>

-------------------------------------------------------------------------------
Handlers(w, x) ==
    \/ Offered("rank") /\ CommandSetRank(w, x)
    \/ Offered("recruit") /\ CommandRecruit(w, x)
    \/ Offered("override") /\ PlayerSetFactionLevel(w, x)
    \/ CommandProbation(w, x)
    \/ CommandDisciplineIssue(w, x)
    \/ CommandDisciplineCorrect(x)
    \/ CommandDischarge(w, x)
    \/ CommandBlacklistAdd(w, x)
    \/ CommandBlacklistLift(x)
    \/ FactionApplySubmit(w, x)
    \/ CommandDecideApp(w, x)
    \/ CommandDivisionAction(w, x)
    \/ DivisionApplySubmit(w, x)
    \/ CommandDivisionDecide(w, x)
    \/ CommandMemberQual(x)
    \/ CommandQualHead(w, x)
    \/ CommandPersonnelSave(x)
    \/ CommandRankSave(x)

Steps(w) ==
    \/ GoOnToSetLevel(w) \/ CommitLevel(w) \/ Confirmed(w) \/ Ended(w) \/ Issued(w) \/ DischargeRecorded(w)
    \/ Listed(w) \/ FactionApplied(w) \/ Decided(w) \/ DivisionSet(w) \/ DivisionApplied(w)
    \/ DivisionAccepted(w) \/ HeadSet(w) \/ GiveUp(w)

TimePasses ==
    \/ Offered("expire") /\ \E e \in DOMAIN entries : EntryExpires(e)
    \/ Offered("served") /\ \E s \in DOMAIN suspensions : SuspensionEnds(s)
    \/ Offered("lift") /\ \E b \in DOMAIN listed : BlacklistEnds(b)
    \/ CooldownOver

Next ==
    \/ \E w \in Web : Steps(w) \/ \E x \in People : Handlers(w, x)
    \/ TimePasses

Spec == Init /\ [][Next]_vars

-------------------------------------------------------------------------------
\* Properties

Roles == UNION {RolesOf(d) : d \in DOMAIN Divisions}
Places == {"idle", "change", "changing", "finish", "issuing", "posting", "applying", "heading", "listing"}

\* Every table holds rows of its kind, and a request is at one of its steps.
TypeOK ==
    /\ level \in [People -> 0..TopLevel] /\ lastLevel \in [People -> 0..TopLevel]
    /\ probations \in Seq([who : People, status : {"active", "confirmed", "ended"},
                           fto : People \cup {None}, sheet : [Items -> {"none", "pass", "fail"}]])
    /\ posting \in [People -> [DOMAIN Divisions -> Roles \cup {None}]]
    /\ file \in [People -> [status : {"none", "active", "loa"}, mark : {"", "present", "excused"}]]
    /\ DOMAIN ranks = 1..TopLevel /\ \A l \in 1..TopLevel : ranks[l].upTo < l
    /\ held \in [People -> SUBSET Quals] /\ heads \in [Quals -> People \cup {None}]
    /\ \A e \in DOMAIN entries : entries[e].of < e
    /\ suspensions \in Seq([who : People, entry : DOMAIN entries, live : BOOLEAN])
    /\ discharges \subseteq [who : People, last : 0..TopLevel,
           type : {"resigned", "contract_termination", "probation_ended"}]
    /\ listed \in Seq([who : People, live : BOOLEAN])
    /\ apps \in Seq([who : People, status : {"pending", "accepted", "rejected", "withdrawn"}, cooling : BOOLEAN])
    /\ admitted \subseteq DOMAIN apps
    /\ letters \in [1..MaxApps -> {None, "accepted", "rejected"}]
    /\ divapps \in Seq([who : People, div : DOMAIN Divisions, cooling : BOOLEAN,
                        status : {"pending", "accepted", "rejected", "withdrawn"}])
    /\ \A w \in Web : request[w].at \in Places
    /\ offered \in Scenarios

\* Only members are on probation: whoever leaves the faction, by whichever of the
\* ways, leaves their probation with it (afterLevelChange); the training sheets and
\* the confirmation of a probation rest on it.
TraineesAreMembers ==
    \A i \in DOMAIN probations : probations[i].status = "active" => level[probations[i].who] > 0

\* A warning counts towards one conversion: between two conversions of a player there
\* are three warnings of theirs, though two commanders issue at once (the lock of
\* IssueDiscipline, and activeMVWs).
WarningsCountOnce ==
    \A c \in DOMAIN entries : entries[c].kind = "mvw_conversion" =>
        LET p == entries[c].who
            since == {b \in Conversions(p) : b < c}
        IN  Cardinality({e \in 1..(c - 1) : /\ entries[e].who = p /\ entries[e].kind = "mvw"
                                            /\ \A b \in since : b < e}) >= MVWsPerConversion

\* The discipline log is never edited and still adds up: corrections never take more
\* than was given, whatever expires when, and a corrected entry suspends nobody
\* (CorrectDiscipline).
LogAddsUp ==
    /\ \A p \in People : ActivePoints(p) >= 0
    /\ \A s \in DOMAIN suspensions : suspensions[s].live => ~Corrected(suspensions[s].entry)

\* Discipline in sum: every warning counts, once, and corrections undo what they correct.
DisciplineAddsUp == TypeOK /\ WarningsCountOnce /\ LogAddsUp

\* What is decided about an application stays decided: an accepted one was given its
\* level, in the transaction before, and the letter says what the application says
\* (DecideFaction).
DecisionsStand ==
    \A a \in DOMAIN apps :
        /\ apps[a].status = "accepted" => a \in admitted
        /\ letters[a] \in (IF apps[a].status \in {"accepted", "rejected"} THEN {apps[a].status} ELSE {None})

\* A level is changed only by someone who at that moment is above both the level left
\* and the level given, or by a staff override, and never by the player (setLevel's
\* checks hold at its commit, as both players stay locked).
OnlyFromAbove ==
    [][\A p \in People : level'[p] # level[p] =>
          \E w \in Web :
             /\ request[w].at = "changing" /\ request[w].who = p /\ request[w].by # p
             /\ \/ request[w].override
                \/ (level[p] < level[request[w].by] /\ level'[p] < level[request[w].by])]_vars

\* Confirming a probation raises the recruit ("promotes a recruit who has passed every
\* item one rank", the comment of ConfirmProbation).
ConfirmingPromotes ==
    [][\A w \in Web : request[w].at = "changing" /\ request[w].then = "confirm" /\ request'[w].at = "finish"
          => level[request[w].who] > 0 /\ level'[request[w].who] > level[request[w].who]]_vars

\* "leaving ends probation and division membership" (afterLevelChange): not so when the
\* division was looked for before and is given after.
PostedAreMembers ==
    \A p \in People : (\E d \in DOMAIN Divisions : posting[p][d] # None) => level[p] > 0

\* "A member holds at most one specialist division" (the comment of SetDivision): not so
\* when two moves of one member overlap.
OneSpecialistDivision ==
    \A p \in People : Cardinality({d \in DOMAIN Divisions \ AdminDivisions : posting[p][d] # None}) <= 1

\* "They can't apply or be recruited until it ends" (CommandBlacklistAdd).
BlacklistedStayOut ==
    [][\A p \in People : level[p] = 0 /\ level'[p] > 0 =>
          ~Blacklisted(p) \/ \E w \in Web : request[w].at = "changing" /\ request[w].override]_vars

\* Who comes in may, and who leaves takes their probation along.
MembershipHolds == []TraineesAreMembers /\ BlacklistedStayOut

\* "SetQualHead makes a holder the qualification's head trainer": not when it is taken from
\* the holder in between.
HeadsHold == \A q \in Quals : heads[q] # None => q \in held[heads[q]]

===============================================================================
