----------------------------- MODULE FactionsProofs -----------------------------
(***************************************************************************)
(* What Factions keeps, proved for any number of people, ranks, divisions  *)
(* and requests.  Every request that only asks is summed up by Asked, so   *)
(* that each invariant has to deal with it once.  First the sorts of the   *)
(* variables and the locks of setLevel, then one invariant per table:      *)
(* probations, applications, the discipline log.  Points are sums over     *)
(* finite sets; what is said of a sum is shown for the smallest set for    *)
(* which it would fail.                                                    *)
(***************************************************************************)
EXTENDS Factions, FiniteSetTheorems, WellFoundedInduction, NaturalsInduction, TLAPS

-----------------------------------------------------------------------------
(* Rows and requests.                                                        *)

ProbationRow == [who : People, status : {"active", "confirmed", "ended"},
                 fto : People \cup {None}, sheet : [Items -> {"none", "pass", "fail"}]]
FileRow == [status : {"none", "active", "loa"}, mark : {"", "present", "excused"}]
EntryRow == [who : People, kind : {"mvw", "points", "mvw_conversion", "correction"},
             points : Int, of : Nat, level : 0..TopLevel, live : BOOLEAN]
SuspensionRow == [who : People, entry : Nat, live : BOOLEAN]
DischargeRow == [who : People, last : 0..TopLevel,
                 type : {"resigned", "contract_termination", "probation_ended"}]
ListedRow == [who : People, live : BOOLEAN]
AppRow == [who : People, status : {"pending", "accepted", "rejected", "withdrawn"}, cooling : BOOLEAN]
DivAppRow == [who : People, div : DOMAIN Divisions, cooling : BOOLEAN,
              status : {"pending", "accepted", "rejected", "withdrawn"}]

LevelsOK == level \in [People -> 0..TopLevel] /\ lastLevel \in [People -> 0..TopLevel]
MembersOK ==
    /\ probations \in Seq(ProbationRow)
    /\ posting \in [People -> [DOMAIN Divisions -> Roles \cup {None}]]
    /\ file \in [People -> FileRow]
RanksOK == DOMAIN ranks = 1..TopLevel /\ \A l \in 1..TopLevel : ranks[l].upTo \in 0..(l - 1)
QualsOK == held \in [People -> SUBSET Quals] /\ heads \in [Quals -> People \cup {None}]
EntriesOK ==
    /\ entries \in Seq(EntryRow) /\ \A e \in DOMAIN entries : entries[e].of < e
    /\ suspensions \in Seq(SuspensionRow)
    /\ \A s \in DOMAIN suspensions : suspensions[s].entry \in DOMAIN entries
BooksOK == discharges \subseteq DischargeRow /\ listed \in Seq(ListedRow)
DeskOK ==
    /\ apps \in Seq(AppRow) /\ Len(apps) <= MaxApps /\ admitted \subseteq DOMAIN apps
    /\ letters \in [1..MaxApps -> {None, "accepted", "rejected"}]
    /\ divapps \in Seq(DivAppRow)

\* A request that changes a level carries who, whom, to what, and what for.
ChangeOK(r) ==
    /\ r = [at |-> r.at, by |-> r.by, override |-> r.override, who |-> r.who, to |-> r.to,
            then |-> r.then, ref |-> r.ref, read |-> r.read]
    /\ r.by \in People /\ r.who \in People /\ r.to \in Nat /\ r.read \in 0..TopLevel
    /\ r.then \in {"confirm", "end"} => r.ref \in DOMAIN probations
    /\ r.then \in {"accept", "reject"} => r.ref \in DOMAIN apps
PostingOK(r) ==
    /\ r.who \in People /\ r.div \in DOMAIN Divisions /\ r.role \in Roles \cup {None}
    /\ r.app = 0 \/ r.app \in DOMAIN divapps
RequestOK(r) ==
    /\ r.at \in Places
    /\ r.at \in {"change", "changing", "finish"} => ChangeOK(r)
    /\ r.at = "changing" => r.to \in 0..TopLevel
    /\ r.at = "issuing" => r.by \in People /\ r.who \in People /\ r.points \in Points \cup {0}
    /\ r.at = "posting" => PostingOK(r)
    /\ r.at = "applying" => r.who \in People /\ (r.div = None \/ r.div \in DOMAIN Divisions)
    /\ r.at = "heading" => r.qual \in Quals /\ r.who \in People \cup {None}
    /\ r.at = "listing" => r.who \in People

\* Every web request is there.
WebOK == request = [w \in Web |-> request[w]]

Sorts ==
    /\ LevelsOK /\ MembersOK /\ RanksOK /\ QualsOK /\ EntriesOK /\ BooksOK /\ DeskOK
    /\ WebOK /\ \A w \in Web : RequestOK(request[w])
    /\ offered \in Scenarios

LEMMA RolesAreThere ==
    ASSUME NEW d \in DOMAIN Divisions
    PROVE  EntryRole(d) \in Roles /\ RolesOf(d) \subseteq Roles
<1>1. Divisions[d].roles \in Seq(STRING) /\ Len(Divisions[d].roles) > 0
  BY FactionsAssumption
<1>2. Len(Divisions[d].roles) \in DOMAIN Divisions[d].roles
  BY <1>1
<1>. QED BY <1>2 DEF EntryRole, Roles, RolesOf

LEMMA SortsMeansTypes == Sorts => TypeOK
<1>. SUFFICES ASSUME Sorts PROVE TypeOK
  OBVIOUS
<1>. USE DEF Sorts
<1>1. level \in [People -> 0..TopLevel] /\ lastLevel \in [People -> 0..TopLevel]
  BY DEF LevelsOK
<1>2. /\ probations \in Seq([who : People, status : {"active", "confirmed", "ended"},
                              fto : People \cup {None}, sheet : [Items -> {"none", "pass", "fail"}]])
      /\ posting \in [People -> [DOMAIN Divisions -> Roles \cup {None}]]
      /\ file \in [People -> [status : {"none", "active", "loa"}, mark : {"", "present", "excused"}]]
  BY DEF MembersOK, ProbationRow, FileRow
<1>3. DOMAIN ranks = 1..TopLevel /\ \A l \in 1..TopLevel : ranks[l].upTo < l
  BY FactionsAssumption DEF RanksOK
<1>4. held \in [People -> SUBSET Quals] /\ heads \in [Quals -> People \cup {None}]
  BY DEF QualsOK
<1>5. \A e \in DOMAIN entries : entries[e].of < e
  BY DEF EntriesOK
<1>6. suspensions \in Seq([who : People, entry : DOMAIN entries, live : BOOLEAN])
  <2>. DEFINE Row == [who : People, entry : DOMAIN entries, live : BOOLEAN]
  <2>1. ASSUME NEW s \in 1..Len(suspensions) PROVE suspensions[s] \in Row
    <3>1. suspensions[s] \in SuspensionRow /\ suspensions[s].entry \in DOMAIN entries
      BY DEF EntriesOK
    <3>. QED BY <3>1 DEF SuspensionRow
  <2>2. suspensions = [s \in 1..Len(suspensions) |-> suspensions[s]] /\ Len(suspensions) \in Nat
    BY DEF EntriesOK
  <2>. HIDE DEF Row
  <2>3. suspensions \in [1..Len(suspensions) -> Row]
    BY <2>1, <2>2
  <2>4. suspensions \in Seq(Row)
    BY <2>2, <2>3
  <2>. QED BY <2>4 DEF Row
<1>7. /\ discharges \subseteq [who : People, last : 0..TopLevel,
            type : {"resigned", "contract_termination", "probation_ended"}]
      /\ listed \in Seq([who : People, live : BOOLEAN])
  BY DEF BooksOK, DischargeRow, ListedRow
<1>8. /\ apps \in Seq([who : People, status : {"pending", "accepted", "rejected", "withdrawn"},
           cooling : BOOLEAN])
      /\ admitted \subseteq DOMAIN apps
      /\ letters \in [1..MaxApps -> {None, "accepted", "rejected"}]
      /\ divapps \in Seq([who : People, div : DOMAIN Divisions, cooling : BOOLEAN,
                          status : {"pending", "accepted", "rejected", "withdrawn"}])
  BY DEF DeskOK, AppRow, DivAppRow
<1>9. (\A w \in Web : request[w].at \in Places) /\ offered \in Scenarios
  BY DEF RequestOK
<1>. QED BY <1>1, <1>2, <1>3, <1>4, <1>5, <1>6, <1>7, <1>8, <1>9 DEF TypeOK

LEMMA InitSorts == Init => Sorts
<1>. SUFFICES ASSUME Init PROVE Sorts
  OBVIOUS
<1>. USE DEF Init
<1>1. LevelsOK
  BY FactionsAssumption DEF LevelsOK
<1>6. MembersOK
  <2>1. probations \in Seq(ProbationRow)
    OBVIOUS
  <2>4. NoFile \in FileRow
    BY DEF NoFile, FileRow
  <2>5. file \in [People -> FileRow]
    BY <2>4
  <2>2. [d \in DOMAIN Divisions |-> None] \in [DOMAIN Divisions -> Roles \cup {None}]
    OBVIOUS
  <2>3. posting \in [People -> [DOMAIN Divisions -> Roles \cup {None}]]
    BY <2>2
  <2>. QED BY <2>1, <2>3, <2>5 DEF MembersOK
<1>2. RanksOK /\ QualsOK
  BY FactionsAssumption DEF RanksOK, QualsOK
<1>3. EntriesOK /\ BooksOK
  BY DEF EntriesOK, BooksOK
<1>4. DeskOK
  BY FactionsAssumption DEF DeskOK
<1>5. WebOK /\ \A w \in Web : RequestOK(request[w])
  BY DEF WebOK, RequestOK, Idle, Places
<1>. QED BY <1>1, <1>2, <1>3, <1>4, <1>5, <1>6 DEF Sorts

-----------------------------------------------------------------------------
(* What a request may become that only asks.                                 *)

OthersWait(w) == \A v \in Web \ {w} : request'[v] = request[v]

\* What setLevel has checked of a change that goes on.
Checked(r) ==
    /\ r.by # r.who /\ level[r.who] # r.to
    /\ r.override \/ (level[r.who] < level[r.by] /\ r.to < level[r.by])
    /\ r.override \/ level[r.who] > 0 \/ ~Blacklisted(r.who)

\* A request that only asks gets what it needs to go on.
Asked(w) ==
    LET r == request'[w] IN
    /\ UNCHANGED <<tables, offered>>
    /\ WebOK' /\ OthersWait(w) /\ RequestOK(r)
    /\ r.at = "changing" => Checked(r) /\ ~Locked(r.by) /\ ~Locked(r.who)
    /\ r.at = "issuing" => ~Locked(r.who) /\ r.warnings = Cardinality(ActiveMVWs(r.who))
    /\ r.at = "finish" => r.then = "reject"

LEMMA Becomes ==
    ASSUME WebOK, NEW w \in Web, NEW r, Become(w, r)
    PROVE  WebOK' /\ request'[w] = r /\ OthersWait(w)
<1>1. request' = [v \in Web |-> IF v = w THEN r ELSE request[v]]
  BY DEF WebOK, Become
<1>. QED BY <1>1 DEF WebOK, OthersWait

LEMMA Levels ==
    ASSUME Sorts, NEW p \in People
    PROVE  level[p] \in 0..TopLevel /\ TopLevel \in Nat
BY FactionsAssumption DEF Sorts, LevelsOK

LEMMA Elements ==
    ASSUME Sorts
    PROVE  /\ \A i \in DOMAIN probations : probations[i] \in ProbationRow
           /\ \A e \in DOMAIN entries : entries[e] \in EntryRow
           /\ \A s \in DOMAIN suspensions : suspensions[s] \in SuspensionRow
           /\ \A b \in DOMAIN listed : listed[b] \in ListedRow
           /\ \A a \in DOMAIN apps : apps[a] \in AppRow
           /\ \A a \in DOMAIN divapps : divapps[a] \in DivAppRow
<1>1. \A i \in DOMAIN probations : probations[i] \in ProbationRow
  BY DEF Sorts, MembersOK
<1>2. /\ \A e \in DOMAIN entries : entries[e] \in EntryRow
      /\ \A s \in DOMAIN suspensions : suspensions[s] \in SuspensionRow
  BY DEF Sorts, EntriesOK
<1>3. \A b \in DOMAIN listed : listed[b] \in ListedRow
  BY DEF Sorts, BooksOK
<1>4. /\ \A a \in DOMAIN apps : apps[a] \in AppRow
      /\ \A a \in DOMAIN divapps : divapps[a] \in DivAppRow
  BY DEF Sorts, DeskOK
<1>. QED BY <1>1, <1>2, <1>3, <1>4

\* A change that goes on keeps what it carries.
LEMMA ChangeMoves ==
    ASSUME NEW r, ChangeOK(r), NEW at
    PROVE  /\ ChangeOK([r EXCEPT !.at = at])
           /\ [r EXCEPT !.at = at].at = at /\ [r EXCEPT !.at = at].by = r.by
           /\ [r EXCEPT !.at = at].override = r.override /\ [r EXCEPT !.at = at].who = r.who
           /\ [r EXCEPT !.at = at].to = r.to /\ [r EXCEPT !.at = at].then = r.then
           /\ [r EXCEPT !.at = at].ref = r.ref /\ [r EXCEPT !.at = at].read = r.read
<1>. DEFINE new == [at |-> at, by |-> r.by, override |-> r.override, who |-> r.who,
                    to |-> r.to, then |-> r.then, ref |-> r.ref, read |-> r.read]
<1>1. [r EXCEPT !.at = at] = new
  BY DEF ChangeOK
<1>2. /\ new.at = at /\ new.by = r.by /\ new.override = r.override /\ new.who = r.who
      /\ new.to = r.to /\ new.then = r.then /\ new.ref = r.ref /\ new.read = r.read
  OBVIOUS
<1>3. ChangeOK(new)
  BY DEF ChangeOK
<1>. HIDE DEF new
<1>. QED BY <1>1, <1>2, <1>3

LEMMA SetLevelAsks ==
    ASSUME Sorts, NEW w \in Web, NEW r, ChangeOK(r), SetLevel(w, r), UNCHANGED <<tables, offered>>
    PROVE  Asked(w)
<1>. DEFINE new == [r EXCEPT !.at = "changing"]
<1>1. Become(w, new)
  BY DEF SetLevel
<1>2. /\ ChangeOK(new) /\ new.at = "changing" /\ new.by = r.by /\ new.override = r.override
      /\ new.who = r.who /\ new.to = r.to
  BY ChangeMoves
<1>. HIDE DEF new
<1>5. WebOK' /\ request'[w] = new /\ OthersWait(w)
  BY <1>1, Becomes DEF Sorts
<1>6. r.by \in People /\ r.who \in People /\ r.to \in 0..TopLevel
  BY FactionsAssumption DEF ChangeOK, SetLevel
<1>7. RequestOK(new)
  BY <1>2, <1>6 DEF RequestOK, Places
<1>8. Checked(r)
  <2>1. ASSUME ~r.override PROVE /\ level[r.who] < level[r.by] /\ r.to < level[r.by]
                                 /\ level[r.who] = 0 => ~Blacklisted(r.who)
    <3>1. CommandMaySet(r.by, r.who, r.to)
      BY <2>1 DEF SetLevel
    <3>2. UpTo(r.by) > 0 /\ level[r.who] <= UpTo(r.by) /\ r.to <= UpTo(r.by)
      BY <3>1 DEF CommandMaySet
    <3>3. level[r.by] \in Nat /\ level[r.who] \in Nat
      BY <1>6, Levels
    <3>4. UpTo(r.by) \in Nat /\ UpTo(r.by) < level[r.by]
      BY <3>2, <3>3 DEF UpTo, CanPromote
    <3>5. level[r.who] = 0 => ~Blacklisted(r.who)
      BY <3>1 DEF CommandMaySet
    <3>. QED BY <1>6, <3>2, <3>3, <3>4, <3>5
  <2>2. level[r.who] \in Nat
    BY <1>6, Levels
  <2>. QED BY <2>1, <2>2 DEF SetLevel, Checked
<1>9. Checked(new) /\ ~Locked(new.by) /\ ~Locked(new.who)
  BY <1>2, <1>8 DEF Checked, SetLevel
<1>. QED BY <1>2, <1>5, <1>7, <1>9 DEF Asked

\* A request that waits for its change of level, or that has nothing more to ask.
LEMMA WillAsk ==
    ASSUME Sorts, NEW w \in Web, NEW r, ChangeOK(r), Become(w, r), UNCHANGED <<tables, offered>>,
           r.at = "change" \/ (r.at = "finish" /\ r.then = "reject")
    PROVE  Asked(w)
<1>1. WebOK' /\ request'[w] = r /\ OthersWait(w)
  BY Becomes DEF Sorts
<1>2. RequestOK(r)
  BY DEF RequestOK, Places
<1>. QED BY <1>1, <1>2 DEF Asked

LEMMA ChangeSorts ==
    ASSUME Sorts, NEW x \in People, NEW override \in BOOLEAN, NEW p \in People, NEW to \in Nat,
             NEW then, NEW ref,
           then \in {"confirm", "end"} => ref \in DOMAIN probations,
           then \in {"accept", "reject"} => ref \in DOMAIN apps
    PROVE  /\ ChangeOK(Change(x, override, p, to, then, ref))
           /\ Change(x, override, p, to, then, ref).at = "change"
BY Levels DEF Change, ChangeOK

LEMMA SetRankAsks ==
    ASSUME Sorts, NEW w \in Web, NEW x \in People,
           CommandSetRank(w, x) \/ CommandRecruit(w, x) \/ PlayerSetFactionLevel(w, x)
    PROVE  Asked(w)
<1>1. UNCHANGED <<tables, offered>>
  BY DEF CommandSetRank, CommandRecruit, PlayerSetFactionLevel
<1>2. \E p \in People, to \in 0..TopLevel, override \in BOOLEAN :
          SetLevel(w, Change(x, override, p, to, "nothing", 0))
  <2>1. CASE CommandSetRank(w, x)
    <3>1. PICK p \in People, to \in 0..TopLevel : SetLevel(w, Change(x, FALSE, p, to, "nothing", 0))
      BY <2>1 DEF CommandSetRank
    <3>. QED BY <3>1
  <2>2. CASE CommandRecruit(w, x)
    <3>1. PICK p \in People, to \in 1..TopLevel : SetLevel(w, Change(x, FALSE, p, to, "nothing", 0))
      BY <2>2 DEF CommandRecruit
    <3>2. to \in 0..TopLevel
      BY FactionsAssumption
    <3>. QED BY <3>1, <3>2
  <2>3. CASE PlayerSetFactionLevel(w, x)
    <3>1. PICK p \in People, to \in 0..TopLevel : SetLevel(w, Change(x, TRUE, p, to, "nothing", 0))
      BY <2>3 DEF PlayerSetFactionLevel
    <3>. QED BY <3>1
  <2>. QED BY <2>1, <2>2, <2>3
<1>3. PICK p \in People, to \in 0..TopLevel, override \in BOOLEAN :
          SetLevel(w, Change(x, override, p, to, "nothing", 0))
  BY <1>2
<1>4. to \in Nat
  BY FactionsAssumption
<1>5. ChangeOK(Change(x, override, p, to, "nothing", 0))
  BY <1>4, ChangeSorts
<1>. QED BY <1>1, <1>3, <1>5, SetLevelAsks

LEMMA GoOnAsks ==
    ASSUME Sorts, NEW w \in Web, GoOnToSetLevel(w)
    PROVE  Asked(w)
<1>1. ChangeOK(request[w])
  BY DEF GoOnToSetLevel, Sorts, RequestOK
<1>. QED BY <1>1, SetLevelAsks DEF GoOnToSetLevel

LEMMA ProbationAsks ==
    ASSUME Sorts, NEW w \in Web, NEW x \in People, NEW i \in DOMAIN probations,
           ConfirmProbation(w, x, i) \/ EndProbation(w, x, i)
    PROVE  Asked(w)
<1>1. probations[i].who \in People
  BY Elements DEF ProbationRow
<1>2. level[probations[i].who] + 1 \in Nat
  BY <1>1, Levels
<1>3. CASE ConfirmProbation(w, x, i)
  <2>. DEFINE ch == Change(x, FALSE, probations[i].who, level[probations[i].who] + 1, "confirm", i)
  <2>1. ChangeOK(ch) /\ ch.at = "change"
    BY <1>1, <1>2, ChangeSorts
  <2>2. Become(w, ch) /\ UNCHANGED <<tables, offered>>
    BY <1>3 DEF ConfirmProbation
  <2>. HIDE DEF ch
  <2>. QED BY <2>1, <2>2, WillAsk
<1>4. CASE EndProbation(w, x, i)
  <2>. DEFINE ch == Change(x, FALSE, probations[i].who, 0, "end", i)
  <2>1. ChangeOK(ch) /\ ch.at = "change"
    BY <1>1, ChangeSorts
  <2>2. Become(w, ch) /\ UNCHANGED <<tables, offered>>
    BY <1>4 DEF EndProbation
  <2>. HIDE DEF ch
  <2>. QED BY <2>1, <2>2, WillAsk
<1>. QED BY <1>3, <1>4

LEMMA DischargeAsks ==
    ASSUME Sorts, NEW w \in Web, NEW x \in People, CommandDischarge(w, x)
    PROVE  Asked(w)
<1>1. PICK p \in People : Discharge(w, x, p)
  BY DEF CommandDischarge
<1>. DEFINE ch == Change(x, FALSE, p, 0, "discharge", 0)
<1>2. ChangeOK(ch) /\ ch.at = "change"
  BY ChangeSorts
<1>3. Become(w, ch) /\ UNCHANGED <<tables, offered>>
  BY <1>1 DEF Discharge
<1>. HIDE DEF ch
<1>. QED BY <1>2, <1>3, WillAsk

LEMMA DecideAsks ==
    ASSUME Sorts, NEW w \in Web, NEW x \in People, CommandDecideApp(w, x)
    PROVE  Asked(w)
<1>1. PICK a \in DOMAIN apps, accept \in BOOLEAN : DecideFaction(w, x, a, accept)
  BY DEF CommandDecideApp
<1>2. apps[a].who \in People
  BY Elements DEF AppRow
<1>. DEFINE ch == Change(x, FALSE, apps[a].who, 1, IF accept THEN "accept" ELSE "reject", a)
            new == [ch EXCEPT !.at = "finish"]
<1>3. ChangeOK(ch) /\ ch.at = "change"
  <2>. DEFINE then == IF accept THEN "accept" ELSE "reject"
  <2>1. then \notin {"confirm", "end"} /\ FALSE \in BOOLEAN /\ 1 \in Nat
        /\ ch = Change(x, FALSE, apps[a].who, 1, then, a)
    OBVIOUS
  <2>. HIDE DEF then, ch
  <2>2. ChangeOK(Change(x, FALSE, apps[a].who, 1, then, a))
        /\ Change(x, FALSE, apps[a].who, 1, then, a).at = "change"
    BY <1>2, <2>1, Levels DEF Change, ChangeOK
  <2>. QED BY <2>1, <2>2
<1>4. CASE accept
  <2>1. Become(w, ch) /\ UNCHANGED <<tables, offered>>
    BY <1>1, <1>4 DEF DecideFaction
  <2>. HIDE DEF ch
  <2>. QED BY <1>3, <2>1, WillAsk
<1>5. CASE ~accept
  <2>1. Become(w, new) /\ UNCHANGED <<tables, offered>>
    BY <1>1, <1>5 DEF DecideFaction
  <2>2. ch.then = "reject"
    BY <1>5 DEF Change
  <2>. HIDE DEF ch
  <2>3. ChangeOK(new) /\ new.at = "finish" /\ new.then = "reject"
    BY <1>3, <2>2, ChangeMoves
  <2>. HIDE DEF new
  <2>. QED BY <2>1, <2>3, WillAsk
<1>. QED BY <1>4, <1>5

LEMMA Asks ==
    ASSUME Sorts, NEW w \in Web, NEW r, RequestOK(r), Become(w, r), UNCHANGED <<tables, offered>>,
           r.at \notin {"changing", "issuing", "finish"}
    PROVE  Asked(w)
<1>1. WebOK' /\ request'[w] = r /\ OthersWait(w)
  BY Becomes DEF Sorts
<1>. QED BY <1>1 DEF Asked

LEMMA IssueAsks ==
    ASSUME Sorts, NEW w \in Web, NEW x \in People, CommandDisciplineIssue(w, x)
    PROVE  Asked(w)
<1>1. PICK p \in People, points \in Amounts, apply \in BOOLEAN : IssueDiscipline(w, x, p, points, apply)
  BY DEF CommandDisciplineIssue
<1>. DEFINE r == [at |-> "issuing", by |-> x, who |-> p, points |-> points, apply |-> apply,
                  before |-> ActivePoints(p), warnings |-> Cardinality(ActiveMVWs(p)),
                  rankOK |-> level[p] <= UpTo(x)]
<1>2. Become(w, r) /\ ~Locked(p) /\ UNCHANGED <<tables, offered>>
  BY <1>1 DEF IssueDiscipline
<1>3. /\ r.at = "issuing" /\ r.by = x /\ r.who = p /\ r.points = points
      /\ r.warnings = Cardinality(ActiveMVWs(p))
  OBVIOUS
<1>4. points \in Points \cup {0}
  BY DEF Amounts
<1>. HIDE DEF r
<1>5. WebOK' /\ request'[w] = r /\ OthersWait(w)
  BY <1>2, Becomes DEF Sorts
<1>6. RequestOK(r)
  BY <1>3, <1>4 DEF RequestOK, Places
<1>. QED BY <1>2, <1>3, <1>5, <1>6 DEF Asked

LEMMA ListAsks ==
    ASSUME Sorts, NEW w \in Web, NEW x \in People, CommandBlacklistAdd(w, x)
    PROVE  Asked(w)
<1>1. PICK p \in People : AddBlacklist(w, x, p)
  BY DEF CommandBlacklistAdd
<1>. DEFINE r == [at |-> "listing", who |-> p]
<1>2. Become(w, r) /\ UNCHANGED <<tables, offered>>
  BY <1>1 DEF AddBlacklist
<1>3. RequestOK(r) /\ r.at = "listing"
  BY DEF RequestOK, Places
<1>. HIDE DEF r
<1>. QED BY <1>2, <1>3, Asks

LEMMA ApplyAsks ==
    ASSUME Sorts, NEW w \in Web, NEW p \in People,
           SubmitFaction(w, p) \/ \E d \in DivisionsHere : ApplyToDivision(w, p, d)
    PROVE  Asked(w)
<1>1. CASE SubmitFaction(w, p)
  <2>. DEFINE r == [at |-> "applying", who |-> p, div |-> None]
  <2>1. Become(w, r) /\ UNCHANGED <<tables, offered>>
    BY <1>1 DEF SubmitFaction
  <2>2. RequestOK(r) /\ r.at = "applying"
    BY DEF RequestOK, Places
  <2>. HIDE DEF r
  <2>. QED BY <2>1, <2>2, Asks
<1>2. CASE \E d \in DivisionsHere : ApplyToDivision(w, p, d)
  <2>1. PICK d \in DivisionsHere : ApplyToDivision(w, p, d)
    BY <1>2
  <2>. DEFINE r == [at |-> "applying", who |-> p, div |-> d]
  <2>2. Become(w, r) /\ UNCHANGED <<tables, offered>>
    BY <2>1 DEF ApplyToDivision
  <2>3. RequestOK(r) /\ r.at = "applying"
    BY DEF RequestOK, Places, DivisionsHere
  <2>. HIDE DEF r
  <2>. QED BY <2>2, <2>3, Asks
<1>. QED BY <1>1, <1>2

LEMMA PostAsks ==
    ASSUME Sorts, NEW w \in Web, NEW x \in People,
           \/ CommandDivisionAction(w, x)
           \/ \E a \in DOMAIN divapps : AcceptDivisionApp(w, x, a)
    PROVE  Asked(w)
<1>1. ASSUME NEW p \in People, NEW d \in DOMAIN Divisions, NEW role \in Roles \cup {None}, NEW leave,
               NEW app,
             app = 0 \/ app \in DOMAIN divapps,
             Become(w, PostingTo(p, d, role, leave, app)), UNCHANGED <<tables, offered>>
      PROVE  Asked(w)
  <2>. DEFINE r == PostingTo(p, d, role, leave, app)
  <2>1. RequestOK(r) /\ r.at = "posting"
    BY <1>1 DEF RequestOK, PostingOK, PostingTo, Places
  <2>2. Become(w, r)
    BY <1>1
  <2>. HIDE DEF r
  <2>. QED BY <1>1, <2>1, <2>2, Asks
<1>2. CASE CommandDivisionAction(w, x)
  <2>1. PICK p \in People, d \in DivisionsHere : \E role \in RolesOf(d) \cup {None} :
            SetDivision(w, x, PanelOverride(x), p, d, role)
    BY <1>2 DEF CommandDivisionAction
  <2>2. PICK role \in RolesOf(d) \cup {None} : SetDivision(w, x, PanelOverride(x), p, d, role)
    BY <2>1
  <2>3. d \in DOMAIN Divisions
    BY DEF DivisionsHere
  <2>4. role \in Roles \cup {None}
    BY <2>3, RolesAreThere
  <2>. DEFINE leave == IF role = None \/ Divisions[d].admin THEN {}
                       ELSE {e \in DOMAIN Divisions \ (AdminDivisions \cup {d}) : posting[p][e] # None}
  <2>5. Become(w, PostingTo(p, d, role, leave, 0)) /\ UNCHANGED <<tables, offered>>
    BY <2>2 DEF SetDivision
  <2>. HIDE DEF leave
  <2>. QED BY <1>1, <2>3, <2>4, <2>5
<1>3. CASE \E a \in DOMAIN divapps : AcceptDivisionApp(w, x, a)
  <2>1. PICK a \in DOMAIN divapps : AcceptDivisionApp(w, x, a)
    BY <1>3
  <2>2. divapps[a].who \in People /\ divapps[a].div \in DOMAIN Divisions
    BY Elements DEF DivAppRow
  <2>3. EntryRole(divapps[a].div) \in Roles \cup {None}
    BY <2>2, RolesAreThere
  <2>4. /\ Become(w, PostingTo(divapps[a].who, divapps[a].div, EntryRole(divapps[a].div), {}, a))
        /\ UNCHANGED <<tables, offered>>
    BY <2>1 DEF AcceptDivisionApp
  <2>. QED BY <1>1, <2>2, <2>3, <2>4
<1>. QED BY <1>2, <1>3

LEMMA HeadAsks ==
    ASSUME Sorts, NEW w \in Web, NEW x \in People, CommandQualHead(w, x)
    PROVE  Asked(w)
<1>1. PICK q \in Quals, p \in People \cup {None} : SetQualHead(w, x, q, p)
  BY DEF CommandQualHead
<1>. DEFINE r == [at |-> "heading", qual |-> q, who |-> p]
<1>2. Become(w, r) /\ UNCHANGED <<tables, offered>>
  BY <1>1 DEF SetQualHead
<1>3. RequestOK(r) /\ r.at = "heading"
  BY DEF RequestOK, Places
<1>. HIDE DEF r
<1>. QED BY <1>2, <1>3, Asks

LEMMA IdleIsFine == RequestOK(Idle) /\ Idle.at = "idle"
BY DEF RequestOK, Places, Idle

LEMMA GiveUpAsks ==
    ASSUME Sorts, NEW w \in Web, GiveUp(w)
    PROVE  Asked(w)
<1>1. Become(w, Idle) /\ UNCHANGED <<tables, offered>>
  BY DEF GiveUp
<1>. QED BY <1>1, IdleIsFine, Asks

-----------------------------------------------------------------------------
(* The steps there are.                                                      *)

\* What a request does to the tables when it goes on.
Commits(w) ==
    \/ CommitLevel(w) \/ Confirmed(w) \/ Ended(w) \/ Issued(w) \/ DischargeRecorded(w)
    \/ Listed(w) \/ FactionApplied(w) \/ Decided(w) \/ DivisionSet(w) \/ DivisionApplied(w)
    \/ DivisionAccepted(w) \/ HeadSet(w)

\* What is done at once.
AtOnce(x) ==
    \/ \E i \in DOMAIN probations :
          \/ \E item \in Items, result \in {"pass", "fail", "none"} : SetTraining(x, i, item, result)
          \/ \E fto \in People \cup {None} : UpdateProbation(x, i, fto)
    \/ \E e \in DOMAIN entries : CorrectDiscipline(x, e)
    \/ \E b \in DOMAIN listed : LiftBlacklist(x, b)
    \/ WithdrawFaction(x)
    \/ \E a \in DOMAIN divapps : WithdrawDivisionApp(x, a) \/ RejectDivisionApp(x, a)
    \/ \E p \in People, q \in Quals : SetQual(x, p, q)
    \/ \E p \in People : \/ \E status \in {"active", "loa"} : UpdateMember(x, p, status)
                         \/ \E mark \in {"present", "excused", ""} : SetRollCall(x, p, mark)
    \/ \E l \in 1..TopLevel : \E new \in Rules(l) : UpdateRank(x, ~Cabinet(x) /\ x \in Configure, l,
         new)

LEMMA HandlersAre ==
    ASSUME Sorts, NEW w \in Web, NEW x \in People, Handlers(w, x)
    PROVE  Asked(w) \/ AtOnce(x)
<1>1. CASE CommandSetRank(w, x) \/ CommandRecruit(w, x) \/ PlayerSetFactionLevel(w, x)
  BY <1>1, SetRankAsks
<1>2. CASE CommandProbation(w, x)
  BY <1>2, ProbationAsks DEF CommandProbation, AtOnce
<1>3. CASE CommandDisciplineIssue(w, x)
  BY <1>3, IssueAsks
<1>4. CASE CommandDisciplineCorrect(x)
  BY <1>4 DEF CommandDisciplineCorrect, AtOnce
<1>5. CASE CommandDischarge(w, x)
  BY <1>5, DischargeAsks
<1>6. CASE CommandBlacklistAdd(w, x)
  BY <1>6, ListAsks
<1>7. CASE CommandBlacklistLift(x)
  BY <1>7 DEF CommandBlacklistLift, AtOnce
<1>8. CASE FactionApplySubmit(w, x)
  BY <1>8, ApplyAsks DEF FactionApplySubmit, AtOnce
<1>9. CASE CommandDecideApp(w, x)
  BY <1>9, DecideAsks
<1>10. CASE CommandDivisionAction(w, x)
  BY <1>10, PostAsks
<1>11. CASE DivisionApplySubmit(w, x)
  BY <1>11, ApplyAsks DEF DivisionApplySubmit, AtOnce
<1>12. CASE CommandDivisionDecide(w, x)
  BY <1>12, PostAsks DEF CommandDivisionDecide, AtOnce
<1>13. CASE CommandMemberQual(x)
  BY <1>13 DEF CommandMemberQual, AtOnce
<1>14. CASE CommandQualHead(w, x)
  BY <1>14, HeadAsks
<1>15. CASE CommandPersonnelSave(x)
  BY <1>15 DEF CommandPersonnelSave, AtOnce
<1>16. CASE CommandRankSave(x)
  BY <1>16 DEF CommandRankSave, AtOnce
<1>. QED BY <1>1, <1>2, <1>3, <1>4, <1>5, <1>6, <1>7, <1>8, <1>9, <1>10, <1>11, <1>12, <1>13, <1>14,
            <1>15, <1>16 DEF Handlers

LEMMA StepsAre ==
    ASSUME Sorts, Next
    PROVE  \/ \E w \in Web : Asked(w) \/ Commits(w)
           \/ \E x \in People : AtOnce(x)
           \/ TimePasses
<1>1. ASSUME NEW w \in Web, Steps(w) PROVE Asked(w) \/ Commits(w)
  BY <1>1, GoOnAsks, GiveUpAsks DEF Steps, Commits
<1>2. ASSUME NEW w \in Web, NEW x \in People, Handlers(w, x) PROVE Asked(w) \/ AtOnce(x)
  BY <1>2, HandlersAre
<1>. QED BY <1>1, <1>2 DEF Next

-----------------------------------------------------------------------------
(* Every table keeps rows of its kind.                                       *)

LEMMA SeqSet ==
    ASSUME NEW S, NEW s \in Seq(S), NEW i, NEW e \in S
    PROVE  [s EXCEPT ![i] = e] \in Seq(S) /\ DOMAIN [s EXCEPT ![i] = e] = DOMAIN s
<1>. DEFINE t == [s EXCEPT ![i] = e]
<1>1. Len(s) \in Nat /\ DOMAIN s = 1..Len(s) /\ \A j \in 1..Len(s) : s[j] \in S
  OBVIOUS
<1>2. t = [j \in 1..Len(s) |-> IF j = i THEN e ELSE s[j]]
  BY <1>1
<1>3. t \in [1..Len(s) -> S]
  BY <1>1, <1>2
<1>. QED BY <1>1, <1>2, <1>3

LEMMA SeqMap ==
    ASSUME NEW S, NEW T, NEW s \in Seq(T), NEW t, t = [i \in DOMAIN s |-> t[i]],
             \A i \in DOMAIN s : t[i] \in S
    PROVE  t \in Seq(S) /\ DOMAIN t = DOMAIN s
<1>1. Len(s) \in Nat /\ DOMAIN s = 1..Len(s)
  OBVIOUS
<1>2. t \in [1..Len(s) -> S]
  BY <1>1
<1>. QED BY <1>1, <1>2

LEMMA SeqAdd ==
    ASSUME NEW S, NEW s \in Seq(S), NEW e \in S
    PROVE  /\ Append(s, e) \in Seq(S) /\ Len(Append(s, e)) = Len(s) + 1
                /\ DOMAIN s \subseteq DOMAIN Append(s, e)
           /\ Append(s, e)[Len(s) + 1] = e /\ \A i \in DOMAIN s : Append(s, e)[i] = s[i]
           /\ DOMAIN Append(s, e) = DOMAIN s \cup {Len(s) + 1} /\ Len(s) \in Nat /\ DOMAIN s = 1..Len(s)
OBVIOUS

\* What is referred to by number stays.
Grows ==
    /\ DOMAIN probations \subseteq DOMAIN probations'
    /\ DOMAIN apps \subseteq DOMAIN apps'
    /\ DOMAIN divapps \subseteq DOMAIN divapps'

LEMMA RequestStays ==
    ASSUME NEW v \in Web, RequestOK(request[v]), request'[v] = request[v], Grows
    PROVE  RequestOK(request[v])'
<1>1. ChangeOK(request[v]) => ChangeOK(request[v])'
  BY DEF ChangeOK, Grows
<1>2. PostingOK(request[v]) => PostingOK(request[v])'
  BY DEF PostingOK, Grows
<1>. QED BY <1>1, <1>2 DEF RequestOK

LEMMA Frame ==
    ASSUME Sorts
    PROVE  /\ UNCHANGED <<level, lastLevel>> => LevelsOK'
           /\ UNCHANGED <<probations, posting, file>> => MembersOK'
           /\ UNCHANGED ranks => RanksOK'
           /\ UNCHANGED quals => QualsOK'
           /\ UNCHANGED <<entries, suspensions>> => EntriesOK'
           /\ UNCHANGED <<discharges, listed>> => BooksOK'
           /\ UNCHANGED desk => DeskOK'
<1>1. UNCHANGED <<level, lastLevel>> => LevelsOK'
  BY DEF Sorts, LevelsOK
<1>2. UNCHANGED <<probations, posting, file>> => MembersOK'
  BY DEF Sorts, MembersOK
<1>3. UNCHANGED ranks => RanksOK'
  BY DEF Sorts, RanksOK
<1>4. UNCHANGED quals => QualsOK'
  BY DEF Sorts, QualsOK, quals
<1>5. UNCHANGED <<entries, suspensions>> => EntriesOK'
  BY DEF Sorts, EntriesOK
<1>6. UNCHANGED <<discharges, listed>> => BooksOK'
  BY DEF Sorts, BooksOK
<1>7. UNCHANGED desk => DeskOK'
  BY DEF Sorts, DeskOK, desk
<1>. QED BY <1>1, <1>2, <1>3, <1>4, <1>5, <1>6, <1>7

\* A step that is not a request's.
LEMMA StepSorts ==
    ASSUME Sorts, Grows, UNCHANGED <<request, offered>>,
           LevelsOK', MembersOK', RanksOK', QualsOK', EntriesOK', BooksOK', DeskOK'
    PROVE  Sorts'
<1>1. WebOK' /\ \A v \in Web : RequestOK(request[v])'
  BY RequestStays DEF Sorts, WebOK
<1>. QED BY <1>1 DEF Sorts

\* A request that is done.
LEMMA DoneSorts ==
    ASSUME Sorts, Grows, NEW w \in Web, Become(w, Idle), UNCHANGED offered,
           LevelsOK', MembersOK', RanksOK', QualsOK', EntriesOK', BooksOK', DeskOK'
    PROVE  Sorts'
<1>1. WebOK' /\ request'[w] = Idle /\ OthersWait(w)
  BY Becomes DEF Sorts
<1>2. ASSUME NEW v \in Web PROVE RequestOK(request[v])'
  <2>1. CASE v = w
    BY <1>1, <2>1 DEF RequestOK, Idle, Places
  <2>2. CASE v # w
    BY <1>1, <2>2, RequestStays DEF OthersWait, Sorts
  <2>. QED BY <2>1, <2>2
<1>. QED BY <1>1, <1>2 DEF Sorts

LEMMA AskedSorts ==
    ASSUME Sorts, NEW w \in Web, Asked(w)
    PROVE  Sorts'
<1>1. UNCHANGED <<tables, offered>> /\ WebOK' /\ OthersWait(w) /\ RequestOK(request'[w])
  BY DEF Asked
<1>2. Grows
  BY <1>1 DEF Grows, tables, members, desk
<1>3. ASSUME NEW v \in Web PROVE RequestOK(request[v])'
  <2>1. CASE v = w
    <3>1. ChangeOK(request'[w]) => ChangeOK(request[w])'
      BY <1>2 DEF ChangeOK, Grows
    <3>2. PostingOK(request'[w]) => PostingOK(request[w])'
      BY <1>2 DEF PostingOK, Grows
    <3>. QED BY <1>1, <2>1, <3>1, <3>2 DEF RequestOK
  <2>2. CASE v # w
    BY <1>1, <1>2, <2>2, RequestStays DEF OthersWait, Sorts
  <2>. QED BY <2>1, <2>2
<1>4. LevelsOK' /\ MembersOK' /\ RanksOK' /\ QualsOK' /\ EntriesOK' /\ BooksOK' /\ DeskOK'
  BY <1>1, Frame DEF tables, members, books
<1>. QED BY <1>1, <1>3, <1>4 DEF Sorts

\* setLevel's commit.
LEMMA AfterLevelSorts ==
    ASSUME Sorts, NEW p \in People, NEW to \in 0..TopLevel, AfterLevelChange(p, to)
    PROVE  MembersOK' /\ DOMAIN probations \subseteq DOMAIN probations'
<1>. USE DEF Sorts
<1>1. probations \in Seq(ProbationRow) /\ file \in [People -> FileRow]
      /\ posting \in [People -> [DOMAIN Divisions -> Roles \cup {None}]]
  BY DEF MembersOK
<1>5. level[p] \in Nat
  BY Levels
<1>2. CASE level[p] = 0
  <2>1. file' = [file EXCEPT ![p].status = "active"] /\ posting' = posting
    BY <1>2, <1>5 DEF AfterLevelChange
  <2>2. [file[p] EXCEPT !.status = "active"] \in FileRow
    BY <1>1 DEF FileRow
  <2>3. file' = [file EXCEPT ![p] = [file[p] EXCEPT !.status = "active"]]
    BY <1>1, <2>1
  <2>4. file' \in [People -> FileRow]
    BY <1>1, <2>2, <2>3
  <2>. DEFINE row == [who |-> p, status |-> "active", fto |-> None, sheet |-> [i \in Items |-> "none"]]
  <2>5. row \in ProbationRow
    BY DEF ProbationRow
  <2>6. probations' = probations \/ probations' = Append(probations, row)
    BY <1>2, <1>5 DEF AfterLevelChange
  <2>. HIDE DEF row
  <2>7. probations' \in Seq(ProbationRow) /\ DOMAIN probations \subseteq DOMAIN probations'
    BY <1>1, <2>5, <2>6, SeqAdd
  <2>. QED BY <1>1, <2>1, <2>4, <2>7 DEF MembersOK
<1>3. CASE level[p] # 0 /\ to = 0
  <2>1. /\ probations' = WithoutProbation(p) /\ file' = file
        /\ posting' = [posting EXCEPT ![p] = [d \in DOMAIN Divisions |-> None]]
    BY <1>3, <1>5 DEF AfterLevelChange
  <2>2. ASSUME NEW i \in DOMAIN probations PROVE probations'[i] \in ProbationRow
    <3>1. probations[i] \in ProbationRow
      BY <1>1
    <3>2. [probations[i] EXCEPT !.status = "ended"] \in ProbationRow
      BY <3>1 DEF ProbationRow
    <3>. QED BY <2>1, <3>1, <3>2 DEF WithoutProbation
  <2>3. probations' = [i \in DOMAIN probations |-> probations'[i]]
    BY <2>1 DEF WithoutProbation
  <2>4. probations' \in Seq(ProbationRow) /\ DOMAIN probations' = DOMAIN probations
    BY <1>1, <2>2, <2>3, SeqMap
  <2>5. [d \in DOMAIN Divisions |-> None] \in [DOMAIN Divisions -> Roles \cup {None}]
    OBVIOUS
  <2>6. posting' \in [People -> [DOMAIN Divisions -> Roles \cup {None}]]
    BY <1>1, <2>1, <2>5
  <2>. QED BY <1>1, <2>1, <2>4, <2>6 DEF MembersOK
<1>4. CASE level[p] # 0 /\ to # 0
  <2>1. UNCHANGED <<probations, posting, file>>
    BY <1>4, <1>5 DEF AfterLevelChange
  <2>. QED BY <1>1, <2>1 DEF MembersOK
<1>. QED BY <1>2, <1>3, <1>4

LEMMA CommitLevelSorts ==
    ASSUME Sorts, NEW w \in Web, CommitLevel(w)
    PROVE  Sorts'
<1>. DEFINE r == request[w]  new == IF r.then = "nothing" THEN Idle ELSE [r EXCEPT !.at = "finish"]
<1>1. /\ r.at = "changing" /\ AfterLevelChange(r.who, r.to) /\ Become(w, new)
      /\ level' = [level EXCEPT ![r.who] = r.to]
      /\ lastLevel' = IF r.to = 0 THEN [lastLevel EXCEPT ![r.who] = level[r.who]] ELSE lastLevel
      /\ admitted' = IF r.then = "accept" THEN admitted \cup {r.ref} ELSE admitted
      /\ UNCHANGED <<ranks, quals, books, apps, letters, divapps, offered>>
  BY DEF CommitLevel
<1>2. RequestOK(r)
  BY DEF Sorts
<1>3. ChangeOK(r) /\ r.to \in 0..TopLevel
  BY <1>1, <1>2 DEF RequestOK
<1>4. r.who \in People /\ (r.then = "accept" => r.ref \in DOMAIN apps)
  BY <1>3 DEF ChangeOK
<1>5. LevelsOK'
  BY <1>1, <1>3, <1>4, Levels DEF Sorts, LevelsOK
<1>6. MembersOK' /\ DOMAIN probations \subseteq DOMAIN probations'
  BY <1>1, <1>3, <1>4, AfterLevelSorts
<1>7. DeskOK'
  BY <1>1, <1>4 DEF Sorts, DeskOK
<1>8. RanksOK' /\ QualsOK' /\ EntriesOK' /\ BooksOK'
  BY <1>1, Frame DEF books
<1>9. Grows
  BY <1>1, <1>6 DEF Grows
<1>10. CASE r.then = "nothing"
  <2>1. Become(w, Idle)
    BY <1>1, <1>10
  <2>. HIDE DEF r
  <2>. QED BY <1>1, <1>5, <1>6, <1>7, <1>8, <1>9, <2>1, DoneSorts
<1>11. CASE r.then # "nothing"
  <2>1. new = [r EXCEPT !.at = "finish"]
    BY <1>11
  <2>2. ChangeOK([r EXCEPT !.at = "finish"]) /\ [r EXCEPT !.at = "finish"].at = "finish"
    BY <1>3, ChangeMoves
  <2>3. ChangeOK(new) /\ new.at = "finish"
    BY <2>1, <2>2
  <2>. HIDE DEF new
  <2>4. WebOK' /\ request'[w] = new /\ OthersWait(w)
    BY <1>1, Becomes DEF Sorts
  <2>5. ChangeOK(request'[w]) => ChangeOK(request[w])'
    BY <1>9 DEF ChangeOK, Grows
  <2>6. RequestOK(request[w])'
    BY <2>3, <2>4, <2>5 DEF RequestOK, Places
  <2>7. ASSUME NEW v \in Web PROVE RequestOK(request[v])'
    BY <1>9, <2>4, <2>6, RequestStays DEF OthersWait, Sorts
  <2>. QED BY <1>1, <1>5, <1>6, <1>7, <1>8, <2>4, <2>7 DEF Sorts
<1>. QED BY <1>10, <1>11

\* The other steps that touch a probation.
LEMMA ProbationSet ==
    ASSUME Sorts, NEW i \in DOMAIN probations, NEW row \in ProbationRow,
           probations' = [probations EXCEPT ![i] = row], UNCHANGED <<posting, file>>
    PROVE  MembersOK' /\ DOMAIN probations' = DOMAIN probations
<1>1. probations \in Seq(ProbationRow)
  BY DEF Sorts, MembersOK
<1>. QED BY <1>1, SeqSet DEF Sorts, MembersOK

\* What training does to a probation.
LEMMA TrainingWrites ==
    ASSUME Sorts, NEW x \in People, NEW i \in DOMAIN probations,
           \/ \E item \in Items, result \in {"pass", "fail", "none"} : SetTraining(x, i, item, result)
           \/ \E fto \in People \cup {None} : UpdateProbation(x, i, fto)
    PROVE  /\ \E row \in ProbationRow : /\ probations' = [probations EXCEPT ![i] = row]
                                       /\ row.who = probations[i].who
                                            /\ row.status = probations[i].status
           /\ UNCHANGED <<level, lastLevel, posting, file, ranks, quals, books, desk, request, offered>>
<1>1. probations[i] \in ProbationRow
  BY Elements
<1>2. CASE \E item \in Items, result \in {"pass", "fail", "none"} : SetTraining(x, i, item, result)
  <2>1. PICK item \in Items, result \in {"pass", "fail", "none"} : SetTraining(x, i, item, result)
    BY <1>2
  <2>. DEFINE sheet == [probations[i].sheet EXCEPT ![item] = result]
              row == [probations[i] EXCEPT !.sheet = sheet]
  <2>2. /\ probations' = [probations EXCEPT ![i] = row]
        /\ UNCHANGED <<level, lastLevel, posting, file, ranks, quals, books, desk, request, offered>>
    BY <2>1 DEF SetTraining
  <2>3. sheet \in [Items -> {"none", "pass", "fail"}]
    BY <1>1 DEF ProbationRow
  <2>. HIDE DEF sheet
  <2>4. row \in ProbationRow /\ row.who = probations[i].who /\ row.status = probations[i].status
    BY <1>1, <2>3 DEF ProbationRow
  <2>. QED BY <2>2, <2>4
<1>3. CASE \E fto \in People \cup {None} : UpdateProbation(x, i, fto)
  <2>1. PICK fto \in People \cup {None} : UpdateProbation(x, i, fto)
    BY <1>3
  <2>. DEFINE row == [probations[i] EXCEPT !.fto = fto]
  <2>2. /\ probations' = [probations EXCEPT ![i] = row]
        /\ UNCHANGED <<level, lastLevel, posting, file, ranks, quals, books, desk, request, offered>>
    BY <2>1 DEF UpdateProbation
  <2>3. row \in ProbationRow /\ row.who = probations[i].who /\ row.status = probations[i].status
    BY <1>1 DEF ProbationRow
  <2>. QED BY <2>2, <2>3
<1>. QED BY <1>2, <1>3

LEMMA TrainingSorts ==
    ASSUME Sorts, NEW x \in People, NEW i \in DOMAIN probations,
           \/ \E item \in Items, result \in {"pass", "fail", "none"} : SetTraining(x, i, item, result)
           \/ \E fto \in People \cup {None} : UpdateProbation(x, i, fto)
    PROVE  Sorts'
<1>1. /\ \E row \in ProbationRow : probations' = [probations EXCEPT ![i] = row]
      /\ UNCHANGED <<level, lastLevel, posting, file, ranks, quals, books, desk, request, offered>>
  BY TrainingWrites
<1>2. MembersOK' /\ DOMAIN probations' = DOMAIN probations
  BY <1>1, ProbationSet
<1>3. Grows
  BY <1>1, <1>2 DEF Grows, desk
<1>4. LevelsOK' /\ RanksOK' /\ QualsOK' /\ EntriesOK' /\ BooksOK' /\ DeskOK'
  BY <1>1, Frame DEF books
<1>. QED BY <1>1, <1>2, <1>3, <1>4, StepSorts

LEMMA ConfirmedSorts ==
    ASSUME Sorts, NEW w \in Web, Confirmed(w)
    PROVE  Sorts'
<1>. DEFINE r == request[w]
            row == [probations[r.ref] EXCEPT !.status =
              IF probations[r.ref].status = "active" THEN "confirmed"
                                                       ELSE probations[r.ref].status]
<1>1. /\ r.at = "finish" /\ r.then = "confirm"
      /\ Become(w, Idle)
      /\ UNCHANGED <<level, lastLevel, posting, file, ranks, quals, books, desk, offered>>
      /\ probations' = [probations EXCEPT ![r.ref] = row]
  BY DEF Confirmed
<1>2. r.ref \in DOMAIN probations
  BY <1>1 DEF Sorts, RequestOK, ChangeOK
<1>3. row \in ProbationRow
  <2>1. probations[r.ref] \in ProbationRow
    BY <1>2, Elements
  <2>. QED BY <2>1 DEF ProbationRow
<1>. HIDE DEF row
<1>4. MembersOK' /\ DOMAIN probations' = DOMAIN probations
  BY <1>1, <1>2, <1>3, ProbationSet
<1>5. Grows
  BY <1>1, <1>4 DEF Grows, desk
<1>6. LevelsOK' /\ RanksOK' /\ QualsOK' /\ EntriesOK' /\ BooksOK' /\ DeskOK'
  BY <1>1, Frame DEF books
<1>. QED BY <1>1, <1>4, <1>5, <1>6, DoneSorts

LEMMA DischargedSorts ==
    ASSUME Sorts, NEW r, ChangeOK(r),
             NEW type \in {"resigned", "contract_termination", "probation_ended"},
           Discharged(r, type), UNCHANGED listed
    PROVE  BooksOK'
<1>1. [who |-> r.who, last |-> r.read, type |-> type] \in DischargeRow
  BY DEF ChangeOK, DischargeRow
<1>. QED BY <1>1 DEF Discharged, Sorts, BooksOK

LEMMA EndedSorts ==
    ASSUME Sorts, NEW w \in Web, Ended(w)
    PROVE  Sorts'
<1>. DEFINE r == request[w]
            row == [probations[r.ref] EXCEPT !.status = "ended"]
<1>1. /\ r.at = "finish" /\ r.then = "end"
      /\ Become(w, Idle)
      /\ UNCHANGED <<level, lastLevel, posting, file, ranks, quals, entries, suspensions, listed, desk,
           offered>>
      /\ probations' = [probations EXCEPT ![r.ref] = row]
      /\ Discharged(r, "probation_ended")
  BY DEF Ended
<1>2. ChangeOK(r) /\ r.ref \in DOMAIN probations
  BY <1>1 DEF Sorts, RequestOK, ChangeOK
<1>3. row \in ProbationRow
  <2>1. probations[r.ref] \in ProbationRow
    BY <1>2, Elements
  <2>. QED BY <2>1 DEF ProbationRow
<1>. HIDE DEF row, r
<1>4. MembersOK' /\ DOMAIN probations' = DOMAIN probations
  BY <1>1, <1>2, <1>3, ProbationSet
<1>5. Grows
  BY <1>1, <1>4 DEF Grows, desk
<1>6. BooksOK'
  BY <1>1, <1>2, DischargedSorts
<1>7. LevelsOK' /\ RanksOK' /\ QualsOK' /\ EntriesOK' /\ DeskOK'
  BY <1>1, Frame
<1>. QED BY <1>1, <1>4, <1>5, <1>6, <1>7, DoneSorts

LEMMA DischargeRecordedSorts ==
    ASSUME Sorts, NEW w \in Web, DischargeRecorded(w)
    PROVE  Sorts'
<1>. DEFINE r == request[w]
<1>1. /\ r.at = "finish" /\ Become(w, Idle)
      /\ UNCHANGED <<members, ranks, quals, entries, suspensions, listed, desk, offered>>
  BY DEF DischargeRecorded
<1>2. PICK type \in {"resigned", "contract_termination", "probation_ended"} : Discharged(r, type)
  BY DEF DischargeRecorded
<1>3. ChangeOK(r)
  BY <1>1 DEF Sorts, RequestOK
<1>. HIDE DEF r
<1>4. BooksOK'
  BY <1>1, <1>2, <1>3, DischargedSorts
<1>5. Grows
  BY <1>1 DEF Grows, desk, members
<1>6. LevelsOK' /\ MembersOK' /\ RanksOK' /\ QualsOK' /\ EntriesOK' /\ DeskOK'
  BY <1>1, Frame DEF members
<1>. QED BY <1>1, <1>4, <1>5, <1>6, DoneSorts

\* A request that goes on to something else.
LEMMA GoesOnSorts ==
    ASSUME Sorts, Grows, NEW w \in Web, WebOK', OthersWait(w), RequestOK(request[w])',
             UNCHANGED offered,
           LevelsOK', MembersOK', RanksOK', QualsOK', EntriesOK', BooksOK', DeskOK'
    PROVE  Sorts'
<1>1. ASSUME NEW v \in Web PROVE RequestOK(request[v])'
  BY RequestStays DEF OthersWait, Sorts
<1>. QED BY <1>1 DEF Sorts

\* The books of discipline.
LEMMA EntryAdded ==
    ASSUME NEW s \in Seq(EntryRow), NEW e \in EntryRow, \A i \in DOMAIN s : s[i].of < i,
             e.of < Len(s) + 1
    PROVE  /\ Append(s, e) \in Seq(EntryRow) /\ DOMAIN s \subseteq DOMAIN Append(s, e)
           /\ Len(Append(s, e)) = Len(s) + 1 /\ \A i \in DOMAIN Append(s, e) : Append(s, e)[i].of < i
<1>. DEFINE t == Append(s, e)
<1>1. /\ t \in Seq(EntryRow) /\ Len(t) = Len(s) + 1 /\ DOMAIN s \subseteq DOMAIN t
      /\ t[Len(s) + 1] = e /\ \A i \in DOMAIN s : t[i] = s[i]
      /\ DOMAIN t = DOMAIN s \cup {Len(s) + 1} /\ Len(s) \in Nat
  BY SeqAdd
<1>. HIDE DEF t
<1>2. ASSUME NEW i \in DOMAIN t PROVE t[i].of < i
  <2>1. CASE i = Len(s) + 1
    BY <1>1, <2>1
  <2>2. CASE i \in DOMAIN s
    BY <1>1, <2>2
  <2>. QED BY <1>1, <2>1, <2>2
<1>. QED BY <1>1, <1>2 DEF t

\* What is written when an entry is issued.
Given(p, points) == Entry(p, IF points = 0 THEN "mvw" ELSE "points", points, 0)
Conversion(p) == Entry(p, "mvw_conversion", MVWConversionPoints, 0)

LEMMA EntriesGiven ==
    ASSUME Sorts, NEW p \in People, NEW points \in Points \cup {0}
    PROVE  Given(p, points) \in EntryRow /\ Conversion(p) \in EntryRow
           /\ Given(p, points).of = 0 /\ Conversion(p).of = 0
<1>1. level[p] \in 0..TopLevel /\ points \in Int
  <2>1. Points \subseteq Nat \ {0}
    BY FactionsAssumption
  <2>2. points \in Int
    BY <2>1
  <2>3. level[p] \in 0..TopLevel
    BY Levels
  <2>. QED BY <2>2, <2>3
<1>. QED BY <1>1 DEF Given, Conversion, Entry, EntryRow, MVWConversionPoints

LEMMA IssuedWrites ==
    ASSUME Sorts, NEW w \in Web, Issued(w)
    PROVE  LET r == request[w] IN
           /\ r.at = "issuing" /\ r.who \in People /\ r.by \in People /\ r.points \in Points \cup {0}
           /\ \/ entries' = Append(entries, Given(r.who, r.points))
              \/ /\ r.points = 0 /\ r.warnings + 1 >= MVWsPerConversion
                 /\ entries' = Append(Append(entries, Given(r.who, r.points)), Conversion(r.who))
           /\ \/ suspensions' = suspensions
              \/ suspensions' = Append(suspensions, [who |-> r.who, entry |-> Len(entries) + 1,
                   live |-> TRUE])
           /\ listed' = listed \/ listed' = Append(listed, [who |-> r.who, live |-> TRUE])
           /\ \E new : Become(w, new) /\ (new = Idle \/ (ChangeOK(new) /\ new.at = "change"))
           /\ UNCHANGED <<members, ranks, quals, discharges, desk, offered>>
<1>. DEFINE r == request[w]
            converted == r.points = 0 /\ r.warnings + 1 >= MVWsPerConversion
<1>1. r.at = "issuing" /\ UNCHANGED <<members, ranks, quals, discharges, desk, offered>>
  BY DEF Issued
<1>2. RequestOK(r)
  BY DEF Sorts
<1>3. r.who \in People /\ r.by \in People /\ r.points \in Points \cup {0}
  BY <1>1, <1>2 DEF RequestOK
<1>4. entries \in Seq(EntryRow)
  BY DEF Sorts, EntriesOK
<1>5. Given(r.who, r.points) \in EntryRow /\ Conversion(r.who) \in EntryRow
  BY <1>3, EntriesGiven
<1>6. entries' = entries \o <<Given(r.who, r.points)>> \o (IF converted THEN <<Conversion(r.who)>>
        ELSE <<>>)
  BY DEF Issued, Given, Conversion
<1>7. \/ entries' = Append(entries, Given(r.who, r.points))
      \/ converted /\ entries' = Append(Append(entries, Given(r.who, r.points)), Conversion(r.who))
  <2>. DEFINE one == Given(r.who, r.points)  two == Conversion(r.who)
  <2>1. one \in EntryRow /\ two \in EntryRow
    BY <1>5
  <2>2. entries' = entries \o <<one>> \o (IF converted THEN <<two>> ELSE <<>>)
    BY <1>6
  <2>. HIDE DEF one, two
  <2>3. entries \o <<one>> = Append(entries, one) /\ Append(entries, one) \in Seq(EntryRow)
    BY <1>4, <2>1
  <2>4. Append(entries, one) \o <<two>> = Append(Append(entries, one), two)
    BY <2>1, <2>3
  <2>5. Append(entries, one) \o <<>> = Append(entries, one)
    BY <2>3
  <2>6. CASE converted
    BY <2>2, <2>3, <2>4, <2>6 DEF one, two
  <2>7. CASE ~converted
    BY <2>2, <2>3, <2>5, <2>7 DEF one, two
  <2>. QED BY <2>6, <2>7
<1>8. /\ \/ suspensions' = suspensions
         \/ suspensions' = Append(suspensions, [who |-> r.who, entry |-> Len(entries) + 1,
              live |-> TRUE])
      /\ listed' = listed \/ listed' = Append(listed, [who |-> r.who, live |-> TRUE])
  BY DEF Issued
<1>9. \E new : Become(w, new) /\ (new = Idle \/ (ChangeOK(new) /\ new.at = "change"))
  <2>1. \/ \E ref : Become(w, Change(r.by, FALSE, r.who, 0, "terminate", ref))
        \/ level[r.who] > 1 /\ Become(w, Change(r.by, FALSE, r.who, level[r.who] - 1, "nothing", 0))
        \/ Become(w, Idle)
    BY DEF Issued
  <2>. HIDE DEF r
  <2>4. level[r.who] \in 0..TopLevel
    BY <1>3, Levels
  <2>2. CASE \E ref : Become(w, Change(r.by, FALSE, r.who, 0, "terminate", ref))
    <3>1. PICK ref : Become(w, Change(r.by, FALSE, r.who, 0, "terminate", ref))
      BY <2>2
    <3>2. ChangeOK(Change(r.by, FALSE, r.who, 0, "terminate", ref))
          /\ Change(r.by, FALSE, r.who, 0, "terminate", ref).at = "change"
      BY <1>3, <2>4 DEF Change, ChangeOK
    <3>. QED BY <3>1, <3>2
  <2>3. CASE level[r.who] > 1 /\ Become(w, Change(r.by, FALSE, r.who, level[r.who] - 1, "nothing", 0))
    <3>1. level[r.who] - 1 \in Nat
      BY <1>3, <2>3, Levels
    <3>2. ChangeOK(Change(r.by, FALSE, r.who, level[r.who] - 1, "nothing", 0))
          /\ Change(r.by, FALSE, r.who, level[r.who] - 1, "nothing", 0).at = "change"
      BY <1>3, <2>4, <3>1 DEF Change, ChangeOK
    <3>. QED BY <2>3, <3>2
  <2>. QED BY <2>1, <2>2, <2>3
<1>. QED BY <1>1, <1>3, <1>7, <1>8, <1>9

LEMMA IssuedSorts ==
    ASSUME Sorts, NEW w \in Web, Issued(w)
    PROVE  Sorts'
<1>. DEFINE p == request[w].who  points == request[w].points
<1>1. /\ p \in People /\ points \in Points \cup {0}
      /\ \/ entries' = Append(entries, Given(p, points))
         \/ entries' = Append(Append(entries, Given(p, points)), Conversion(p))
      /\ \/ suspensions' = suspensions
         \/ suspensions' = Append(suspensions, [who |-> p, entry |-> Len(entries) + 1, live |-> TRUE])
      /\ listed' = listed \/ listed' = Append(listed, [who |-> p, live |-> TRUE])
      /\ UNCHANGED <<members, ranks, quals, discharges, desk, offered>>
  BY IssuedWrites
<1>2. PICK new : Become(w, new) /\ (new = Idle \/ (ChangeOK(new) /\ new.at = "change"))
  BY IssuedWrites
<1>. HIDE DEF p, points
<1>3. Given(p, points) \in EntryRow /\ Conversion(p) \in EntryRow /\ Given(p, points).of = 0
        /\ Conversion(p).of = 0
  BY <1>1, EntriesGiven
<1>4. /\ entries \in Seq(EntryRow) /\ suspensions \in Seq(SuspensionRow) /\ listed \in Seq(ListedRow)
      /\ \A e \in DOMAIN entries : entries[e].of < e
      /\ \A s \in DOMAIN suspensions : suspensions[s].entry \in DOMAIN entries
  BY DEF Sorts, EntriesOK, BooksOK
<1>5. Len(entries) \in Nat /\ DOMAIN entries = 1..Len(entries)
  BY <1>4
<1>6. /\ entries' \in Seq(EntryRow) /\ \A e \in DOMAIN entries' : entries'[e].of < e
      /\ DOMAIN entries \subseteq DOMAIN entries' /\ Len(entries) + 1 \in DOMAIN entries'
  <2>. DEFINE one == Append(entries, Given(p, points))
  <2>1. /\ one \in Seq(EntryRow) /\ \A e \in DOMAIN one : one[e].of < e
        /\ Len(one) = Len(entries) + 1 /\ DOMAIN entries \subseteq DOMAIN one
    BY <1>3, <1>4, <1>5, EntryAdded
  <2>2. CASE entries' = one
    BY <1>5, <2>1, <2>2
  <2>3. CASE entries' = Append(one, Conversion(p))
    <3>. HIDE DEF one
    <3>. DEFINE two == Append(one, Conversion(p))
    <3>1. /\ two \in Seq(EntryRow) /\ \A e \in DOMAIN two : two[e].of < e
          /\ Len(two) = Len(one) + 1 /\ DOMAIN one \subseteq DOMAIN two
      BY <1>3, <1>5, <2>1, EntryAdded
    <3>2. entries' = two
      BY <2>3
    <3>. HIDE DEF two
    <3>. QED BY <1>5, <2>1, <3>1, <3>2
  <2>. QED BY <1>1, <2>2, <2>3
<1>7. suspensions' \in Seq(SuspensionRow)
        /\ \A s \in DOMAIN suspensions' : suspensions'[s].entry \in DOMAIN entries'
  <2>1. CASE suspensions' = suspensions
    BY <1>4, <1>6, <2>1
  <2>2. CASE suspensions' # suspensions
    <3>. DEFINE row == [who |-> p, entry |-> Len(entries) + 1, live |-> TRUE]
    <3>1. suspensions' = Append(suspensions, row)
      BY <1>1, <2>2
    <3>2. row \in SuspensionRow /\ row.entry = Len(entries) + 1
      BY <1>1, <1>5 DEF SuspensionRow
    <3>. HIDE DEF row
    <3>3. /\ suspensions' \in Seq(SuspensionRow) /\ suspensions'[Len(suspensions) + 1] = row
          /\ \A s \in DOMAIN suspensions : suspensions'[s] = suspensions[s]
          /\ DOMAIN suspensions' = DOMAIN suspensions \cup {Len(suspensions) + 1}
      BY <1>4, <3>1, <3>2, SeqAdd
    <3>4. ASSUME NEW s \in DOMAIN suspensions' PROVE suspensions'[s].entry \in DOMAIN entries'
      <4>1. CASE s \in DOMAIN suspensions
        BY <1>4, <1>6, <3>3, <4>1
      <4>2. CASE s = Len(suspensions) + 1
        BY <1>6, <3>2, <3>3, <4>2
      <4>. QED BY <3>3, <4>1, <4>2
    <3>. QED BY <3>3, <3>4
  <2>. QED BY <2>1, <2>2
<1>8. EntriesOK'
  BY <1>6, <1>7 DEF EntriesOK
<1>9. BooksOK'
  <2>. DEFINE row == [who |-> p, live |-> TRUE]
  <2>1. row \in ListedRow
    BY <1>1 DEF ListedRow
  <2>3. listed' = listed \/ listed' = Append(listed, row)
    BY <1>1
  <2>. HIDE DEF row
  <2>4. Append(listed, row) \in Seq(ListedRow)
    BY <1>4, <2>1, SeqAdd
  <2>2. listed' \in Seq(ListedRow)
    BY <1>4, <2>3, <2>4
  <2>. QED BY <1>1, <2>2 DEF BooksOK, Sorts
<1>10. Grows
  BY <1>1 DEF Grows, desk, members
<1>11. LevelsOK' /\ MembersOK' /\ RanksOK' /\ QualsOK' /\ DeskOK'
  BY <1>1, Frame DEF members
<1>12. WebOK' /\ request'[w] = new /\ OthersWait(w)
  BY <1>2, Becomes DEF Sorts
<1>13. RequestOK(request[w])'
  <2>1. CASE new = Idle
    BY <1>12, <2>1 DEF RequestOK, Idle, Places
  <2>2. CASE ChangeOK(new) /\ new.at = "change"
    <3>1. ChangeOK(request'[w]) => ChangeOK(request[w])'
      BY <1>10 DEF ChangeOK, Grows
    <3>. QED BY <1>12, <2>2, <3>1 DEF RequestOK, Places
  <2>. QED BY <1>2, <2>1, <2>2
<1>. QED BY <1>1, <1>8, <1>9, <1>10, <1>11, <1>12, <1>13, GoesOnSorts

LEMMA CorrectSorts ==
    ASSUME Sorts, NEW x \in People, NEW e \in DOMAIN entries, CorrectDiscipline(x, e)
    PROVE  Sorts'
<1>. DEFINE p == entries[e].who
            row == [Entry(p, "correction", -entries[e].points, e) EXCEPT !.live = entries[e].live]
<1>1. /\ entries' = Append(entries, row)
      /\ suspensions' = [s \in DOMAIN suspensions |->
            IF suspensions[s].entry = e THEN [suspensions[s] EXCEPT !.live = FALSE] ELSE suspensions[s]]
      /\ UNCHANGED <<members, ranks, quals, discharges, listed, desk, request, offered>>
  BY DEF CorrectDiscipline
<1>2. /\ entries \in Seq(EntryRow) /\ suspensions \in Seq(SuspensionRow)
      /\ \A i \in DOMAIN entries : entries[i].of < i
      /\ \A s \in DOMAIN suspensions : suspensions[s].entry \in DOMAIN entries
  BY DEF Sorts, EntriesOK
<1>3. Len(entries) \in Nat /\ DOMAIN entries = 1..Len(entries) /\ e \in Nat /\ e < Len(entries) + 1
  BY <1>2
<1>4. row \in EntryRow /\ row.of = e
  <2>1. entries[e] \in EntryRow
    BY Elements
  <2>2. p \in People /\ -entries[e].points \in Int /\ entries[e].live \in BOOLEAN
    BY <2>1 DEF EntryRow
  <2>3. level[p] \in 0..TopLevel
    BY <2>2, Levels
  <2>. QED BY <1>3, <2>2, <2>3 DEF Entry, EntryRow
<1>. HIDE DEF row
<1>5. /\ entries' \in Seq(EntryRow) /\ \A i \in DOMAIN entries' : entries'[i].of < i
      /\ DOMAIN entries \subseteq DOMAIN entries'
  BY <1>1, <1>2, <1>3, <1>4, EntryAdded
<1>6. ASSUME NEW s \in DOMAIN suspensions
      PROVE  suspensions'[s] \in SuspensionRow /\ suspensions'[s].entry = suspensions[s].entry
  <2>1. suspensions[s] \in SuspensionRow
    BY Elements
  <2>. QED BY <1>1, <2>1 DEF SuspensionRow
<1>7. suspensions' = [s \in DOMAIN suspensions |-> suspensions'[s]]
  BY <1>1
<1>8. suspensions' \in Seq(SuspensionRow) /\ DOMAIN suspensions' = DOMAIN suspensions
  BY <1>2, <1>6, <1>7, SeqMap
<1>9. EntriesOK'
  BY <1>2, <1>5, <1>6, <1>8 DEF EntriesOK
<1>10. Grows
  BY <1>1 DEF Grows, desk, members
<1>11. LevelsOK' /\ MembersOK' /\ RanksOK' /\ QualsOK' /\ BooksOK' /\ DeskOK'
  BY <1>1, Frame DEF members
<1>. QED BY <1>1, <1>9, <1>10, <1>11, StepSorts

LEMMA ExpireSorts ==
    ASSUME Sorts, NEW e \in DOMAIN entries, EntryExpires(e)
    PROVE  Sorts'
<1>1. /\ entries' = [i \in DOMAIN entries |->
            IF i = e \/ entries[i].of = e THEN [entries[i] EXCEPT !.live = FALSE] ELSE entries[i]]
      /\ UNCHANGED <<members, ranks, quals, suspensions, discharges, listed, desk, request, offered>>
  BY DEF EntryExpires
<1>2. ASSUME NEW i \in DOMAIN entries PROVE entries'[i] \in EntryRow /\ entries'[i].of = entries[i].of
  <2>1. entries[i] \in EntryRow
    BY Elements
  <2>. QED BY <1>1, <2>1 DEF EntryRow
<1>3. entries' = [i \in DOMAIN entries |-> entries'[i]] /\ entries \in Seq(EntryRow)
  BY <1>1 DEF Sorts, EntriesOK
<1>4. entries' \in Seq(EntryRow) /\ DOMAIN entries' = DOMAIN entries
  BY <1>2, <1>3, SeqMap
<1>5. EntriesOK'
  BY <1>1, <1>2, <1>4 DEF Sorts, EntriesOK
<1>6. Grows
  BY <1>1 DEF Grows, desk, members
<1>7. LevelsOK' /\ MembersOK' /\ RanksOK' /\ QualsOK' /\ BooksOK' /\ DeskOK'
  BY <1>1, Frame DEF members
<1>. QED BY <1>1, <1>5, <1>6, <1>7, StepSorts

LEMMA SuspensionEndsSorts ==
    ASSUME Sorts, NEW s \in DOMAIN suspensions, SuspensionEnds(s)
    PROVE  Sorts'
<1>. DEFINE row == [suspensions[s] EXCEPT !.live = FALSE]
<1>1. /\ suspensions' = [suspensions EXCEPT ![s] = row]
      /\ UNCHANGED <<members, ranks, quals, entries, discharges, listed, desk, request, offered>>
  BY DEF SuspensionEnds
<1>2. suspensions \in Seq(SuspensionRow) /\ suspensions[s] \in SuspensionRow
  BY Elements DEF Sorts, EntriesOK
<1>3. row \in SuspensionRow /\ row.entry = suspensions[s].entry
  BY <1>2 DEF SuspensionRow
<1>. HIDE DEF row
<1>4. suspensions' \in Seq(SuspensionRow) /\ DOMAIN suspensions' = DOMAIN suspensions
  BY <1>1, <1>2, <1>3, SeqSet
<1>5. \A t \in DOMAIN suspensions : suspensions'[t].entry = suspensions[t].entry
  BY <1>1, <1>3
<1>6. EntriesOK'
  BY <1>1, <1>4, <1>5 DEF Sorts, EntriesOK
<1>7. Grows
  BY <1>1 DEF Grows, desk, members
<1>8. LevelsOK' /\ MembersOK' /\ RanksOK' /\ QualsOK' /\ BooksOK' /\ DeskOK'
  BY <1>1, Frame DEF members
<1>. QED BY <1>1, <1>6, <1>7, <1>8, StepSorts

\* The blacklist.
LEMMA ListedSorts ==
    ASSUME Sorts, NEW w \in Web, Listed(w)
    PROVE  Sorts'
<1>. DEFINE row == [who |-> request[w].who, live |-> TRUE]
<1>1. /\ request[w].at = "listing" /\ listed' = Append(listed, row) /\ Become(w, Idle)
      /\ UNCHANGED <<members, ranks, quals, entries, suspensions, discharges, desk, offered>>
  BY DEF Listed
<1>2. request[w].who \in People
  BY <1>1 DEF Sorts, RequestOK
<1>3. row \in ListedRow /\ listed \in Seq(ListedRow)
  BY <1>2 DEF ListedRow, Sorts, BooksOK
<1>. HIDE DEF row
<1>4. BooksOK'
  BY <1>1, <1>3, SeqAdd DEF BooksOK, Sorts
<1>5. Grows
  BY <1>1 DEF Grows, desk, members
<1>6. LevelsOK' /\ MembersOK' /\ RanksOK' /\ QualsOK' /\ EntriesOK' /\ DeskOK'
  BY <1>1, Frame DEF members
<1>. QED BY <1>1, <1>4, <1>5, <1>6, DoneSorts

LEMMA LiftSorts ==
    ASSUME Sorts, NEW x \in People, NEW b \in DOMAIN listed, LiftBlacklist(x, b) \/ BlacklistEnds(b)
    PROVE  Sorts'
<1>. DEFINE row == [listed[b] EXCEPT !.live = FALSE]
<1>1. /\ listed' = [listed EXCEPT ![b] = row]
      /\ UNCHANGED <<members, ranks, quals, entries, suspensions, discharges, desk, request, offered>>
  BY DEF LiftBlacklist, BlacklistEnds
<1>2. listed \in Seq(ListedRow) /\ listed[b] \in ListedRow
  BY Elements DEF Sorts, BooksOK
<1>3. row \in ListedRow
  BY <1>2 DEF ListedRow
<1>. HIDE DEF row
<1>4. BooksOK'
  BY <1>1, <1>2, <1>3, SeqSet DEF BooksOK, Sorts
<1>5. Grows
  BY <1>1 DEF Grows, desk, members
<1>6. LevelsOK' /\ MembersOK' /\ RanksOK' /\ QualsOK' /\ EntriesOK' /\ DeskOK'
  BY <1>1, Frame DEF members
<1>. QED BY <1>1, <1>4, <1>5, <1>6, StepSorts

\* Applications.
LEMMA AppSet ==
    ASSUME Sorts, NEW a \in DOMAIN apps, NEW row \in AppRow, apps' = [apps EXCEPT ![a] = row],
           letters' \in [1..MaxApps -> {None, "accepted", "rejected"}], UNCHANGED <<admitted, divapps>>
    PROVE  DeskOK' /\ DOMAIN apps' = DOMAIN apps
<1>1. apps \in Seq(AppRow) /\ Len(apps) <= MaxApps /\ admitted \subseteq DOMAIN apps
        /\ divapps \in Seq(DivAppRow)
  BY DEF Sorts, DeskOK
<1>2. apps' \in Seq(AppRow) /\ DOMAIN apps' = DOMAIN apps
  BY <1>1, SeqSet
<1>3. Len(apps') = Len(apps)
  BY <1>1, <1>2
<1>. QED BY <1>1, <1>2, <1>3 DEF DeskOK

LEMMA FactionAppliedSorts ==
    ASSUME Sorts, NEW w \in Web, FactionApplied(w)
    PROVE  Sorts'
<1>. DEFINE row == [who |-> request[w].who, status |-> "pending", cooling |-> FALSE]
<1>1. /\ request[w].at = "applying" /\ Become(w, Idle)
      /\ \/ apps' = apps
         \/ Len(apps) < MaxApps /\ apps' = Append(apps, row)
      /\ UNCHANGED <<members, ranks, quals, books, admitted, letters, divapps, offered>>
  BY DEF FactionApplied
<1>2. request[w].who \in People
  BY <1>1 DEF Sorts, RequestOK
<1>3. row \in AppRow
  BY <1>2 DEF AppRow
<1>. HIDE DEF row
<1>4. /\ apps \in Seq(AppRow) /\ Len(apps) <= MaxApps /\ admitted \subseteq DOMAIN apps
           /\ divapps \in Seq(DivAppRow)
      /\ letters \in [1..MaxApps -> {None, "accepted", "rejected"}] /\ MaxApps \in Nat
  BY FactionsAssumption DEF Sorts, DeskOK
<1>5. apps' \in Seq(AppRow) /\ DOMAIN apps \subseteq DOMAIN apps' /\ Len(apps') <= MaxApps
  <2>1. CASE apps' = apps
    BY <1>4, <2>1
  <2>2. CASE Len(apps) < MaxApps /\ apps' = Append(apps, row)
    <3>1. /\ apps' \in Seq(AppRow) /\ DOMAIN apps \subseteq DOMAIN apps' /\ Len(apps') = Len(apps) + 1
          /\ Len(apps) \in Nat
      BY <1>3, <1>4, <2>2, SeqAdd
    <3>. QED BY <1>4, <2>2, <3>1
  <2>. QED BY <1>1, <2>1, <2>2
<1>6. DeskOK'
  BY <1>1, <1>4, <1>5 DEF DeskOK
<1>7. Grows
  BY <1>1, <1>5 DEF Grows, members
<1>8. LevelsOK' /\ MembersOK' /\ RanksOK' /\ QualsOK' /\ EntriesOK' /\ BooksOK'
  BY <1>1, Frame DEF members, books
<1>. QED BY <1>1, <1>6, <1>7, <1>8, DoneSorts

LEMMA WithdrawSorts ==
    ASSUME Sorts, NEW x \in People, WithdrawFaction(x)
    PROVE  Sorts'
<1>1. PICK a \in DOMAIN apps : apps' = [apps EXCEPT ![a].status = "withdrawn"]
  BY DEF WithdrawFaction
<1>2. UNCHANGED <<members, ranks, quals, books, admitted, letters, divapps, request, offered>>
  BY DEF WithdrawFaction
<1>. DEFINE row == [apps[a] EXCEPT !.status = "withdrawn"]
<1>3. apps[a] \in AppRow
  BY Elements
<1>4. row \in AppRow
  BY <1>3 DEF AppRow
<1>5. apps' = [apps EXCEPT ![a] = row]
  BY <1>1
<1>6. letters' \in [1..MaxApps -> {None, "accepted", "rejected"}]
  BY <1>2 DEF Sorts, DeskOK
<1>. HIDE DEF row
<1>7. DeskOK' /\ DOMAIN apps' = DOMAIN apps
  BY <1>2, <1>4, <1>5, <1>6, AppSet
<1>8. Grows
  BY <1>2, <1>7 DEF Grows, members
<1>9. LevelsOK' /\ MembersOK' /\ RanksOK' /\ QualsOK' /\ EntriesOK' /\ BooksOK'
  BY <1>2, Frame DEF members, books
<1>. QED BY <1>2, <1>7, <1>8, <1>9, StepSorts

LEMMA DecidedSorts ==
    ASSUME Sorts, NEW w \in Web, Decided(w)
    PROVE  Sorts'
<1>. DEFINE a == request[w].ref
            status == IF request[w].then = "accept" THEN "accepted" ELSE "rejected"
            row == [apps[a] EXCEPT !.status = status, !.cooling = (status = "rejected")]
<1>1. /\ request[w].at = "finish" /\ request[w].then \in {"accept", "reject"} /\ Become(w, Idle)
      /\ UNCHANGED <<members, ranks, quals, books, admitted, divapps, offered>>
  BY DEF Decided
<1>2. a \in DOMAIN apps
  BY <1>1 DEF Sorts, RequestOK, ChangeOK
<1>3. apps[a] \in AppRow
  BY <1>2, Elements
<1>4. \/ UNCHANGED <<apps, letters>>
      \/ /\ apps' = [apps EXCEPT ![a].status = status, ![a].cooling = (status = "rejected")]
         /\ letters' = [letters EXCEPT ![a] = IF letters[a] = None THEN status ELSE letters[a]]
  BY DEF Decided
<1>5. apps' = [apps EXCEPT ![a].status = status, ![a].cooling = (status = "rejected")]
      => apps' = [apps EXCEPT ![a] = row]
  BY <1>2
<1>6. status \in {"accepted", "rejected"}
  OBVIOUS
<1>7. letters \in [1..MaxApps -> {None, "accepted", "rejected"}]
  BY DEF Sorts, DeskOK
<1>. HIDE DEF a, status
<1>8. row \in AppRow
  BY <1>3, <1>6 DEF AppRow
<1>. HIDE DEF row
<1>9. letters' \in [1..MaxApps -> {None, "accepted", "rejected"}]
  BY <1>4, <1>6, <1>7
<1>10. DeskOK' /\ DOMAIN apps' = DOMAIN apps
  <2>1. CASE UNCHANGED <<apps, letters>>
    BY <1>1, <2>1, Frame DEF desk
  <2>2. CASE apps' = [apps EXCEPT ![a] = row]
    BY <1>1, <1>2, <1>8, <1>9, <2>2, AppSet
  <2>. QED BY <1>4, <1>5, <2>1, <2>2
<1>11. Grows
  BY <1>1, <1>10 DEF Grows, members
<1>12. LevelsOK' /\ MembersOK' /\ RanksOK' /\ QualsOK' /\ EntriesOK' /\ BooksOK'
  BY <1>1, Frame DEF members, books
<1>. QED BY <1>1, <1>10, <1>11, <1>12, DoneSorts

\* Divisions.
LEMMA PostedSorts ==
    ASSUME Sorts, NEW p \in People, NEW d \in DOMAIN Divisions, NEW role \in Roles \cup {None},
             NEW leave,
           Posted(p, d, role, leave), UNCHANGED <<probations, file>>
    PROVE  MembersOK'
<1>. DEFINE row == [e \in DOMAIN Divisions |->
                       IF e = d THEN role ELSE IF e \in leave THEN None ELSE posting[p][e]]
<1>1. posting \in [People -> [DOMAIN Divisions -> Roles \cup {None}]]
  BY DEF Sorts, MembersOK
<1>2. row \in [DOMAIN Divisions -> Roles \cup {None}]
  BY <1>1
<1>3. posting' = [posting EXCEPT ![p] = row]
  BY DEF Posted
<1>. HIDE DEF row
<1>4. posting' \in [People -> [DOMAIN Divisions -> Roles \cup {None}]]
  BY <1>1, <1>2, <1>3
<1>. QED BY <1>4 DEF Sorts, MembersOK

LEMMA DivisionSetSorts ==
    ASSUME Sorts, NEW w \in Web, DivisionSet(w)
    PROVE  Sorts'
<1>. DEFINE r == request[w]
<1>1. /\ r.at = "posting" /\ Posted(r.who, r.div, r.role, r.leave) /\ Become(w, Idle)
      /\ UNCHANGED <<level, lastLevel, probations, file, ranks, quals, books, desk, offered>>
  BY DEF DivisionSet
<1>2. r.who \in People /\ r.div \in DOMAIN Divisions /\ r.role \in Roles \cup {None}
  BY <1>1 DEF Sorts, RequestOK, PostingOK
<1>. HIDE DEF r
<1>3. MembersOK'
  BY <1>1, <1>2, PostedSorts
<1>4. Grows
  BY <1>1 DEF Grows, desk
<1>5. LevelsOK' /\ RanksOK' /\ QualsOK' /\ EntriesOK' /\ BooksOK' /\ DeskOK'
  BY <1>1, Frame DEF books
<1>. QED BY <1>1, <1>3, <1>4, <1>5, DoneSorts

LEMMA DivAppSet ==
    ASSUME Sorts, NEW a \in DOMAIN divapps, NEW row \in DivAppRow,
             divapps' = [divapps EXCEPT ![a] = row],
           UNCHANGED <<apps, admitted, letters>>
    PROVE  DeskOK' /\ DOMAIN divapps' = DOMAIN divapps
<1>1. divapps \in Seq(DivAppRow)
  BY DEF Sorts, DeskOK
<1>2. divapps' \in Seq(DivAppRow) /\ DOMAIN divapps' = DOMAIN divapps
  BY <1>1, SeqSet
<1>. QED BY <1>2 DEF Sorts, DeskOK

LEMMA DivisionAcceptedSorts ==
    ASSUME Sorts, NEW w \in Web, DivisionAccepted(w)
    PROVE  Sorts'
<1>. DEFINE r == request[w]
            leave == IF Divisions[r.div].admin THEN {} ELSE DOMAIN Divisions \ AdminDivisions
            row == [divapps[r.app] EXCEPT !.status = "accepted"]
<1>1. /\ r.at = "posting" /\ r.app # 0 /\ Become(w, Idle)
      /\ posting' = posting \/ Posted(r.who, r.div, r.role, leave)
      /\ divapps' = [divapps EXCEPT ![r.app] = row]
      /\ UNCHANGED <<level, lastLevel, probations, file, ranks, quals, books, apps, admitted, letters,
           offered>>
  BY DEF DivisionAccepted
<1>2. PostingOK(r)
  BY <1>1 DEF Sorts, RequestOK
<1>3. r.who \in People /\ r.div \in DOMAIN Divisions /\ r.role \in Roles \cup {None}
        /\ r.app \in DOMAIN divapps
  BY <1>1, <1>2 DEF PostingOK
<1>4. row \in DivAppRow
  <2>1. divapps[r.app] \in DivAppRow
    BY <1>3, Elements
  <2>. QED BY <2>1 DEF DivAppRow
<1>. HIDE DEF leave, row, r
<1>5. MembersOK'
  <2>1. CASE posting' = posting
    BY <1>1, <2>1, Frame
  <2>2. CASE Posted(r.who, r.div, r.role, leave)
    BY <1>1, <1>3, <2>2, PostedSorts
  <2>. QED BY <1>1, <2>1, <2>2
<1>6. DeskOK' /\ DOMAIN divapps' = DOMAIN divapps
  BY <1>1, <1>3, <1>4, DivAppSet
<1>7. Grows
  BY <1>1, <1>6 DEF Grows
<1>8. LevelsOK' /\ RanksOK' /\ QualsOK' /\ EntriesOK' /\ BooksOK'
  BY <1>1, Frame DEF books
<1>. QED BY <1>1, <1>5, <1>6, <1>7, <1>8, DoneSorts

LEMMA DivisionAppliedSorts ==
    ASSUME Sorts, NEW w \in Web, DivisionApplied(w)
    PROVE  Sorts'
<1>. DEFINE row == [who |-> request[w].who, div |-> request[w].div, status |-> "pending",
       cooling |-> FALSE]
<1>1. /\ request[w].at = "applying" /\ request[w].div # None /\ Become(w, Idle)
      /\ divapps' = divapps \/ divapps' = Append(divapps, row)
      /\ UNCHANGED <<members, ranks, quals, books, apps, admitted, letters, offered>>
  BY DEF DivisionApplied
<1>2. request[w].who \in People /\ request[w].div \in DOMAIN Divisions
  BY <1>1 DEF Sorts, RequestOK
<1>3. row \in DivAppRow
  BY <1>2 DEF DivAppRow
<1>. HIDE DEF row
<1>4. divapps \in Seq(DivAppRow)
  BY DEF Sorts, DeskOK
<1>5. divapps' \in Seq(DivAppRow) /\ DOMAIN divapps \subseteq DOMAIN divapps'
  BY <1>1, <1>3, <1>4, SeqAdd
<1>6. DeskOK'
  BY <1>1, <1>5 DEF Sorts, DeskOK
<1>7. Grows
  BY <1>1, <1>5 DEF Grows, members
<1>8. LevelsOK' /\ MembersOK' /\ RanksOK' /\ QualsOK' /\ EntriesOK' /\ BooksOK'
  BY <1>1, Frame DEF members, books
<1>. QED BY <1>1, <1>6, <1>7, <1>8, DoneSorts

LEMMA DivisionAppSorts ==
    ASSUME Sorts, NEW x \in People, NEW a \in DOMAIN divapps, WithdrawDivisionApp(x, a)
             \/ RejectDivisionApp(x, a)
    PROVE  Sorts'
<1>1. UNCHANGED <<members, ranks, quals, books, apps, admitted, letters, request, offered>>
  BY DEF WithdrawDivisionApp, RejectDivisionApp
<1>2. divapps[a] \in DivAppRow
  BY Elements
<1>3. \E row \in DivAppRow : divapps' = [divapps EXCEPT ![a] = row]
  <2>1. CASE WithdrawDivisionApp(x, a)
    <3>. DEFINE row == [divapps[a] EXCEPT !.status = "withdrawn"]
    <3>1. divapps' = [divapps EXCEPT ![a] = row]
      BY <2>1 DEF WithdrawDivisionApp
    <3>2. row \in DivAppRow
      BY <1>2 DEF DivAppRow
    <3>. QED BY <3>1, <3>2
  <2>2. CASE RejectDivisionApp(x, a)
    <3>. DEFINE row == [divapps[a] EXCEPT !.status = "rejected", !.cooling = TRUE]
    <3>1. divapps' = [divapps EXCEPT ![a] = row]
      BY <2>2 DEF RejectDivisionApp
    <3>2. row \in DivAppRow
      BY <1>2 DEF DivAppRow
    <3>. QED BY <3>1, <3>2
  <2>. QED BY <2>1, <2>2
<1>4. DeskOK' /\ DOMAIN divapps' = DOMAIN divapps
  BY <1>1, <1>3, DivAppSet
<1>5. Grows
  BY <1>1, <1>4 DEF Grows, members
<1>6. LevelsOK' /\ MembersOK' /\ RanksOK' /\ QualsOK' /\ EntriesOK' /\ BooksOK'
  BY <1>1, Frame DEF members, books
<1>. QED BY <1>1, <1>4, <1>5, <1>6, StepSorts

LEMMA CooldownSorts ==
    ASSUME Sorts, CooldownOver
    PROVE  Sorts'
<1>1. UNCHANGED <<members, ranks, quals, books, admitted, letters, request, offered>>
  BY DEF CooldownOver
<1>2. DeskOK' /\ DOMAIN apps' = DOMAIN apps /\ DOMAIN divapps' = DOMAIN divapps
  <2>1. CASE \E a \in DOMAIN apps : apps' = [apps EXCEPT ![a].cooling = FALSE] /\ UNCHANGED divapps
    <3>1. PICK a \in DOMAIN apps : apps' = [apps EXCEPT ![a].cooling = FALSE] /\ UNCHANGED divapps
      BY <2>1
    <3>. DEFINE row == [apps[a] EXCEPT !.cooling = FALSE]
    <3>2. apps[a] \in AppRow
      BY Elements
    <3>3. row \in AppRow
      BY <3>2 DEF AppRow
    <3>4. apps' = [apps EXCEPT ![a] = row]
      BY <3>1
    <3>. HIDE DEF row
    <3>5. letters' \in [1..MaxApps -> {None, "accepted", "rejected"}]
      BY <1>1 DEF Sorts, DeskOK
    <3>. QED BY <1>1, <3>1, <3>3, <3>4, <3>5, AppSet
  <2>2. CASE \E a \in DOMAIN divapps : divapps' = [divapps EXCEPT ![a].cooling = FALSE]
               /\ UNCHANGED apps
    <3>1. PICK a \in DOMAIN divapps : divapps' = [divapps EXCEPT ![a].cooling = FALSE] /\ UNCHANGED apps
      BY <2>2
    <3>. DEFINE row == [divapps[a] EXCEPT !.cooling = FALSE]
    <3>2. divapps[a] \in DivAppRow
      BY Elements
    <3>3. row \in DivAppRow
      BY <3>2 DEF DivAppRow
    <3>4. divapps' = [divapps EXCEPT ![a] = row]
      BY <3>1
    <3>. HIDE DEF row
    <3>. QED BY <1>1, <3>1, <3>3, <3>4, DivAppSet
  <2>. QED BY <2>1, <2>2 DEF CooldownOver
<1>3. Grows
  BY <1>1, <1>2 DEF Grows, members
<1>4. LevelsOK' /\ MembersOK' /\ RanksOK' /\ QualsOK' /\ EntriesOK' /\ BooksOK'
  BY <1>1, Frame DEF members, books
<1>. QED BY <1>1, <1>2, <1>3, <1>4, StepSorts

\* Qualifications, files and rules.
LEMMA QualSorts ==
    ASSUME Sorts, NEW x \in People, NEW p \in People, NEW q \in Quals, SetQual(x, p, q)
    PROVE  Sorts'
<1>1. UNCHANGED <<members, ranks, books, desk, request, offered>>
  BY DEF SetQual
<1>2. held \in [People -> SUBSET Quals] /\ heads \in [Quals -> People \cup {None}]
  BY DEF Sorts, QualsOK
<1>3. held' \in [People -> SUBSET Quals] /\ heads' \in [Quals -> People \cup {None}]
  <2>1. CASE q \in held[p]
    BY <1>2, <2>1 DEF SetQual
  <2>2. CASE q \notin held[p]
    BY <1>2, <2>2 DEF SetQual
  <2>. QED BY <2>1, <2>2
<1>4. QualsOK'
  BY <1>3 DEF QualsOK
<1>5. Grows
  BY <1>1 DEF Grows, members, desk
<1>6. LevelsOK' /\ MembersOK' /\ RanksOK' /\ EntriesOK' /\ BooksOK' /\ DeskOK'
  BY <1>1, Frame DEF members, books
<1>. QED BY <1>1, <1>4, <1>5, <1>6, StepSorts

LEMMA HeadSetSorts ==
    ASSUME Sorts, NEW w \in Web, HeadSet(w)
    PROVE  Sorts'
<1>1. /\ request[w].at = "heading" /\ heads' = [heads EXCEPT ![request[w].qual] = request[w].who]
      /\ Become(w, Idle) /\ UNCHANGED <<members, ranks, held, books, desk, offered>>
  BY DEF HeadSet
<1>2. request[w].qual \in Quals /\ request[w].who \in People \cup {None}
  BY <1>1 DEF Sorts, RequestOK
<1>3. QualsOK'
  BY <1>1, <1>2 DEF Sorts, QualsOK
<1>4. Grows
  BY <1>1 DEF Grows, members, desk
<1>5. LevelsOK' /\ MembersOK' /\ RanksOK' /\ EntriesOK' /\ BooksOK' /\ DeskOK'
  BY <1>1, Frame DEF members, books
<1>. QED BY <1>1, <1>3, <1>4, <1>5, DoneSorts

LEMMA FileSorts ==
    ASSUME Sorts, NEW x \in People, NEW p \in People, NEW status \in {"active", "loa"},
           NEW mark \in {"present", "excused", ""}, UpdateMember(x, p, status)
             \/ SetRollCall(x, p, mark)
    PROVE  Sorts'
<1>1. UNCHANGED <<level, lastLevel, probations, posting, ranks, quals, books, desk, request, offered>>
  BY DEF UpdateMember, SetRollCall
<1>2. file \in [People -> FileRow]
  BY DEF Sorts, MembersOK
<1>3. \E row \in FileRow : file' = [file EXCEPT ![p] = row]
  <2>1. CASE UpdateMember(x, p, status)
    <3>1. file' = [file EXCEPT ![p] = [file[p] EXCEPT !.status = status]]
      BY <2>1 DEF UpdateMember
    <3>2. [file[p] EXCEPT !.status = status] \in FileRow
      BY <1>2 DEF FileRow
    <3>. QED BY <3>1, <3>2
  <2>2. CASE SetRollCall(x, p, mark)
    <3>1. file' = [file EXCEPT ![p] = [file[p] EXCEPT !.mark = mark]]
      BY <2>2 DEF SetRollCall
    <3>2. [file[p] EXCEPT !.mark = mark] \in FileRow
      BY <1>2 DEF FileRow
    <3>. QED BY <3>1, <3>2
  <2>. QED BY <2>1, <2>2
<1>4. file' \in [People -> FileRow]
  BY <1>2, <1>3
<1>5. MembersOK'
  BY <1>1, <1>4 DEF Sorts, MembersOK
<1>6. Grows
  BY <1>1 DEF Grows, desk
<1>7. LevelsOK' /\ RanksOK' /\ QualsOK' /\ EntriesOK' /\ BooksOK' /\ DeskOK'
  BY <1>1, Frame DEF books
<1>. QED BY <1>1, <1>5, <1>6, <1>7, StepSorts

LEMMA RankSorts ==
    ASSUME Sorts, NEW x \in People, NEW override, NEW l \in 1..TopLevel, NEW new \in Rules(l),
           UpdateRank(x, override, l, new)
    PROVE  Sorts'
<1>1. ranks' = [ranks EXCEPT ![l] = new] /\ UNCHANGED <<members, quals, books, desk, request, offered>>
  BY DEF UpdateRank
<1>2. new.upTo \in 0..(l - 1)
  BY DEF Rules
<1>3. RanksOK'
  BY <1>1, <1>2 DEF Sorts, RanksOK
<1>4. Grows
  BY <1>1 DEF Grows, members, desk
<1>5. LevelsOK' /\ MembersOK' /\ QualsOK' /\ EntriesOK' /\ BooksOK' /\ DeskOK'
  BY <1>1, Frame DEF members, books
<1>. QED BY <1>1, <1>3, <1>4, <1>5, StepSorts

LEMMA CommitsSorts ==
    ASSUME Sorts, NEW w \in Web, Commits(w)
    PROVE  Sorts'
BY CommitLevelSorts, ConfirmedSorts, EndedSorts, IssuedSorts, DischargeRecordedSorts, ListedSorts,
   FactionAppliedSorts, DecidedSorts, DivisionSetSorts, DivisionAppliedSorts, DivisionAcceptedSorts,
   HeadSetSorts DEF Commits

LEMMA AtOnceSorts ==
    ASSUME Sorts, NEW x \in People, AtOnce(x)
    PROVE  Sorts'
<1>1. CASE \E i \in DOMAIN probations : \E item \in Items, result \in {"pass", "fail", "none"} :
               SetTraining(x, i, item, result)
  BY <1>1, TrainingSorts
<1>2. CASE \E i \in DOMAIN probations : \E fto \in People \cup {None} : UpdateProbation(x, i, fto)
  BY <1>2, TrainingSorts
<1>3. CASE \E e \in DOMAIN entries : CorrectDiscipline(x, e)
  BY <1>3, CorrectSorts
<1>4. CASE \E b \in DOMAIN listed : LiftBlacklist(x, b)
  BY <1>4, LiftSorts
<1>5. CASE WithdrawFaction(x)
  BY <1>5, WithdrawSorts
<1>6. CASE \E a \in DOMAIN divapps : WithdrawDivisionApp(x, a) \/ RejectDivisionApp(x, a)
  BY <1>6, DivisionAppSorts
<1>7. CASE \E p \in People, q \in Quals : SetQual(x, p, q)
  BY <1>7, QualSorts
<1>8. CASE \E p \in People, status \in {"active", "loa"} : UpdateMember(x, p, status)
  BY <1>8, FileSorts
<1>9. CASE \E p \in People, mark \in {"present", "excused", ""} : SetRollCall(x, p, mark)
  BY <1>9, FileSorts
<1>10. CASE \E l \in 1..TopLevel : \E new \in Rules(l) : UpdateRank(x, ~Cabinet(x) /\ x \in Configure,
              l,
              new)
  BY <1>10, RankSorts
<1>. QED BY <1>1, <1>2, <1>3, <1>4, <1>5, <1>6, <1>7, <1>8, <1>9, <1>10 DEF AtOnce

LEMMA TimeSorts ==
    ASSUME Sorts, TimePasses
    PROVE  Sorts'
<1>1. CASE \E e \in DOMAIN entries : EntryExpires(e)
  BY <1>1, ExpireSorts
<1>2. CASE \E s \in DOMAIN suspensions : SuspensionEnds(s)
  BY <1>2, SuspensionEndsSorts
<1>3. CASE \E b \in DOMAIN listed : BlacklistEnds(b)
  <2>1. PICK b \in DOMAIN listed : BlacklistEnds(b)
    BY <1>3
  <2>2. listed[b].who \in People
    BY Elements DEF ListedRow
  <2>. QED BY <2>1, <2>2, LiftSorts
<1>4. CASE CooldownOver
  BY <1>4, CooldownSorts
<1>. QED BY <1>1, <1>2, <1>3, <1>4 DEF TimePasses

LEMMA NextSorts == Sorts /\ [Next]_vars => Sorts'
<1>. SUFFICES ASSUME Sorts, [Next]_vars PROVE Sorts'
  OBVIOUS
<1>1. CASE Next
  BY <1>1, StepsAre, AskedSorts, CommitsSorts, AtOnceSorts, TimeSorts
<1>2. CASE UNCHANGED vars
  <2>1. UNCHANGED <<tables, request, offered>>
    BY <1>2 DEF vars
  <2>2. Grows
    BY <2>1 DEF Grows, tables, members, desk
  <2>3. LevelsOK' /\ MembersOK' /\ RanksOK' /\ QualsOK' /\ EntriesOK' /\ BooksOK' /\ DeskOK'
    BY <2>1, Frame DEF tables, members, books
  <2>. QED BY <2>1, <2>2, <2>3, StepSorts
<1>. QED BY <1>1, <1>2

\* Rows are of their kind and requests carry what they need, whoever does what when.
THEOREM TypeCorrect == Spec => []TypeOK
<1>1. Spec => []Sorts
  BY InitSorts, NextSorts, PTL DEF Spec
<1>. QED BY <1>1, SortsMeansTypes, PTL

-----------------------------------------------------------------------------
(* Whose rows a request holds, and what it has checked while it holds them.  *)

HeldBy(r) == IF r.at = "changing" THEN {r.by, r.who} ELSE IF r.at = "issuing" THEN {r.who} ELSE {}
LocksApart == \A w, v \in Web : w # v => HeldBy(request[w]) \cap HeldBy(request[v]) = {}
ChecksHold == \A w \in Web : request[w].at = "changing" => Checked(request[w])
LocksHold == LocksApart /\ ChecksHold

LEMMA LockedIsHeld ==
    ASSUME NEW p
    PROVE  Locked(p) <=> \E w \in Web : p \in HeldBy(request[w])
BY DEF Locked, HeldBy

\* A step after which no request holds more than before.
LetsGo == \A v \in Web : request'[v] = request[v] \/ HeldBy(request'[v]) = {}

LEMMA LetsGoApart ==
    ASSUME LocksApart, LetsGo
    PROVE  LocksApart'
BY DEF LocksApart, LetsGo

LEMMA IdleLetsGo ==
    ASSUME Sorts, NEW w \in Web, Become(w, Idle)
    PROVE  LetsGo
<1>1. request'[w] = Idle /\ OthersWait(w)
  BY Becomes DEF Sorts
<1>2. HeldBy(Idle) = {}
  BY DEF HeldBy, Idle
<1>. QED BY <1>1, <1>2 DEF OthersWait, LetsGo

\* Checks that hold on, as nobody changes what they rest on.
LEMMA StaysChecked ==
    ASSUME NEW v \in Web, request'[v] = request[v], Checked(request[v]),
           level'[request[v].by] = level[request[v].by], level'[request[v].who] = level[request[v].who],
           Blacklisted(request[v].who)' => Blacklisted(request[v].who)
    PROVE  Checked(request[v])'
BY DEF Checked

\* Only a commit of setLevel changes a level, and only three steps the blacklist.
LEMMA LevelSteps ==
    ASSUME Sorts, Next
    PROVE  \/ \E w \in Web : Asked(w) \/ CommitLevel(w) \/ Issued(w) \/ Listed(w)
           \/ /\ UNCHANGED <<level, request>>
              /\ \E b \in DOMAIN listed : listed' = [listed EXCEPT ![b].live = FALSE]
           \/ UNCHANGED <<level, listed>> /\ (request' = request \/ \E w \in Web : Become(w, Idle))
<1>1. ASSUME NEW w \in Web, Commits(w)
      PROVE  \/ CommitLevel(w) \/ Issued(w) \/ Listed(w)
             \/ UNCHANGED <<level, listed>> /\ Become(w, Idle)
  <2>1. CASE Confirmed(w) \/ Ended(w) \/ DischargeRecorded(w)
    BY <2>1 DEF Confirmed, Ended, DischargeRecorded, members, books
  <2>2. CASE FactionApplied(w) \/ Decided(w) \/ HeadSet(w)
    BY <2>2 DEF FactionApplied, Decided, HeadSet, members, books
  <2>3. CASE DivisionSet(w) \/ DivisionApplied(w) \/ DivisionAccepted(w)
    BY <2>3 DEF DivisionSet, DivisionApplied, DivisionAccepted, members, books
  <2>. QED BY <1>1, <2>1, <2>2, <2>3 DEF Commits
<1>2. ASSUME NEW x \in People, AtOnce(x)
      PROVE  \/ /\ UNCHANGED <<level, request>>
                /\ \E b \in DOMAIN listed : listed' = [listed EXCEPT ![b].live = FALSE]
             \/ UNCHANGED <<level, listed, request>>
  <2>1. ASSUME NEW i \in DOMAIN probations, NEW item, NEW result, NEW fto,
               SetTraining(x, i, item, result) \/ UpdateProbation(x, i, fto)
        PROVE  UNCHANGED <<level, listed, request>>
    BY <2>1 DEF SetTraining, UpdateProbation, books
  <2>2. ASSUME NEW e \in DOMAIN entries, CorrectDiscipline(x, e) PROVE UNCHANGED <<level, listed,
                 request>>
    BY <2>2 DEF CorrectDiscipline, members
  <2>3. ASSUME NEW b \in DOMAIN listed, LiftBlacklist(x, b)
        PROVE  UNCHANGED <<level, request>> /\ listed' = [listed EXCEPT ![b].live = FALSE]
    BY <2>3 DEF LiftBlacklist, members
  <2>4. CASE WithdrawFaction(x)
    BY <2>4 DEF WithdrawFaction, members, books
  <2>5. ASSUME NEW a \in DOMAIN divapps, WithdrawDivisionApp(x, a) \/ RejectDivisionApp(x, a)
        PROVE  UNCHANGED <<level, listed, request>>
    BY <2>5 DEF WithdrawDivisionApp, RejectDivisionApp, members, books
  <2>6. ASSUME NEW p \in People, NEW q \in Quals, SetQual(x, p, q) PROVE UNCHANGED <<level, listed,
                 request>>
    BY <2>6 DEF SetQual, members, books
  <2>7. ASSUME NEW p \in People, NEW status, NEW mark, UpdateMember(x, p, status)
                 \/ SetRollCall(x, p, mark)
        PROVE  UNCHANGED <<level, listed, request>>
    BY <2>7 DEF UpdateMember, SetRollCall, books
  <2>8. ASSUME NEW l \in 1..TopLevel, NEW override, NEW new \in Rules(l),
                 UpdateRank(x, override, l, new)
        PROVE  UNCHANGED <<level, listed, request>>
    BY <2>8 DEF UpdateRank, members, books
  <2>. QED BY <1>2, <2>1, <2>2, <2>3, <2>4, <2>5, <2>6, <2>7, <2>8 DEF AtOnce
<1>3. ASSUME TimePasses
      PROVE  \/ /\ UNCHANGED <<level, request>>
                /\ \E b \in DOMAIN listed : listed' = [listed EXCEPT ![b].live = FALSE]
             \/ UNCHANGED <<level, listed, request>>
  BY <1>3 DEF TimePasses, EntryExpires, SuspensionEnds, BlacklistEnds, CooldownOver, members, books
<1>. QED BY <1>1, <1>2, <1>3, StepsAre

\* A row the blacklist gains is about nobody whose row another request holds.
LEMMA ListedElse ==
    ASSUME Sorts, NEW p, NEW q \in People, listed' = listed
             \/ listed' = Append(listed, [who |-> q, live |-> TRUE]),
           q # p, \E b \in DOMAIN listed' : listed'[b].who = p /\ listed'[b].live
    PROVE  Blacklisted(p)
<1>. DEFINE row == [who |-> q, live |-> TRUE]
<1>1. listed \in Seq(ListedRow) /\ row \in ListedRow /\ row.who = q
  BY DEF Sorts, BooksOK, ListedRow
<1>2. PICK b \in DOMAIN listed' : listed'[b].who = p /\ listed'[b].live
  OBVIOUS
<1>3. listed' = listed \/ listed' = Append(listed, row)
  OBVIOUS
<1>. HIDE DEF row
<1>4. b \in DOMAIN listed /\ listed'[b] = listed[b]
  <2>1. CASE listed' = Append(listed, row)
    <3>1. /\ listed'[Len(listed) + 1] = row /\ \A i \in DOMAIN listed : listed'[i] = listed[i]
          /\ DOMAIN listed' = DOMAIN listed \cup {Len(listed) + 1}
      BY <1>1, <2>1, SeqAdd
    <3>. QED BY <1>1, <1>2, <3>1
  <2>. QED BY <1>2, <1>3, <2>1
<1>. QED BY <1>2, <1>4 DEF Blacklisted

LEMMA LocksStep == Sorts /\ LocksHold /\ [Next]_vars => LocksHold'
<1>. SUFFICES ASSUME Sorts, LocksHold, [Next]_vars PROVE LocksHold'
  OBVIOUS
<1>. USE DEF LocksHold
<1>1. ASSUME NEW w \in Web, Asked(w) PROVE LocksHold'
  <2>. DEFINE r == request'[w]
  <2>1. /\ OthersWait(w) /\ UNCHANGED <<level, listed>>
        /\ r.at = "changing" => Checked(r) /\ ~Locked(r.by) /\ ~Locked(r.who)
        /\ r.at = "issuing" => ~Locked(r.who)
    BY <1>1 DEF Asked, tables, members, books
  <2>2. ASSUME NEW v \in Web, v # w PROVE HeldBy(request[v]) \cap HeldBy(r) = {}
    <3>1. ASSUME NEW p \in HeldBy(r) PROVE ~Locked(p)
      BY <2>1, <3>1 DEF HeldBy
    <3>. HIDE DEF r
    <3>2. ASSUME NEW p \in HeldBy(r) PROVE p \notin HeldBy(request[v])
      BY <3>1, LockedIsHeld
    <3>. QED BY <3>2
  <2>3. LocksApart'
    <3>1. ASSUME NEW u \in Web, NEW v \in Web,
                   u # v PROVE HeldBy(request'[u]) \cap HeldBy(request'[v]) = {}
      <4>1. CASE u = w
        BY <2>1, <2>2, <3>1, <4>1 DEF OthersWait
      <4>2. CASE v = w
        BY <2>1, <2>2, <3>1, <4>2 DEF OthersWait
      <4>3. CASE u # w /\ v # w
        BY <2>1, <3>1, <4>3 DEF OthersWait, LocksApart
      <4>. QED BY <4>1, <4>2, <4>3
    <3>. QED BY <3>1 DEF LocksApart
  <2>4. ASSUME NEW v \in Web, request'[v].at = "changing" PROVE Checked(request[v])'
    <3>1. Checked(request'[v])
      BY <2>1, <2>4 DEF OthersWait, ChecksHold
    <3>. QED BY <2>1, <3>1 DEF Checked, Blacklisted
  <2>. QED BY <2>3, <2>4 DEF ChecksHold
<1>2. ASSUME NEW w \in Web, CommitLevel(w) PROVE LocksHold'
  <2>. DEFINE r == request[w]
  <2>1. r.at = "changing" /\ level' = [level EXCEPT ![r.who] = r.to] /\ listed' = listed
    BY <1>2 DEF CommitLevel, books
  <2>2. ChangeOK(r) /\ r.who \in HeldBy(r)
    BY <2>1 DEF Sorts, RequestOK, HeldBy
  <2>3. OthersWait(w) /\ HeldBy(request'[w]) = {}
    <3>. DEFINE new == IF r.then = "nothing" THEN Idle ELSE [r EXCEPT !.at = "finish"]
    <3>1. Become(w, new)
      BY <1>2 DEF CommitLevel
    <3>2. HeldBy(new) = {}
      <4>1. [r EXCEPT !.at = "finish"].at = "finish"
        BY <2>2, ChangeMoves
      <4>. QED BY <4>1, IdleIsFine DEF HeldBy
    <3>. HIDE DEF new
    <3>. QED BY <3>1, <3>2, Becomes DEF Sorts
  <2>4. LocksApart'
    BY <2>3, LetsGoApart DEF LetsGo, OthersWait
  <2>5. ASSUME NEW v \in Web, request'[v].at = "changing" PROVE Checked(request[v])'
    <3>1. v # w
      <4>1. ASSUME v = w PROVE FALSE
        BY <2>2, <2>3, <2>5, <4>1 DEF HeldBy
      <4>. QED BY <4>1
    <3>2. request'[v] = request[v] /\ Checked(request[v])
      BY <2>3, <2>5, <3>1 DEF OthersWait, ChecksHold
    <3>3. r.who \notin {request[v].by, request[v].who}
      BY <2>2, <2>5, <3>1, <3>2 DEF LocksApart, HeldBy
    <3>4. level'[request[v].by] = level[request[v].by] /\ level'[request[v].who] = level[request[v].who]
      BY <2>1, <3>3 DEF Sorts, LevelsOK
    <3>5. Blacklisted(request[v].who)' => Blacklisted(request[v].who)
      BY <2>1, <3>2 DEF Blacklisted
    <3>. QED BY <3>2, <3>4, <3>5, StaysChecked
  <2>. QED BY <2>4, <2>5 DEF ChecksHold
<1>3. ASSUME NEW w \in Web, Issued(w) \/ Listed(w) PROVE LocksHold'
  <2>. DEFINE q == request[w].who
  <2>1. /\ q \in People /\ level' = level
        /\ listed' = listed \/ listed' = Append(listed, [who |-> q, live |-> TRUE])
    <3>1. CASE Issued(w)
      BY <3>1, IssuedWrites DEF members
    <3>2. CASE Listed(w)
      <4>1. q \in People
        BY <3>2 DEF Listed, Sorts, RequestOK
      <4>. QED BY <3>2, <4>1 DEF Listed, members
    <3>. QED BY <1>3, <3>1, <3>2
  <2>2. OthersWait(w) /\ HeldBy(request'[w]) = {}
    <3>1. CASE Issued(w)
      <4>1. PICK new : Become(w, new) /\ (new = Idle \/ (ChangeOK(new) /\ new.at = "change"))
        BY <3>1, IssuedWrites
      <4>2. HeldBy(new) = {}
        BY <4>1, IdleIsFine DEF HeldBy
      <4>. QED BY <4>1, <4>2, Becomes DEF Sorts
    <3>2. CASE Listed(w)
      <4>1. Become(w, Idle)
        BY <3>2 DEF Listed
      <4>. QED BY <4>1, Becomes, IdleIsFine DEF Sorts, HeldBy
    <3>. QED BY <1>3, <3>1, <3>2
  <2>3. ASSUME NEW v \in Web \ {w} PROVE q \notin HeldBy(request[v])
    <3>1. CASE Issued(w)
      <4>1. request[w].at = "issuing"
        BY <3>1 DEF Issued
      <4>. QED BY <4>1 DEF LocksApart, HeldBy
    <3>2. CASE Listed(w)
      BY <3>2, LockedIsHeld DEF Listed, MayRefer
    <3>. QED BY <1>3, <3>1, <3>2
  <2>4. LocksApart'
    BY <2>2, LetsGoApart DEF LetsGo, OthersWait
  <2>5. ASSUME NEW v \in Web, request'[v].at = "changing" PROVE Checked(request[v])'
    <3>1. v # w
      <4>1. ASSUME v = w PROVE FALSE
        BY <2>2, <2>5, <4>1 DEF HeldBy
      <4>. QED BY <4>1
    <3>2. request'[v] = request[v] /\ Checked(request[v])
      BY <2>2, <2>5, <3>1 DEF OthersWait, ChecksHold
    <3>3. q # request[v].who
      BY <2>3, <2>5, <3>1, <3>2 DEF HeldBy
    <3>. HIDE DEF q
    <3>4. Blacklisted(request[v].who)' => Blacklisted(request[v].who)
      <4>1. SUFFICES ASSUME Blacklisted(request[v].who)' PROVE Blacklisted(request[v].who)
        OBVIOUS
      <4>2. \E b \in DOMAIN listed' : listed'[b].who = request[v].who /\ listed'[b].live
        BY <3>2, <4>1 DEF Blacklisted
      <4>. QED BY <2>1, <3>3, <4>2, ListedElse
    <3>. QED BY <2>1, <3>2, <3>4, StaysChecked
  <2>. QED BY <2>4, <2>5 DEF ChecksHold
<1>4. ASSUME level' = level, LetsGo, \A p : Blacklisted(p)' => Blacklisted(p)
      PROVE  LocksHold'
  <2>1. LocksApart'
    BY <1>4, LetsGoApart
  <2>2. ASSUME NEW v \in Web, request'[v].at = "changing" PROVE Checked(request[v])'
    <3>1. request'[v] = request[v]
      BY <1>4, <2>2 DEF LetsGo, HeldBy
    <3>. QED BY <1>4, <2>2, <3>1, StaysChecked DEF ChecksHold
  <2>. QED BY <2>1, <2>2 DEF ChecksHold
<1>5. ASSUME UNCHANGED <<level, request>>, NEW b \in DOMAIN listed,
               listed' = [listed EXCEPT ![b].live = FALSE]
      PROVE  LocksHold'
  <2>1. listed[b] \in ListedRow
    BY Elements
  <2>2. ASSUME NEW i \in DOMAIN listed PROVE listed'[i].who = listed[i].who
                 /\ (listed'[i].live => listed[i].live)
    <3>1. listed[i] \in ListedRow
      BY Elements
    <3>. QED BY <1>5, <3>1 DEF ListedRow
  <2>3. \A p : Blacklisted(p)' => Blacklisted(p)
    BY <1>5, <2>2 DEF Blacklisted
  <2>. QED BY <1>4, <1>5, <2>3 DEF LetsGo
<1>6. ASSUME UNCHANGED <<level, listed>>, request' = request \/ \E w \in Web : Become(w, Idle)
      PROVE  LocksHold'
  <2>1. LetsGo
    BY <1>6, IdleLetsGo DEF LetsGo
  <2>2. \A p : Blacklisted(p)' => Blacklisted(p)
    BY <1>6 DEF Blacklisted
  <2>. QED BY <1>4, <1>6, <2>1, <2>2
<1>7. CASE Next
  BY <1>1, <1>2, <1>3, <1>5, <1>6, <1>7, LevelSteps
<1>8. CASE UNCHANGED vars
  BY <1>6, <1>8 DEF vars, tables, members, books
<1>. QED BY <1>7, <1>8

LEMMA SortsHold == Spec => []Sorts
BY InitSorts, NextSorts, PTL DEF Spec

LEMMA LocksAlwaysHold == Spec => []LocksHold
<1>1. Init => LocksHold
  <2>1. ASSUME Init PROVE LocksHold
    <3>1. \A w \in Web : request[w] = Idle
      BY <2>1 DEF Init
    <3>. QED BY <3>1, IdleIsFine DEF LocksHold, LocksApart, ChecksHold, HeldBy
  <2>. QED BY <2>1
<1>2. Sorts /\ LocksHold /\ [Next]_vars => LocksHold'
  BY LocksStep
<1>. QED BY <1>1, <1>2, SortsHold, PTL DEF Spec

\* What a change of level finds when it commits.
LEMMA LevelChanges ==
    ASSUME Sorts, LocksHold, [Next]_vars, NEW p \in People, level'[p] # level[p]
    PROVE  \E w \in Web :
             /\ request[w].at = "changing" /\ request[w].who = p /\ request[w].by # p
             /\ Checked(request[w]) /\ level'[p] = request[w].to
<1>1. Next
  BY DEF vars, tables, members
<1>2. \E w \in Web : CommitLevel(w)
  <2>1. ASSUME NEW w \in Web, Asked(w) \/ Issued(w) \/ Listed(w) PROVE level' = level
    BY <2>1 DEF Asked, Issued, Listed, tables, members
  <2>. QED BY <1>1, <2>1, LevelSteps
<1>3. PICK w \in Web : CommitLevel(w)
  BY <1>2
<1>4. request[w].at = "changing" /\ level' = [level EXCEPT ![request[w].who] = request[w].to]
  BY <1>3 DEF CommitLevel
<1>5. p = request[w].who /\ level'[p] = request[w].to
  BY <1>4 DEF Sorts, LevelsOK
<1>. QED BY <1>4, <1>5 DEF LocksHold, ChecksHold, Checked

\* A level is changed only from above it, or by staff override, and never by the player:
\* what setLevel checked still holds when it commits.
THEOREM ChangedFromAbove == Spec => OnlyFromAbove
<1>. DEFINE Above == \A p \in People : level'[p] # level[p] =>
          \E w \in Web :
             /\ request[w].at = "changing" /\ request[w].who = p /\ request[w].by # p
             /\ \/ request[w].override
                \/ (level[p] < level[request[w].by] /\ level'[p] < level[request[w].by])
<1>1. ASSUME Sorts, LocksHold, [Next]_vars PROVE Above
  <2>1. SUFFICES ASSUME NEW p \in People, level'[p] # level[p]
                 PROVE  \E w \in Web :
                           /\ request[w].at = "changing" /\ request[w].who = p /\ request[w].by # p
                           /\ \/ request[w].override
                              \/ (level[p] < level[request[w].by] /\ level'[p] < level[request[w].by])
    OBVIOUS
  <2>2. PICK w \in Web : /\ request[w].at = "changing" /\ request[w].who = p /\ request[w].by # p
                         /\ Checked(request[w]) /\ level'[p] = request[w].to
    BY <1>1, <2>1, LevelChanges
  <2>. QED BY <2>2 DEF Checked
<1>. QED BY <1>1, SortsHold, LocksAlwaysHold, PTL DEF Spec, OnlyFromAbove

\* Nobody on the blacklist comes in, but by staff override.
THEOREM BlacklistKeepsOut == Spec => BlacklistedStayOut
<1>. DEFINE Out == \A p \in People : level[p] = 0 /\ level'[p] > 0 =>
          ~Blacklisted(p) \/ \E w \in Web : request[w].at = "changing" /\ request[w].override
<1>1. ASSUME Sorts, LocksHold, [Next]_vars PROVE Out
  <2>1. SUFFICES ASSUME NEW p \in People, level[p] = 0 /\ level'[p] > 0
                 PROVE  ~Blacklisted(p) \/ \E w \in Web : request[w].at = "changing"
                          /\ request[w].override
    OBVIOUS
  <2>2. PICK w \in Web : request[w].at = "changing" /\ request[w].who = p /\ Checked(request[w])
    BY <1>1, <2>1, LevelChanges
  <2>. QED BY <2>1, <2>2 DEF Checked
<1>. QED BY <1>1, SortsHold, LocksAlwaysHold, PTL DEF Spec, BlacklistedStayOut

-----------------------------------------------------------------------------
(* Recruits on probation.                                                    *)

LEMMA ProbationSteps ==
    ASSUME Sorts, [Next]_vars
    PROVE  \/ \E w \in Web : CommitLevel(w) \/ Confirmed(w) \/ Ended(w)
           \/ /\ level' = level
              /\ \E i \in DOMAIN probations : \E row \in ProbationRow :
                    /\ probations' = [probations EXCEPT ![i] = row]
                    /\ row.who = probations[i].who /\ row.status = probations[i].status
           \/ UNCHANGED <<level, probations>>
<1>1. ASSUME NEW w \in Web, Commits(w)
      PROVE  CommitLevel(w) \/ Confirmed(w) \/ Ended(w) \/ UNCHANGED <<level, probations>>
  <2>1. CASE Issued(w) \/ DischargeRecorded(w) \/ Listed(w)
    BY <2>1 DEF Issued, DischargeRecorded, Listed, members
  <2>2. CASE FactionApplied(w) \/ Decided(w) \/ HeadSet(w)
    BY <2>2 DEF FactionApplied, Decided, HeadSet, members
  <2>3. CASE DivisionSet(w) \/ DivisionApplied(w) \/ DivisionAccepted(w)
    BY <2>3 DEF DivisionSet, DivisionApplied, DivisionAccepted, members
  <2>. QED BY <1>1, <2>1, <2>2, <2>3 DEF Commits
<1>2. ASSUME NEW x \in People, AtOnce(x)
      PROVE  \/ /\ level' = level
                /\ \E i \in DOMAIN probations : \E row \in ProbationRow :
                      /\ probations' = [probations EXCEPT ![i] = row]
                      /\ row.who = probations[i].who /\ row.status = probations[i].status
             \/ UNCHANGED <<level, probations>>
  <2>1. ASSUME NEW i \in DOMAIN probations,
               \/ \E item \in Items,
                    result \in {"pass", "fail", "none"} : SetTraining(x, i, item, result)
               \/ \E fto \in People \cup {None} : UpdateProbation(x, i, fto)
        PROVE  /\ level' = level
               /\ \E row \in ProbationRow : /\ probations' = [probations EXCEPT ![i] = row]
                                           /\ row.who = probations[i].who
                                                /\ row.status = probations[i].status
    BY <2>1, TrainingWrites
  <2>2. ASSUME NEW e \in DOMAIN entries, CorrectDiscipline(x, e) PROVE UNCHANGED <<level, probations>>
    BY <2>2 DEF CorrectDiscipline, members
  <2>3. ASSUME NEW b \in DOMAIN listed, LiftBlacklist(x, b) PROVE UNCHANGED <<level, probations>>
    BY <2>3 DEF LiftBlacklist, members
  <2>4. CASE WithdrawFaction(x)
    BY <2>4 DEF WithdrawFaction, members
  <2>5. ASSUME NEW a \in DOMAIN divapps, WithdrawDivisionApp(x, a) \/ RejectDivisionApp(x, a)
        PROVE  UNCHANGED <<level, probations>>
    BY <2>5 DEF WithdrawDivisionApp, RejectDivisionApp, members
  <2>6. ASSUME NEW p \in People, NEW q \in Quals, SetQual(x, p, q) PROVE UNCHANGED <<level, probations>>
    BY <2>6 DEF SetQual, members
  <2>7. ASSUME NEW p \in People, NEW status, NEW mark, UpdateMember(x, p, status)
                 \/ SetRollCall(x, p, mark)
        PROVE  UNCHANGED <<level, probations>>
    BY <2>7 DEF UpdateMember, SetRollCall
  <2>8. ASSUME NEW l \in 1..TopLevel, NEW override, NEW new \in Rules(l),
                 UpdateRank(x, override, l, new)
        PROVE  UNCHANGED <<level, probations>>
    BY <2>8 DEF UpdateRank, members
  <2>. QED BY <1>2, <2>1, <2>2, <2>3, <2>4, <2>5, <2>6, <2>7, <2>8 DEF AtOnce
<1>3. ASSUME TimePasses PROVE UNCHANGED <<level, probations>>
  BY <1>3 DEF TimePasses, EntryExpires, SuspensionEnds, BlacklistEnds, CooldownOver, members
<1>4. ASSUME NEW w \in Web, Asked(w) PROVE UNCHANGED <<level, probations>>
  BY <1>4 DEF Asked, tables, members
<1>5. CASE Next
  BY <1>1, <1>2, <1>3, <1>4, <1>5, StepsAre
<1>6. CASE UNCHANGED vars
  BY <1>6 DEF vars, tables, members
<1>. QED BY <1>5, <1>6

LEMMA TraineesStep ==
    ASSUME Sorts, LocksHold, TraineesAreMembers, [Next]_vars
    PROVE  TraineesAreMembers'
<1>1. probations \in Seq(ProbationRow) /\ \A i \in DOMAIN probations : probations[i] \in ProbationRow
  BY Elements DEF Sorts, MembersOK
<1>2. ASSUME level' = level, DOMAIN probations' = DOMAIN probations,
             \A i \in DOMAIN probations : /\ probations'[i].who = probations[i].who
                                          /\ probations'[i].status = "active"
                                               => probations[i].status = "active"
      PROVE  TraineesAreMembers'
  BY <1>2 DEF TraineesAreMembers
<1>3. ASSUME level' = level, NEW i \in DOMAIN probations, NEW row, row.who = probations[i].who,
             row.status = "active" => probations[i].status = "active",
             probations' = [probations EXCEPT ![i] = row]
      PROVE  TraineesAreMembers'
  BY <1>2, <1>3
<1>4. ASSUME NEW w \in Web, Confirmed(w) \/ Ended(w) PROVE TraineesAreMembers'
  <2>. DEFINE i == request[w].ref
  <2>1. i \in DOMAIN probations
    BY <1>4 DEF Confirmed, Ended, Sorts, RequestOK, ChangeOK
  <2>2. level' = level
    BY <1>4 DEF Confirmed, Ended
  <2>3. probations[i] \in ProbationRow
    BY <1>1, <2>1
  <2>4. CASE Confirmed(w)
    <3>. DEFINE row == [probations[i] EXCEPT !.status =
           IF probations[i].status = "active" THEN "confirmed"
                                                       ELSE probations[i].status]
    <3>1. probations' = [probations EXCEPT ![i] = row]
      BY <2>4 DEF Confirmed
    <3>2. row.who = probations[i].who /\ row.status # "active"
      BY <2>3 DEF ProbationRow
    <3>. HIDE DEF row, i
    <3>. QED BY <1>3, <2>1, <2>2, <3>1, <3>2
  <2>5. CASE Ended(w)
    <3>. DEFINE row == [probations[i] EXCEPT !.status = "ended"]
    <3>1. probations' = [probations EXCEPT ![i] = row]
      BY <2>5 DEF Ended
    <3>2. row.who = probations[i].who /\ row.status # "active"
      BY <2>3 DEF ProbationRow
    <3>. HIDE DEF row, i
    <3>. QED BY <1>3, <2>1, <2>2, <3>1, <3>2
  <2>. QED BY <1>4, <2>4, <2>5
<1>5. ASSUME NEW w \in Web, CommitLevel(w) PROVE TraineesAreMembers'
  <2>. DEFINE p == request[w].who  to == request[w].to
  <2>1. /\ request[w].at = "changing" /\ AfterLevelChange(p, to)
        /\ level' = [level EXCEPT ![p] = to]
    BY <1>5 DEF CommitLevel
  <2>2. p \in People /\ to \in 0..TopLevel /\ level[p] # to
    BY <2>1 DEF Sorts, RequestOK, ChangeOK, LocksHold, ChecksHold, Checked
  <2>. HIDE DEF p, to
  <2>3. level[p] \in Nat /\ to \in Nat
    BY <2>2, Levels, FactionsAssumption
  <2>4. level'[p] = to /\ \A q \in People : q # p => level'[q] = level[q]
    BY <2>1, <2>2 DEF Sorts, LevelsOK
  <2>5. \A i \in DOMAIN probations : probations[i].who \in People
    BY <1>1 DEF ProbationRow
  <2>6. CASE level[p] = 0
    <3>. DEFINE row == [who |-> p, status |-> "active", fto |-> None,
           sheet |-> [i \in Items |-> "none"]]
    <3>1. row \in ProbationRow /\ row.who = p
      BY <2>2 DEF ProbationRow
    <3>2. probations' = probations \/ probations' = Append(probations, row)
      BY <2>1, <2>3, <2>6 DEF AfterLevelChange
    <3>. HIDE DEF row
    <3>3. to > 0
      BY <2>2, <2>3, <2>6
    <3>4. ASSUME NEW i \in DOMAIN probations', probations'[i].status = "active"
          PROVE  level'[probations'[i].who] > 0
      <4>1. (i \in DOMAIN probations /\ probations'[i] = probations[i]) \/ probations'[i] = row
        <5>1. CASE probations' = Append(probations, row)
          <6>1. /\ probations'[Len(probations) + 1] = row
                /\ \A j \in DOMAIN probations : probations'[j] = probations[j]
                /\ DOMAIN probations' = DOMAIN probations \cup {Len(probations) + 1}
            BY <1>1, <3>1, <5>1, SeqAdd
          <6>. QED BY <3>4, <6>1
        <5>. QED BY <3>2, <3>4, <5>1
      <4>2. CASE i \in DOMAIN probations /\ probations'[i] = probations[i]
        <5>1. level[probations[i].who] > 0
          BY <3>4, <4>2 DEF TraineesAreMembers
        <5>2. probations[i].who # p
          BY <2>6, <5>1
        <5>. QED BY <2>4, <2>5, <4>2, <5>1, <5>2
      <4>3. CASE probations'[i] = row
        BY <2>4, <3>1, <3>3, <4>3
      <4>. QED BY <4>1, <4>2, <4>3
    <3>. QED BY <3>4 DEF TraineesAreMembers
  <2>7. CASE level[p] > 0 /\ to = 0
    <3>1. probations' = WithoutProbation(p)
      BY <2>1, <2>7 DEF AfterLevelChange
    <3>2. DOMAIN probations' = DOMAIN probations
      BY <3>1 DEF WithoutProbation
    <3>3. ASSUME NEW i \in DOMAIN probations, probations'[i].status = "active"
          PROVE  level'[probations'[i].who] > 0
      <4>1. [probations[i] EXCEPT !.status = "ended"].status = "ended"
        BY <1>1 DEF ProbationRow
      <4>2. i \notin ActiveProbation(p) /\ probations'[i] = probations[i]
        BY <3>1, <3>3, <4>1 DEF WithoutProbation
      <4>3. probations[i].who # p /\ level[probations[i].who] > 0
        BY <3>3, <4>2 DEF ActiveProbation, TraineesAreMembers
      <4>. QED BY <2>4, <2>5, <4>2, <4>3
    <3>. QED BY <3>2, <3>3 DEF TraineesAreMembers
  <2>8. CASE level[p] > 0 /\ to > 0
    <3>1. probations' = probations
      BY <2>1, <2>8 DEF AfterLevelChange
    <3>2. ASSUME NEW i \in DOMAIN probations,
                   probations[i].status = "active" PROVE level'[probations[i].who] > 0
      <4>1. level[probations[i].who] > 0
        BY <3>2 DEF TraineesAreMembers
      <4>. QED BY <2>4, <2>5, <2>8, <4>1
    <3>. QED BY <3>1, <3>2 DEF TraineesAreMembers
  <2>. QED BY <2>3, <2>6, <2>7, <2>8
<1>6. CASE UNCHANGED <<level, probations>>
  BY <1>6 DEF TraineesAreMembers
<1>. QED BY <1>3, <1>4, <1>5, <1>6, ProbationSteps

\* Whoever is on probation is a member, and nobody on the blacklist comes in but by override.
THEOREM MembershipKept == Spec => MembershipHolds
<1>1. Init => TraineesAreMembers
  BY DEF Init, TraineesAreMembers
<1>2. Sorts /\ LocksHold /\ TraineesAreMembers /\ [Next]_vars => TraineesAreMembers'
  BY TraineesStep
<1>. QED BY <1>1, <1>2, SortsHold, LocksAlwaysHold, BlacklistKeepsOut, PTL DEF Spec, MembershipHolds

-----------------------------------------------------------------------------
(* Decisions about applications.                                             *)

\* What the letter about an application says.
LetterFits(a) ==
    letters[a] \in (IF apps[a].status \in {"accepted", "rejected"} THEN {apps[a].status} ELSE {None})
DecisionsOK ==
    /\ \A a \in DOMAIN apps : (apps[a].status = "accepted" => a \in admitted) /\ LetterFits(a)
    /\ \A a \in 1..MaxApps : a \notin DOMAIN apps => letters[a] = None
    /\ \A w \in Web : request[w].at = "finish"
         /\ request[w].then = "accept" => request[w].ref \in admitted

\* Accepting is finished only after the level is given.
LEMMA AdmittedFirst ==
    ASSUME DecisionsOK, admitted \subseteq admitted',
           \A v \in Web : \/ request'[v] = request[v]
                          \/ request'[v].at # "finish" \/ request'[v].then # "accept"
    PROVE  \A v \in Web : request'[v].at = "finish"
             /\ request'[v].then = "accept" => request'[v].ref \in admitted'
BY DEF DecisionsOK

LEMMA DeskSteps ==
    ASSUME Sorts, [Next]_vars
    PROVE  \/ \E w \in Web : Asked(w) \/ CommitLevel(w) \/ Issued(w) \/ FactionApplied(w) \/ Decided(w)
           \/ (\E x \in People : WithdrawFaction(x)) \/ CooldownOver
           \/ UNCHANGED <<apps, admitted, letters>>
                /\ (request' = request \/ \E w \in Web : Become(w, Idle))
<1>1. ASSUME NEW w \in Web, Commits(w)
      PROVE  \/ CommitLevel(w) \/ Issued(w) \/ FactionApplied(w) \/ Decided(w)
             \/ UNCHANGED <<apps, admitted, letters>> /\ Become(w, Idle)
  <2>1. CASE Confirmed(w) \/ Ended(w) \/ DischargeRecorded(w)
    BY <2>1 DEF Confirmed, Ended, DischargeRecorded, desk
  <2>2. CASE Listed(w) \/ HeadSet(w)
    BY <2>2 DEF Listed, HeadSet, desk
  <2>3. CASE DivisionSet(w) \/ DivisionApplied(w) \/ DivisionAccepted(w)
    BY <2>3 DEF DivisionSet, DivisionApplied, DivisionAccepted, desk
  <2>. QED BY <1>1, <2>1, <2>2, <2>3 DEF Commits
<1>2. ASSUME NEW x \in People, AtOnce(x)
      PROVE  WithdrawFaction(x) \/ UNCHANGED <<apps, admitted, letters, request>>
  <2>1. ASSUME NEW i \in DOMAIN probations, NEW item, NEW result, NEW fto,
               SetTraining(x, i, item, result) \/ UpdateProbation(x, i, fto)
        PROVE  UNCHANGED <<apps, admitted, letters, request>>
    BY <2>1 DEF SetTraining, UpdateProbation, desk
  <2>2. ASSUME NEW e \in DOMAIN entries, CorrectDiscipline(x, e)
        PROVE  UNCHANGED <<apps, admitted, letters, request>>
    BY <2>2 DEF CorrectDiscipline, desk
  <2>3. ASSUME NEW b \in DOMAIN listed, LiftBlacklist(x, b)
        PROVE  UNCHANGED <<apps, admitted, letters, request>>
    BY <2>3 DEF LiftBlacklist, desk
  <2>5. ASSUME NEW a \in DOMAIN divapps, WithdrawDivisionApp(x, a) \/ RejectDivisionApp(x, a)
        PROVE  UNCHANGED <<apps, admitted, letters, request>>
    BY <2>5 DEF WithdrawDivisionApp, RejectDivisionApp
  <2>6. ASSUME NEW p \in People, NEW q \in Quals, SetQual(x, p, q)
        PROVE  UNCHANGED <<apps, admitted, letters, request>>
    BY <2>6 DEF SetQual, desk
  <2>7. ASSUME NEW p \in People, NEW status, NEW mark, UpdateMember(x, p, status)
                 \/ SetRollCall(x, p, mark)
        PROVE  UNCHANGED <<apps, admitted, letters, request>>
    BY <2>7 DEF UpdateMember, SetRollCall, desk
  <2>8. ASSUME NEW l \in 1..TopLevel, NEW override, NEW new \in Rules(l),
                 UpdateRank(x, override, l, new)
        PROVE  UNCHANGED <<apps, admitted, letters, request>>
    BY <2>8 DEF UpdateRank, desk
  <2>. QED BY <1>2, <2>1, <2>2, <2>3, <2>5, <2>6, <2>7, <2>8 DEF AtOnce
<1>3. ASSUME TimePasses
      PROVE  CooldownOver \/ UNCHANGED <<apps, admitted, letters, request>>
  BY <1>3 DEF TimePasses, EntryExpires, SuspensionEnds, BlacklistEnds, desk
<1>4. CASE Next
  BY <1>1, <1>2, <1>3, <1>4, StepsAre
<1>5. CASE UNCHANGED vars
  BY <1>5 DEF vars, tables, desk
<1>. QED BY <1>4, <1>5

\* A step that changes at most one application, and its letter with it.
LEMMA OneDecided ==
    ASSUME Sorts, DecisionsOK, NEW a \in DOMAIN apps, NEW row, apps' = [apps EXCEPT ![a] = row],
           admitted' = admitted, \A i \in 1..MaxApps : i # a => letters'[i] = letters[i],
           row.status = "accepted" => a \in admitted,
           letters'[a] \in (IF row.status \in {"accepted", "rejected"} THEN {row.status} ELSE {None}),
           \A v \in Web : \/ request'[v] = request[v]
                          \/ request'[v].at # "finish" \/ request'[v].then # "accept"
    PROVE  DecisionsOK'
<1>1. apps \in Seq(AppRow) /\ Len(apps) <= MaxApps /\ MaxApps \in Nat
  BY FactionsAssumption DEF Sorts, DeskOK
<1>2. DOMAIN apps' = DOMAIN apps /\ apps'[a] = row /\ \A i \in DOMAIN apps : i # a => apps'[i] = apps[i]
  BY <1>1
<1>3. DOMAIN apps \subseteq 1..MaxApps
  BY <1>1
<1>4. ASSUME NEW i \in DOMAIN apps' PROVE (apps'[i].status = "accepted" => i \in admitted')
               /\ LetterFits(i)'
  <2>1. CASE i = a
    BY <1>2, <2>1 DEF LetterFits
  <2>2. CASE i # a
    <3>1. letters'[i] = letters[i] /\ apps'[i] = apps[i] /\ LetterFits(i)
      BY <1>2, <1>3, <2>2 DEF DecisionsOK
    <3>. QED BY <1>2, <3>1 DEF DecisionsOK, LetterFits
  <2>. QED BY <2>1, <2>2
<1>5. ASSUME NEW i \in 1..MaxApps, i \notin DOMAIN apps' PROVE letters'[i] = None
  BY <1>2, <1>5 DEF DecisionsOK
<1>6. \A v \in Web : request'[v].at = "finish"
        /\ request'[v].then = "accept" => request'[v].ref \in admitted'
  BY AdmittedFirst
<1>. QED BY <1>4, <1>5, <1>6 DEF DecisionsOK

LEMMA IdleNotFinish ==
    ASSUME Sorts, NEW w \in Web, Become(w, Idle)
    PROVE  \A v \in Web : request'[v] = request[v] \/ request'[v].at # "finish"
             \/ request'[v].then # "accept"
<1>1. request'[w] = Idle /\ OthersWait(w)
  BY Becomes DEF Sorts
<1>. QED BY <1>1, IdleIsFine DEF OthersWait

\* A step that decides nothing.
LEMMA NoneDecided ==
    ASSUME DecisionsOK, UNCHANGED <<apps, letters>>, admitted \subseteq admitted',
           \A v \in Web : request'[v].at = "finish"
             /\ request'[v].then = "accept" => request'[v].ref \in admitted'
    PROVE  DecisionsOK'
BY DEF DecisionsOK, LetterFits

LEMMA DecisionsStep ==
    ASSUME Sorts, DecisionsOK, [Next]_vars
    PROVE  DecisionsOK'
<1>1. /\ apps \in Seq(AppRow) /\ Len(apps) <= MaxApps /\ MaxApps \in Nat
      /\ letters \in [1..MaxApps -> {None, "accepted", "rejected"}]
  BY FactionsAssumption DEF Sorts, DeskOK
<1>2. ASSUME NEW w \in Web, Asked(w) PROVE DecisionsOK'
  <2>1. UNCHANGED <<apps, letters, admitted>> /\ OthersWait(w)
        /\ (request'[w].at = "finish" => request'[w].then = "reject")
    BY <1>2 DEF Asked, tables, desk
  <2>. QED BY <2>1, AdmittedFirst, NoneDecided DEF OthersWait
<1>3. ASSUME NEW w \in Web, CommitLevel(w) PROVE DecisionsOK'
  <2>. DEFINE r == request[w]  new == IF r.then = "nothing" THEN Idle ELSE [r EXCEPT !.at = "finish"]
  <2>1. /\ r.at = "changing" /\ UNCHANGED <<apps, letters>> /\ Become(w, new)
        /\ admitted' = IF r.then = "accept" THEN admitted \cup {r.ref} ELSE admitted
    BY <1>3 DEF CommitLevel
  <2>2. ChangeOK(r)
    BY <2>1 DEF Sorts, RequestOK
  <2>3. new.at = "finish" /\ new.then = "accept" => new.ref = r.ref /\ r.then = "accept"
    <3>1. [r EXCEPT !.at = "finish"].then = r.then /\ [r EXCEPT !.at = "finish"].ref = r.ref
      BY <2>2, ChangeMoves
    <3>. QED BY <3>1, IdleIsFine
  <2>. HIDE DEF new
  <2>4. request'[w] = new /\ OthersWait(w)
    BY <2>1, Becomes DEF Sorts
  <2>5. admitted \subseteq admitted'
    BY <2>1
  <2>6. ASSUME NEW v \in Web, request'[v].at = "finish", request'[v].then = "accept"
        PROVE  request'[v].ref \in admitted'
    <3>1. CASE v = w
      BY <2>1, <2>3, <2>4, <2>6, <3>1
    <3>2. CASE v # w
      BY <2>4, <2>5, <2>6, <3>2 DEF OthersWait, DecisionsOK
    <3>. QED BY <3>1, <3>2
  <2>. QED BY <2>1, <2>5, <2>6, NoneDecided
<1>4. ASSUME NEW w \in Web, Issued(w) PROVE DecisionsOK'
  <2>1. PICK new : Become(w, new) /\ (new = Idle \/ (ChangeOK(new) /\ new.at = "change"))
    BY <1>4, IssuedWrites
  <2>2. request'[w] = new /\ OthersWait(w) /\ new.at # "finish"
    BY <2>1, Becomes, IdleIsFine DEF Sorts
  <2>3. UNCHANGED <<apps, letters, admitted>>
    BY <1>4 DEF Issued, desk
  <2>. QED BY <2>2, <2>3, AdmittedFirst, NoneDecided DEF OthersWait
<1>5. ASSUME UNCHANGED <<apps, admitted, letters>>, request' = request \/ \E w \in Web : Become(w, Idle)
      PROVE  DecisionsOK'
  <2>1. \A v \in Web : request'[v] = request[v] \/ request'[v].at # "finish"
          \/ request'[v].then # "accept"
    BY <1>5, IdleNotFinish
  <2>. QED BY <1>5, <2>1, AdmittedFirst, NoneDecided
<1>6. ASSUME NEW w \in Web, FactionApplied(w) PROVE DecisionsOK'
  <2>. DEFINE row == [who |-> request[w].who, status |-> "pending", cooling |-> FALSE]
  <2>1. /\ request[w].at = "applying" /\ Become(w, Idle) /\ UNCHANGED <<admitted, letters>>
        /\ apps' = apps \/ (Len(apps) < MaxApps /\ apps' = Append(apps, row))
    BY <1>6 DEF FactionApplied
  <2>2. row \in AppRow /\ row.status = "pending"
    BY <2>1 DEF Sorts, RequestOK, AppRow
  <2>. HIDE DEF row
  <2>3. CASE apps' = apps
    BY <1>5, <2>1, <2>3
  <2>4. CASE Len(apps) < MaxApps /\ apps' = Append(apps, row)
    <3>1. /\ apps'[Len(apps) + 1] = row /\ \A i \in DOMAIN apps : apps'[i] = apps[i]
          /\ DOMAIN apps' = DOMAIN apps \cup {Len(apps) + 1} /\ Len(apps) \in Nat
               /\ DOMAIN apps = 1..Len(apps)
      BY <1>1, <2>2, <2>4, SeqAdd
    <3>2. Len(apps) + 1 \in 1..MaxApps /\ Len(apps) + 1 \notin DOMAIN apps
      BY <1>1, <2>4, <3>1
    <3>3. letters[Len(apps) + 1] = None
      BY <3>2 DEF DecisionsOK
    <3>4. ASSUME NEW i \in DOMAIN apps' PROVE (apps'[i].status = "accepted" => i \in admitted')
                   /\ LetterFits(i)'
      <4>1. CASE i = Len(apps) + 1
        BY <2>1, <2>2, <3>1, <3>3, <4>1 DEF LetterFits
      <4>2. CASE i \in DOMAIN apps
        BY <2>1, <3>1, <4>2 DEF LetterFits, DecisionsOK
      <4>. QED BY <3>1, <4>1, <4>2
    <3>5. \A i \in 1..MaxApps : i \notin DOMAIN apps' => letters'[i] = None
      BY <2>1, <3>1 DEF DecisionsOK
    <3>6. \A v \in Web : request'[v].at = "finish"
            /\ request'[v].then = "accept" => request'[v].ref \in admitted'
      BY <2>1, IdleNotFinish, AdmittedFirst
    <3>. QED BY <3>4, <3>5, <3>6 DEF DecisionsOK
  <2>. QED BY <2>1, <2>3, <2>4
<1>7. ASSUME NEW w \in Web, Decided(w) PROVE DecisionsOK'
  <2>. DEFINE a == request[w].ref
              status == IF request[w].then = "accept" THEN "accepted" ELSE "rejected"
              row == [apps[a] EXCEPT !.status = status, !.cooling = (status = "rejected")]
  <2>1. /\ request[w].at = "finish" /\ request[w].then \in {"accept", "reject"} /\ Become(w, Idle)
        /\ admitted' = admitted
        /\ \/ UNCHANGED <<apps, letters>>
           \/ /\ apps[a].status = "pending"
              /\ apps' = [apps EXCEPT ![a].status = status, ![a].cooling = (status = "rejected")]
              /\ letters' = [letters EXCEPT ![a] = IF letters[a] = None THEN status ELSE letters[a]]
    BY <1>7 DEF Decided, StillOpen
  <2>2. a \in DOMAIN apps /\ (request[w].then = "accept" => a \in admitted)
    BY <2>1 DEF Sorts, RequestOK, ChangeOK, DecisionsOK
  <2>3. apps[a] \in AppRow
    BY <2>2, Elements
  <2>4. apps' = [apps EXCEPT ![a].status = status, ![a].cooling = (status = "rejected")]
        => apps' = [apps EXCEPT ![a] = row]
    BY <2>2
  <2>5. status \in {"accepted", "rejected"} /\ (status = "accepted" => request[w].then = "accept")
    OBVIOUS
  <2>. HIDE DEF a, status
  <2>6. row.status = status
    BY <2>3 DEF AppRow
  <2>. HIDE DEF row
  <2>7. CASE UNCHANGED <<apps, letters>>
    BY <1>5, <2>1, <2>7
  <2>8. CASE /\ apps[a].status = "pending" /\ apps' = [apps EXCEPT ![a] = row]
             /\ letters' = [letters EXCEPT ![a] = IF letters[a] = None THEN status ELSE letters[a]]
    <3>1. letters[a] = None
      BY <2>2, <2>8 DEF DecisionsOK, LetterFits
    <3>2. a \in 1..MaxApps
      BY <1>1, <2>2
    <3>3. letters'[a] = status /\ \A i \in 1..MaxApps : i # a => letters'[i] = letters[i]
      BY <1>1, <2>8, <3>1, <3>2
    <3>4. \A v \in Web : request'[v] = request[v] \/ request'[v].at # "finish"
            \/ request'[v].then # "accept"
      BY <2>1, IdleNotFinish
    <3>5. letters'[a] \in (IF row.status \in {"accepted", "rejected"} THEN {row.status} ELSE {None})
      BY <2>5, <2>6, <3>3
    <3>6. (row.status = "accepted" => a \in admitted) /\ admitted' = admitted
            /\ apps' = [apps EXCEPT ![a] = row]
      BY <2>1, <2>2, <2>5, <2>6, <2>8
    <3>. QED BY <2>2, <3>3, <3>4, <3>5, <3>6, OneDecided
  <2>. QED BY <2>1, <2>4, <2>7, <2>8
<1>8. ASSUME NEW a \in DOMAIN apps, NEW row, apps' = [apps EXCEPT ![a] = row],
             \/ row.status = apps[a].status
             \/ apps[a].status = "pending" /\ row.status = "withdrawn",
             UNCHANGED <<admitted, letters, request>>
      PROVE  DecisionsOK'
  <2>1. LetterFits(a) /\ (apps[a].status = "accepted" => a \in admitted)
    BY DEF DecisionsOK
  <2>2. letters'[a] \in (IF row.status \in {"accepted", "rejected"} THEN {row.status} ELSE {None})
    BY <1>8, <2>1 DEF LetterFits
  <2>3. row.status = "accepted" => a \in admitted
    BY <1>8, <2>1
  <2>. QED BY <1>8, <2>2, <2>3, OneDecided
<1>9. ASSUME NEW x \in People, WithdrawFaction(x) PROVE DecisionsOK'
  <2>1. PICK a \in DOMAIN apps : /\ apps[a].status = "pending"
                                 /\ apps' = [apps EXCEPT ![a].status = "withdrawn"]
    BY <1>9 DEF WithdrawFaction
  <2>. DEFINE row == [apps[a] EXCEPT !.status = "withdrawn"]
  <2>2. apps' = [apps EXCEPT ![a] = row]
    BY <2>1
  <2>3. row.status = "withdrawn"
    BY Elements DEF AppRow
  <2>4. UNCHANGED <<admitted, letters, request>>
    BY <1>9 DEF WithdrawFaction
  <2>. HIDE DEF row
  <2>. QED BY <1>8, <2>1, <2>2, <2>3, <2>4
<1>10. ASSUME CooldownOver PROVE DecisionsOK'
  <2>1. UNCHANGED <<admitted, letters, request>>
    BY <1>10 DEF CooldownOver
  <2>2. CASE apps' = apps
    BY <1>5, <2>1, <2>2
  <2>3. CASE \E a \in DOMAIN apps : apps' = [apps EXCEPT ![a].cooling = FALSE]
    <3>1. PICK a \in DOMAIN apps : apps' = [apps EXCEPT ![a].cooling = FALSE]
      BY <2>3
    <3>. DEFINE row == [apps[a] EXCEPT !.cooling = FALSE]
    <3>2. apps' = [apps EXCEPT ![a] = row]
      BY <3>1
    <3>3. row.status = apps[a].status
      BY Elements DEF AppRow
    <3>. HIDE DEF row
    <3>. QED BY <1>8, <2>1, <3>2, <3>3
  <2>. QED BY <1>10, <2>2, <2>3 DEF CooldownOver
<1>. QED BY <1>2, <1>3, <1>4, <1>5, <1>6, <1>7, <1>9, <1>10, DeskSteps

\* A decision stands: who is accepted was given the level, and the letter says the same.
THEOREM DecisionsKept == Spec => []DecisionsStand
<1>1. Init => DecisionsOK
  <2>1. ASSUME Init PROVE DecisionsOK
    <3>1. apps = <<>> /\ \A a \in 1..MaxApps : letters[a] = None
      BY <2>1 DEF Init
    <3>2. \A w \in Web : request[w] = Idle
      BY <2>1 DEF Init
    <3>. QED BY <3>1, <3>2, IdleIsFine DEF DecisionsOK
  <2>. QED BY <2>1
<1>2. Sorts /\ DecisionsOK /\ [Next]_vars => DecisionsOK'
  BY DecisionsStep
<1>3. DecisionsOK => DecisionsStand
  BY DEF DecisionsOK, DecisionsStand, LetterFits
<1>. QED BY <1>1, <1>2, <1>3, SortsHold, PTL DEF Spec

-----------------------------------------------------------------------------
(* The log of discipline.                                                    *)

\* The verbal warnings of a player since their last conversion before an entry.
WarningsBefore(p, n) ==
    {e \in 1..(n - 1) : /\ entries[e].who = p /\ entries[e].kind = "mvw"
                        /\ \A b \in {b \in Conversions(p) : b < n} : b < e}
LogOK ==
    /\ \A c \in DOMAIN entries : entries[c].kind = "mvw_conversion" =>
           Cardinality(WarningsBefore(entries[c].who, c)) >= MVWsPerConversion
    /\ \A w \in Web : request[w].at = "issuing" =>
           /\ request[w].warnings \in Nat
           /\ request[w].warnings <= Cardinality(WarningsBefore(request[w].who, Len(entries) + 1))
    /\ \A s \in DOMAIN suspensions : suspensions[s].live => ~Corrected(suspensions[s].entry)

\* The log only grows, and an entry stays about whom it is about.
LogKept ==
    \A e \in DOMAIN entries :
        /\ e \in DOMAIN entries' /\ entries'[e].who = entries[e].who
        /\ entries'[e].kind = entries[e].kind /\ entries'[e].of = entries[e].of

LEMMA LogIsNumbered == Sorts => Len(entries) \in Nat /\ DOMAIN entries = 1..Len(entries)
BY DEF Sorts, EntriesOK

LEMMA WarningsFinite ==
    ASSUME NEW p, NEW n \in Nat \ {0}
    PROVE  IsFiniteSet(WarningsBefore(p, n)) /\ Cardinality(WarningsBefore(p, n)) \in Nat
<1>1. IsFiniteSet(1..(n - 1))
  BY FS_Interval
<1>. QED BY <1>1, FS_Subset, FS_CardinalityType DEF WarningsBefore

LEMMA WarningsKept ==
    ASSUME Sorts, Sorts', LogKept, NEW p, NEW n \in 1..(Len(entries) + 1)
    PROVE  WarningsBefore(p, n)' = WarningsBefore(p, n)
<1>1. /\ Len(entries) \in Nat /\ DOMAIN entries = 1..Len(entries)
      /\ Len(entries') \in Nat /\ DOMAIN entries' = 1..Len(entries')
  BY LogIsNumbered
<1>2. 1..(n - 1) \subseteq DOMAIN entries
  BY <1>1
<1>3. {b \in Conversions(p)' : b < n} = {b \in Conversions(p) : b < n}
  <2>1. \A b \in DOMAIN entries' : b < n => b \in DOMAIN entries
    BY <1>1
  <2>. QED BY <2>1 DEF Conversions, LogKept
<1>. QED BY <1>2, <1>3 DEF WarningsBefore, LogKept

\* Whoever is issuing keeps what they counted, while nothing else is written about the player.
LEMMA CountKept ==
    ASSUME Sorts, Sorts', LogKept, NEW p,
           \A e \in DOMAIN entries' : e \in DOMAIN entries \/ entries'[e].who # p
             \/ entries'[e].kind = "correction"
    PROVE  WarningsBefore(p, Len(entries) + 1) \subseteq WarningsBefore(p, Len(entries) + 1)'
<1>1. /\ Len(entries) \in Nat /\ DOMAIN entries = 1..Len(entries)
      /\ Len(entries') \in Nat /\ DOMAIN entries' = 1..Len(entries')
  BY LogIsNumbered
<1>2. Len(entries) <= Len(entries')
  <2>1. Len(entries) # 0 => Len(entries) \in DOMAIN entries'
    BY <1>1 DEF LogKept
  <2>. QED BY <1>1, <2>1
<1>3. Conversions(p)' = Conversions(p)
  BY DEF Conversions, LogKept
<1>4. ASSUME NEW e \in WarningsBefore(p, Len(entries) + 1) PROVE e \in WarningsBefore(p,
               Len(entries) + 1)'
  <2>1. e \in DOMAIN entries /\ entries[e].who = p /\ entries[e].kind = "mvw"
    BY <1>1 DEF WarningsBefore
  <2>2. \A b \in Conversions(p) : b < e
    BY <1>1 DEF WarningsBefore, Conversions
  <2>3. e \in 1..((Len(entries') + 1) - 1)
    BY <1>1, <1>2, <2>1
  <2>4. entries'[e].who = p /\ entries'[e].kind = "mvw"
    BY <2>1 DEF LogKept
  <2>. QED BY <1>3, <2>2, <2>3, <2>4 DEF WarningsBefore
<1>. QED BY <1>4

\* A step that only adds corrections, or nothing, to the log.
LEMMA QuietLog ==
    ASSUME Sorts, Sorts', LogOK, LogKept,
           \A e \in DOMAIN entries' : e \in DOMAIN entries \/ entries'[e].kind = "correction",
           \A s \in DOMAIN suspensions' : suspensions'[s].live => ~Corrected(suspensions[s].entry)',
           \A v \in Web : request'[v].at = "issuing" =>
               \/ request'[v] = request[v]
               \/ /\ request'[v].warnings \in Nat
                  /\ request'[v].warnings <= Cardinality(WarningsBefore(request'[v].who,
                       Len(entries) + 1))
    PROVE  LogOK'
<1>1. /\ Len(entries) \in Nat /\ DOMAIN entries = 1..Len(entries)
      /\ Len(entries') \in Nat /\ DOMAIN entries' = 1..Len(entries')
  BY LogIsNumbered
<1>2. ASSUME NEW c \in DOMAIN entries', entries'[c].kind = "mvw_conversion"
      PROVE  Cardinality(WarningsBefore(entries[c].who, c))' >= MVWsPerConversion
  <2>1. c \in DOMAIN entries
    BY <1>2
  <2>2. PICK p : p = entries[c].who
    OBVIOUS
  <2>3. entries'[c].who = p /\ entries[c].kind = "mvw_conversion"
    BY <1>2, <2>1, <2>2 DEF LogKept
  <2>4. WarningsBefore(p, c)' = WarningsBefore(p, c)
    BY <1>1, <2>1, WarningsKept
  <2>5. WarningsBefore(entries[c].who, c)' = WarningsBefore(p, c)'
    BY <2>3 DEF WarningsBefore, Conversions
  <2>. QED BY <2>1, <2>2, <2>3, <2>4, <2>5 DEF LogOK
<1>3. ASSUME NEW v \in Web, request'[v].at = "issuing"
      PROVE  /\ request'[v].warnings \in Nat
             /\ request'[v].warnings <= Cardinality(WarningsBefore(request[v].who, Len(entries) + 1))'
  <2>1. PICK p : p = request'[v].who
    OBVIOUS
  <2>2. request'[v].warnings \in Nat
          /\ request'[v].warnings <= Cardinality(WarningsBefore(p, Len(entries) + 1))
    BY <1>3, <2>1 DEF LogOK
  <2>. DEFINE old == WarningsBefore(p, Len(entries) + 1)  new == WarningsBefore(p, Len(entries) + 1)'
  <2>3. old \subseteq new
    BY CountKept
  <2>4. new \subseteq 1..Len(entries')
    BY <1>1 DEF WarningsBefore
  <2>5. WarningsBefore(request[v].who, Len(entries) + 1)' = new
    BY <2>1 DEF WarningsBefore, Conversions
  <2>. HIDE DEF old, new
  <2>6. IsFiniteSet(new)
    <3>1. IsFiniteSet(1..Len(entries'))
      BY <1>1, FS_Interval
    <3>. QED BY <2>4, <3>1, FS_Subset
  <2>7. IsFiniteSet(old) /\ Cardinality(old) <= Cardinality(new)
    BY <2>3, <2>6, FS_Subset
  <2>8. Cardinality(old) \in Nat /\ Cardinality(new) \in Nat
    BY <2>6, <2>7, FS_CardinalityType
  <2>9. request'[v].warnings <= Cardinality(old)
    BY <2>2 DEF old
  <2>. QED BY <2>2, <2>5, <2>7, <2>8, <2>9
<1>. QED BY <1>2, <1>3 DEF LogOK
LEMMA LogSteps ==
    ASSUME Sorts, [Next]_vars
    PROVE  \/ \E w \in Web : Asked(w) \/ Issued(w)
           \/ \E x \in People, e \in DOMAIN entries : CorrectDiscipline(x, e)
           \/ (\E e \in DOMAIN entries : EntryExpires(e))
                \/ (\E s \in DOMAIN suspensions : SuspensionEnds(s))
           \/ /\ UNCHANGED <<entries, suspensions>>
              /\ \A v \in Web : request'[v] = request[v] \/ request'[v].at # "issuing"
<1>1. ASSUME NEW w \in Web, Commits(w), ~Issued(w)
      PROVE  /\ UNCHANGED <<entries, suspensions>>
             /\ \A v \in Web : request'[v] = request[v] \/ request'[v].at # "issuing"
  <2>1. CASE CommitLevel(w)
    <3>. DEFINE r == request[w]  new == IF r.then = "nothing" THEN Idle ELSE [r EXCEPT !.at = "finish"]
    <3>1. r.at = "changing" /\ Become(w, new) /\ UNCHANGED <<entries, suspensions>>
      BY <2>1 DEF CommitLevel, books
    <3>2. ChangeOK(r)
      BY <3>1 DEF Sorts, RequestOK
    <3>3. new.at # "issuing"
      BY <3>2, ChangeMoves, IdleIsFine
    <3>. HIDE DEF new
    <3>4. request'[w] = new /\ OthersWait(w)
      BY <3>1, Becomes DEF Sorts
    <3>. QED BY <3>1, <3>3, <3>4 DEF OthersWait
  <2>2. ASSUME UNCHANGED <<entries, suspensions>>, Become(w, Idle)
        PROVE  /\ UNCHANGED <<entries, suspensions>>
               /\ \A v \in Web : request'[v] = request[v] \/ request'[v].at # "issuing"
    <3>1. request'[w] = Idle /\ OthersWait(w)
      BY <2>2, Becomes DEF Sorts
    <3>. QED BY <2>2, <3>1, IdleIsFine DEF OthersWait
  <2>3. CASE Confirmed(w) \/ Ended(w) \/ DischargeRecorded(w) \/ Listed(w)
    BY <2>2, <2>3 DEF Confirmed, Ended, DischargeRecorded, Listed, books
  <2>4. CASE FactionApplied(w) \/ Decided(w) \/ HeadSet(w)
    BY <2>2, <2>4 DEF FactionApplied, Decided, HeadSet, books
  <2>5. CASE DivisionSet(w) \/ DivisionApplied(w) \/ DivisionAccepted(w)
    BY <2>2, <2>5 DEF DivisionSet, DivisionApplied, DivisionAccepted, books
  <2>. QED BY <1>1, <2>1, <2>3, <2>4, <2>5 DEF Commits
<1>2. ASSUME NEW x \in People, AtOnce(x)
      PROVE  \/ \E e \in DOMAIN entries : CorrectDiscipline(x, e)
             \/ UNCHANGED <<entries, suspensions, request>>
  <2>1. ASSUME NEW i \in DOMAIN probations, NEW item, NEW result, NEW fto,
               SetTraining(x, i, item, result) \/ UpdateProbation(x, i, fto)
        PROVE  UNCHANGED <<entries, suspensions, request>>
    BY <2>1 DEF SetTraining, UpdateProbation, books
  <2>3. ASSUME NEW b \in DOMAIN listed, LiftBlacklist(x, b)
        PROVE  UNCHANGED <<entries, suspensions, request>>
    BY <2>3 DEF LiftBlacklist
  <2>4. CASE WithdrawFaction(x)
    BY <2>4 DEF WithdrawFaction, books
  <2>5. ASSUME NEW a \in DOMAIN divapps, WithdrawDivisionApp(x, a) \/ RejectDivisionApp(x, a)
        PROVE  UNCHANGED <<entries, suspensions, request>>
    BY <2>5 DEF WithdrawDivisionApp, RejectDivisionApp, books
  <2>6. ASSUME NEW p \in People, NEW q \in Quals, SetQual(x, p, q)
        PROVE  UNCHANGED <<entries, suspensions, request>>
    BY <2>6 DEF SetQual, books
  <2>7. ASSUME NEW p \in People, NEW status, NEW mark, UpdateMember(x, p, status)
                 \/ SetRollCall(x, p, mark)
        PROVE  UNCHANGED <<entries, suspensions, request>>
    BY <2>7 DEF UpdateMember, SetRollCall, books
  <2>8. ASSUME NEW l \in 1..TopLevel, NEW override, NEW new \in Rules(l),
                 UpdateRank(x, override, l, new)
        PROVE  UNCHANGED <<entries, suspensions, request>>
    BY <2>8 DEF UpdateRank, books
  <2>. QED BY <1>2, <2>1, <2>3, <2>4, <2>5, <2>6, <2>7, <2>8 DEF AtOnce
<1>3. ASSUME TimePasses
      PROVE  \/ (\E e \in DOMAIN entries : EntryExpires(e))
                  \/ (\E s \in DOMAIN suspensions : SuspensionEnds(s))
             \/ UNCHANGED <<entries, suspensions, request>>
  BY <1>3 DEF TimePasses, BlacklistEnds, CooldownOver, books
<1>4. CASE Next
  BY <1>1, <1>2, <1>3, <1>4, StepsAre
<1>5. CASE UNCHANGED vars
  BY <1>5 DEF vars, tables, books
<1>. QED BY <1>4, <1>5

\* What is active of the warnings of a player was given since their last conversion.
LEMMA ActiveAreGiven ==
    ASSUME Sorts, NEW p
    PROVE  /\ Cardinality(ActiveMVWs(p)) \in Nat
           /\ Cardinality(ActiveMVWs(p)) <= Cardinality(WarningsBefore(p, Len(entries) + 1))
<1>1. Len(entries) \in Nat /\ DOMAIN entries = 1..Len(entries)
  BY LogIsNumbered
<1>2. ActiveMVWs(p) \subseteq WarningsBefore(p, Len(entries) + 1)
  BY <1>1 DEF ActiveMVWs, WarningsBefore
<1>3. IsFiniteSet(WarningsBefore(p, Len(entries) + 1))
  BY <1>1, WarningsFinite
<1>. QED BY <1>2, <1>3, FS_Subset, FS_CardinalityType

LEMMA IssuedLog ==
    ASSUME Sorts, Sorts', LocksHold, LogOK, NEW w \in Web, Issued(w)
    PROVE  LogOK'
<1>. DEFINE n == Len(entries)
<1>1. n \in Nat /\ DOMAIN entries = 1..n /\ Len(entries') \in Nat /\ DOMAIN entries' = 1..Len(entries')
  BY LogIsNumbered
<1>2. PICK p \in People : p = request[w].who
  BY IssuedWrites
<1>3. PICK points \in Points \cup {0} : points = request[w].points
  BY IssuedWrites
<1>. DEFINE one == Given(p, points)  two == Conversion(p)  first == Append(entries, one)
<1>4. /\ request[w].at = "issuing"
      /\ \/ entries' = first
         \/ /\ points = 0 /\ request[w].warnings + 1 >= MVWsPerConversion
            /\ entries' = Append(first, two)
  BY <1>2, <1>3, IssuedWrites
<1>5. one \in EntryRow /\ two \in EntryRow /\ one.of = 0 /\ two.of = 0
  BY EntriesGiven
<1>6. one.who = p /\ two.who = p /\ two.kind = "mvw_conversion" /\ one.kind # "mvw_conversion"
      /\ (points = 0 => one.kind = "mvw")
  BY DEF Given, Conversion, Entry
<1>. HIDE DEF one, two
<1>7. /\ first \in Seq(EntryRow) /\ DOMAIN first = 1..(n + 1) /\ Len(first) = n + 1
      /\ first[n + 1] = one /\ \A e \in DOMAIN entries : first[e] = entries[e]
  <2>1. entries \in Seq(EntryRow)
    BY DEF Sorts, EntriesOK
  <2>. QED BY <1>1, <1>5, <2>1, SeqAdd
<1>. HIDE DEF first
<1>8. /\ LogKept
      /\ \A e \in DOMAIN entries' : e \in DOMAIN entries \/ (entries'[e].who = p /\ entries'[e].of = 0)
      /\ \A c \in DOMAIN entries' : entries'[c].kind = "mvw_conversion" /\ c \notin DOMAIN entries =>
            /\ c = n + 2 /\ entries'[c].who = p
            /\ request[w].warnings + 1 >= MVWsPerConversion
            /\ entries'[n + 1].who = p /\ entries'[n + 1].kind = "mvw"
      /\ n + 1 \in DOMAIN entries'
  <2>1. CASE entries' = first
    BY <1>1, <1>5, <1>6, <1>7, <2>1 DEF LogKept
  <2>2. CASE points = 0 /\ request[w].warnings + 1 >= MVWsPerConversion /\ entries' = Append(first, two)
    <3>1. /\ DOMAIN entries' = 1..(n + 2) /\ entries'[n + 2] = two
          /\ \A e \in 1..(n + 1) : entries'[e] = first[e]
      BY <1>1, <1>5, <1>7, <2>2, SeqAdd
    <3>2. \A e \in DOMAIN entries' : e \in DOMAIN entries \/ e = n + 1 \/ e = n + 2
      BY <1>1, <3>1
    <3>3. entries'[n + 1] = one /\ \A e \in DOMAIN entries : e \in DOMAIN entries'
            /\ entries'[e] = entries[e]
      BY <1>1, <1>7, <3>1
    <3>. HIDE DEF n
    <3>4. LogKept
      BY <3>3 DEF LogKept
    <3>5. \A e \in DOMAIN entries' : e \in DOMAIN entries \/ (entries'[e].who = p /\ entries'[e].of = 0)
      BY <1>5, <1>6, <3>1, <3>2, <3>3
    <3>6. entries'[n + 1].who = p /\ entries'[n + 1].kind = "mvw"
            /\ entries'[n + 1].kind # "mvw_conversion"
      BY <1>6, <2>2, <3>3
    <3>7. \A c \in DOMAIN entries' : entries'[c].kind = "mvw_conversion" /\ c \notin DOMAIN entries =>
             c = n + 2 /\ entries'[c].who = p
      BY <1>6, <3>1, <3>2, <3>6
    <3>8. n + 1 \in DOMAIN entries'
      BY <1>1, <3>1
    <3>. QED BY <2>2, <3>4, <3>5, <3>6, <3>7, <3>8
  <2>. QED BY <1>4, <2>1, <2>2
<1>9. ASSUME NEW c \in DOMAIN entries', entries'[c].kind = "mvw_conversion"
      PROVE  Cardinality(WarningsBefore(entries[c].who, c))' >= MVWsPerConversion
  <2>1. CASE c \in DOMAIN entries
    <3>1. PICK q : q = entries[c].who
      OBVIOUS
    <3>2. entries'[c].who = q /\ entries[c].kind = "mvw_conversion"
      BY <1>8, <1>9, <2>1, <3>1 DEF LogKept
    <3>3. WarningsBefore(q, c)' = WarningsBefore(q, c)
      BY <1>1, <1>8, <2>1, WarningsKept
    <3>4. WarningsBefore(entries[c].who, c)' = WarningsBefore(q, c)'
      BY <3>2 DEF WarningsBefore, Conversions
    <3>. QED BY <2>1, <3>1, <3>2, <3>3, <3>4 DEF LogOK
  <2>2. CASE c \notin DOMAIN entries
    <3>1. /\ c = n + 2 /\ entries'[c].who = p /\ request[w].warnings + 1 >= MVWsPerConversion
          /\ entries'[n + 1].who = p /\ entries'[n + 1].kind = "mvw"
      BY <1>8, <1>9, <2>2
    <3>. DEFINE old == WarningsBefore(p, n + 1)  new == WarningsBefore(p, c)'
    <3>2. n + 1 \in 1..(n + 1) /\ n + 1 \in Nat /\ n + 1 \in 1..(Len(entries) + 1)
            /\ (n + 2) - 1 = n + 1
          /\ 1..((n + 1) - 1) = 1..n /\ 1..n \subseteq 1..(n + 1)
      BY <1>1
    <3>3. \A b \in Conversions(p)' : b < n + 2 => b \in Conversions(p)
      <4>1. ASSUME NEW b \in DOMAIN entries', entries'[b].who = p, entries'[b].kind = "mvw_conversion",
                     b < n + 2
            PROVE  b \in Conversions(p)
        <5>1. b \in DOMAIN entries
          <6>1. b # n + 2
            BY <1>1, <4>1
          <6>. QED BY <1>8, <4>1, <6>1
        <5>. QED BY <1>8, <4>1, <5>1 DEF Conversions, LogKept
      <4>. QED BY <4>1 DEF Conversions
    <3>4. ASSUME NEW e \in old PROVE e \in new
      <4>1. e \in 1..n /\ entries[e].who = p /\ entries[e].kind = "mvw"
              /\ \A b \in Conversions(p) : b < n + 1 => b < e
        BY <3>2 DEF WarningsBefore
      <4>2. e \in 1..(n + 1) /\ entries'[e].who = p /\ entries'[e].kind = "mvw"
        BY <1>1, <1>8, <3>2, <4>1 DEF LogKept
      <4>3. \A b \in Conversions(p)' : b < n + 2 => b < e
        <5>1. \A b \in Conversions(p) : b < n + 1
          BY <1>1 DEF Conversions
        <5>. QED BY <3>3, <4>1, <5>1
      <4>. QED BY <3>1, <3>2, <4>2, <4>3 DEF WarningsBefore
    <3>5. n + 1 \in new
      <4>1. \A b \in Conversions(p)' : b < n + 2 => b < n + 1
        <5>1. \A b \in Conversions(p) : b < n + 1
          BY <1>1 DEF Conversions
        <5>. QED BY <3>3, <5>1
      <4>. QED BY <3>1, <3>2, <4>1 DEF WarningsBefore
    <3>6. n + 1 \notin old
      BY <1>1, <3>2 DEF WarningsBefore
    <3>7. new \subseteq 1..(n + 1)
      BY <3>1, <3>2 DEF WarningsBefore
    <3>8. request[w].warnings \in Nat /\ request[w].warnings <= Cardinality(old)
      BY <1>2, <1>4 DEF LogOK
    <3>9. WarningsBefore(entries[c].who, c)' = new
      BY <3>1 DEF WarningsBefore, Conversions
    <3>. HIDE DEF old, new, n
    <3>10. IsFiniteSet(new)
      <4>1. IsFiniteSet(1..(n + 1))
        BY <1>1, FS_Interval
      <4>. QED BY <3>7, <4>1, FS_Subset
    <3>11. IsFiniteSet(old) /\ old \cup {n + 1} \subseteq new
      BY <3>4, <3>5, <3>10, FS_Subset
    <3>12. Cardinality(old \cup {n + 1}) = Cardinality(old) + 1
      BY <3>6, <3>11, FS_AddElement
    <3>13. Cardinality(old \cup {n + 1}) <= Cardinality(new)
      BY <3>10, <3>11, FS_Subset
    <3>14. Cardinality(old) \in Nat /\ Cardinality(new) \in Nat
      BY <3>10, <3>11, FS_CardinalityType
    <3>. QED BY <3>1, <3>8, <3>9, <3>12, <3>13, <3>14 DEF MVWsPerConversion
  <2>. QED BY <2>1, <2>2
<1>10. ASSUME NEW v \in Web, request'[v].at = "issuing"
       PROVE  /\ request'[v].warnings \in Nat
              /\ request'[v].warnings <= Cardinality(WarningsBefore(request[v].who, Len(entries) + 1))'
  <2>1. PICK next : Become(w, next) /\ (next = Idle \/ (ChangeOK(next) /\ next.at = "change"))
    BY IssuedWrites
  <2>2. request'[w] = next /\ OthersWait(w) /\ next.at # "issuing"
    BY <2>1, Becomes, IdleIsFine DEF Sorts
  <2>3. v # w /\ request'[v] = request[v]
    BY <1>10, <2>2 DEF OthersWait
  <2>4. PICK q : q = request[v].who
    OBVIOUS
  <2>5. q # p
    BY <1>2, <1>4, <1>10, <2>3, <2>4 DEF LocksHold, LocksApart, HeldBy
  <2>6. request[v].warnings \in Nat
          /\ request[v].warnings <= Cardinality(WarningsBefore(q, Len(entries) + 1))
    BY <1>10, <2>3, <2>4 DEF LogOK
  <2>. DEFINE old == WarningsBefore(q, Len(entries) + 1)  new == WarningsBefore(q, Len(entries) + 1)'
  <2>7. old \subseteq new
    BY <1>8, <2>5, CountKept
  <2>8. new \subseteq 1..Len(entries')
    BY <1>1 DEF WarningsBefore
  <2>9. WarningsBefore(request[v].who, Len(entries) + 1)' = new
    BY <2>3, <2>4 DEF WarningsBefore, Conversions
  <2>. HIDE DEF old, new
  <2>10. IsFiniteSet(new)
    <3>1. IsFiniteSet(1..Len(entries'))
      BY <1>1, FS_Interval
    <3>. QED BY <2>8, <3>1, FS_Subset
  <2>11. IsFiniteSet(old) /\ Cardinality(old) <= Cardinality(new)
    BY <2>7, <2>10, FS_Subset
  <2>12. Cardinality(old) \in Nat /\ Cardinality(new) \in Nat
    BY <2>10, <2>11, FS_CardinalityType
  <2>13. request[v].warnings <= Cardinality(old)
    BY <2>6 DEF old
  <2>. QED BY <2>3, <2>6, <2>9, <2>11, <2>12, <2>13
<1>11. ASSUME NEW s \in DOMAIN suspensions',
                suspensions'[s].live PROVE ~Corrected(suspensions[s].entry)'
  <2>1. PICK e : e = suspensions'[s].entry
    OBVIOUS
  <2>2. e \in DOMAIN entries' /\ ~(\E c \in DOMAIN entries : entries[c].of = e)
    <3>1. \A s2 \in DOMAIN suspensions : suspensions[s2].entry \in DOMAIN entries
      BY DEF Sorts, EntriesOK
    <3>2. \A c \in DOMAIN entries : entries[c].of < c
      BY DEF Sorts, EntriesOK
    <3>3. CASE s \in DOMAIN suspensions /\ suspensions'[s] = suspensions[s]
      BY <1>8, <1>11, <2>1, <3>1, <3>3 DEF LogOK, Corrected, LogKept
    <3>4. CASE suspensions'[s] = [who |-> request[w].who, entry |-> Len(entries) + 1, live |-> TRUE]
      <4>1. e = n + 1
        BY <2>1, <3>4
      <4>2. \A c \in DOMAIN entries : entries[c].of # n + 1
        BY <1>1, <3>2, Elements DEF EntryRow
      <4>. QED BY <1>8, <4>1, <4>2
    <3>5. \/ suspensions' = suspensions
          \/ suspensions' = Append(suspensions, [who |-> request[w].who, entry |-> Len(entries) + 1,
               live |-> TRUE])
      BY IssuedWrites
    <3>6. CASE suspensions' = suspensions
      BY <3>3, <3>6
    <3>7. CASE suspensions' # suspensions
      <4>. DEFINE row == [who |-> request[w].who, entry |-> Len(entries) + 1, live |-> TRUE]
      <4>1. suspensions' = Append(suspensions, row) /\ suspensions \in Seq(SuspensionRow)
        BY <3>5, <3>7 DEF Sorts, EntriesOK
      <4>2. row \in SuspensionRow
        BY <1>1, <1>2 DEF SuspensionRow
      <4>. HIDE DEF row
      <4>3. /\ suspensions'[Len(suspensions) + 1] = row
            /\ \A i \in DOMAIN suspensions : suspensions'[i] = suspensions[i]
            /\ DOMAIN suspensions' = DOMAIN suspensions \cup {Len(suspensions) + 1}
        BY <4>1, <4>2, SeqAdd
      <4>. QED BY <3>3, <3>4, <4>3 DEF row
    <3>. QED BY <3>5, <3>6, <3>7
  <2>3. ~\E c \in DOMAIN entries' : entries'[c].of = e
    <3>1. e # 0
      BY <1>1, <2>2
    <3>. QED BY <1>8, <2>2, <3>1 DEF LogKept
  <2>. QED BY <2>1, <2>3 DEF Corrected
<1>. QED BY <1>9, <1>10, <1>11 DEF LogOK
LEMMA LogStep ==
    ASSUME Sorts, Sorts', LocksHold, LogOK, [Next]_vars
    PROVE  LogOK'
<1>1. Len(entries) \in Nat /\ DOMAIN entries = 1..Len(entries)
  BY LogIsNumbered
<1>2. /\ \A e \in DOMAIN entries : entries[e] \in EntryRow
      /\ \A s \in DOMAIN suspensions : suspensions[s] \in SuspensionRow
  BY Elements
<1>3. ASSUME NEW w \in Web, Asked(w) PROVE LogOK'
  <2>1. UNCHANGED <<entries, suspensions>> /\ OthersWait(w)
    BY <1>3 DEF Asked, tables, books
  <2>2. LogKept
    BY <2>1 DEF LogKept
  <2>3. \A s \in DOMAIN suspensions' : suspensions'[s].live => ~Corrected(suspensions[s].entry)'
    BY <2>1 DEF LogOK, Corrected
  <2>4. ASSUME NEW v \in Web, request'[v].at = "issuing", request'[v] # request[v]
        PROVE  /\ request'[v].warnings \in Nat
               /\ request'[v].warnings <= Cardinality(WarningsBefore(request'[v].who, Len(entries) + 1))
    <3>1. v = w
      BY <2>1, <2>4 DEF OthersWait
    <3>2. request'[v].warnings = Cardinality(ActiveMVWs(request'[v].who))
      BY <1>3, <2>4, <3>1 DEF Asked
    <3>. QED BY <3>2, ActiveAreGiven
  <2>. QED BY <2>1, <2>2, <2>3, <2>4, QuietLog
<1>4. ASSUME UNCHANGED <<entries, suspensions>>, \A v \in Web : request'[v] = request[v]
               \/ request'[v].at # "issuing"
      PROVE  LogOK'
  <2>1. LogKept
    BY <1>4 DEF LogKept
  <2>2. \A s \in DOMAIN suspensions' : suspensions'[s].live => ~Corrected(suspensions[s].entry)'
    BY <1>4 DEF LogOK, Corrected
  <2>. QED BY <1>4, <2>1, <2>2, QuietLog
<1>5. ASSUME NEW x \in People, NEW e \in DOMAIN entries, CorrectDiscipline(x, e) PROVE LogOK'
  <2>. DEFINE p == entries[e].who
              row == [Entry(p, "correction", -entries[e].points, e) EXCEPT !.live = entries[e].live]
  <2>1. /\ entries' = Append(entries, row) /\ request' = request
        /\ suspensions' = [s \in DOMAIN suspensions |->
              IF suspensions[s].entry = e THEN [suspensions[s] EXCEPT !.live = FALSE]
                   ELSE suspensions[s]]
    BY <1>5 DEF CorrectDiscipline
  <2>2. row.of = e /\ row.kind = "correction"
    BY DEF Entry
  <2>3. row \in EntryRow
    <3>1. p \in People /\ -entries[e].points \in Int /\ entries[e].live \in BOOLEAN
      BY <1>2 DEF EntryRow
    <3>2. level[p] \in 0..TopLevel /\ e \in Nat
      BY <1>1, <3>1, Levels
    <3>. QED BY <3>1, <3>2 DEF Entry, EntryRow
  <2>. HIDE DEF row
  <2>4. /\ entries'[Len(entries) + 1] = row /\ \A i \in DOMAIN entries : entries'[i] = entries[i]
        /\ DOMAIN entries' = DOMAIN entries \cup {Len(entries) + 1}
    BY <2>1, <2>3, SeqAdd DEF Sorts, EntriesOK
  <2>5. LogKept /\ \A i \in DOMAIN entries' : i \in DOMAIN entries \/ entries'[i].kind = "correction"
    BY <2>2, <2>4 DEF LogKept
  <2>6. ASSUME NEW s \in DOMAIN suspensions',
                 suspensions'[s].live PROVE ~Corrected(suspensions[s].entry)'
    <3>1. suspensions[s] \in SuspensionRow
      BY <1>2, <2>1
    <3>2. suspensions[s].entry # e /\ suspensions'[s] = suspensions[s]
      BY <2>1, <2>6, <3>1 DEF SuspensionRow
    <3>3. ~Corrected(suspensions[s].entry)
      BY <2>1, <2>6, <3>2 DEF LogOK
    <3>4. \A c \in DOMAIN entries' : entries'[c].of # suspensions'[s].entry
      BY <2>2, <2>4, <3>2, <3>3 DEF Corrected
    <3>. QED BY <3>4 DEF Corrected
  <2>. QED BY <2>1, <2>5, <2>6, QuietLog
<1>6. ASSUME NEW e \in DOMAIN entries, EntryExpires(e) PROVE LogOK'
  <2>1. /\ entries' = [i \in DOMAIN entries |->
              IF i = e \/ entries[i].of = e THEN [entries[i] EXCEPT !.live = FALSE] ELSE entries[i]]
        /\ UNCHANGED <<suspensions, request>>
    BY <1>6 DEF EntryExpires
  <2>2. LogKept /\ DOMAIN entries' = DOMAIN entries
    BY <1>2, <2>1 DEF LogKept, EntryRow
  <2>3. \A s \in DOMAIN suspensions' : suspensions'[s].live => ~Corrected(suspensions[s].entry)'
    BY <2>1, <2>2 DEF LogOK, Corrected, LogKept
  <2>. QED BY <2>1, <2>2, <2>3, QuietLog
<1>7. ASSUME NEW t \in DOMAIN suspensions, SuspensionEnds(t) PROVE LogOK'
  <2>1. suspensions' = [suspensions EXCEPT ![t].live = FALSE] /\ UNCHANGED <<entries, request>>
    BY <1>7 DEF SuspensionEnds
  <2>2. LogKept
    BY <2>1 DEF LogKept
  <2>3. ASSUME NEW s \in DOMAIN suspensions',
                 suspensions'[s].live PROVE ~Corrected(suspensions[s].entry)'
    <3>1. suspensions[s] \in SuspensionRow /\ s \in DOMAIN suspensions
      BY <1>2, <2>1
    <3>2. suspensions[s].live /\ suspensions'[s].entry = suspensions[s].entry
      BY <2>1, <2>3, <3>1 DEF SuspensionRow
    <3>. QED BY <2>1, <3>1, <3>2 DEF LogOK, Corrected
  <2>. QED BY <2>1, <2>2, <2>3, QuietLog
<1>8. ASSUME NEW w \in Web, Issued(w) PROVE LogOK'
  BY <1>8, IssuedLog
<1>. QED BY <1>3, <1>4, <1>5, <1>6, <1>7, <1>8, LogSteps

LEMMA LogHolds == Spec => []LogOK
<1>1. Init => LogOK
  <2>1. ASSUME Init PROVE LogOK
    <3>1. entries = <<>> /\ suspensions = <<>> /\ \A w \in Web : request[w] = Idle
      BY <2>1 DEF Init
    <3>. QED BY <3>1, IdleIsFine DEF LogOK
  <2>. QED BY <2>1
<1>2. Sorts /\ Sorts' /\ LocksHold /\ LogOK /\ [Next]_vars => LogOK'
  BY LogStep
<1>. QED BY <1>1, <1>2, SortsHold, LocksAlwaysHold, PTL DEF Spec

-----------------------------------------------------------------------------
(* Points add up: sums over finite sets of entries, by the smallest set for  *)
(* which a claim would fail.                                                 *)

\* What the entries of a set come to.
Total(f, S) == MapThenSumSet(LAMBDA x : f[x].points, S)

\* A function that takes a set apart as the sum does.
Any(s) == CHOOSE x \in s : TRUE
Part(f, g, s) == IF s = {} THEN 0 ELSE f[Any(s)].points + g[s \ {Any(s)}]
AddsBelow(f, S, n, g) == g = [s \in {t \in SUBSET S : Cardinality(t) < n} |-> Part(f, g, s)]
Adds(f, S, g) == g = [s \in SUBSET S |-> Part(f, g, s)]

LEMMA LeastNumber ==
    ASSUME NEW T, T \subseteq Nat, T # {}
    PROVE  \E n \in T : \A m \in T : n <= m
<1>1. PICK n \in T : \A m \in T : ~ (<<m, n>> \in OpToRel(<, Nat))
  BY WFMin, NatLessThanWellFounded, Zenon
<1>2. \A m \in T : ~ (m < n)
  BY <1>1, Zenon DEF OpToRel
<1>3. \A m \in T : n <= m
  BY <1>2
<1>. QED BY <1>3, Zenon

\* A set of finite sets has a smallest one.
LEMMA SmallestSet ==
    ASSUME NEW T, T # {}, \A s \in T : IsFiniteSet(s)
    PROVE  \E s \in T : \A t \in T : Cardinality(s) <= Cardinality(t)
<1>. DEFINE N == {Cardinality(s) : s \in T}
<1>1. N \subseteq Nat /\ N # {}
  BY FS_CardinalityType
<1>. HIDE DEF N
<1>2. PICK n \in N : \A m \in N : n <= m
  BY <1>1, LeastNumber
<1>. QED BY <1>2 DEF N

LEMMA AnyIsIn == ASSUME NEW s, s # {} PROVE Any(s) \in s
BY DEF Any

LEMMA TakenOut ==
    ASSUME NEW s, IsFiniteSet(s), NEW x \in s
    PROVE  /\ IsFiniteSet(s \ {x}) /\ Cardinality(s \ {x}) \in Nat /\ Cardinality(s) \in Nat
           /\ Cardinality(s) = Cardinality(s \ {x}) + 1
<1>1. IsFiniteSet(s \ {x}) /\ Cardinality(s \ {x}) = Cardinality(s) - 1
  BY FS_RemoveElement
<1>2. Cardinality(s) \in Nat /\ Cardinality(s \ {x}) \in Nat
  BY <1>1, FS_CardinalityType
<1>. QED BY <1>1, <1>2

\* There is one on the subsets smaller than n, for every n.
LEMMA AddsUpTo ==
    ASSUME NEW f, NEW S, IsFiniteSet(S), NEW n \in Nat
    PROVE  \E g : AddsBelow(f, S, n, g)
<1>. DEFINE Small(k) == {t \in SUBSET S : Cardinality(t) < k}
            Has(k) == \E g : g = [s \in Small(k) |-> Part(f, g, s)]
            Bad == {k \in Nat : ~Has(k)}
<1>1. \A t \in SUBSET S : IsFiniteSet(t) /\ Cardinality(t) \in Nat
  BY FS_Subset, FS_CardinalityType
<1>2. Has(0)
  <2>1. Small(0) = {}
    BY <1>1
  <2>. DEFINE g == [s \in {} |-> 0]
  <2>2. g = [s \in {} |-> Part(f, g, s)]
    OBVIOUS
  <2>. QED BY <2>1, <2>2
<1>3. ASSUME NEW k \in Nat, Has(k) PROVE Has(k + 1)
  <2>1. PICK g : g = [s \in Small(k) |-> Part(f, g, s)]
    BY <1>3
  <2>. DEFINE h == [s \in Small(k + 1) |-> Part(f, g, s)]
  <2>2. ASSUME NEW s \in Small(k + 1) PROVE h[s] = Part(f, h, s)
    <3>1. CASE s = {}
      BY <3>1 DEF Part
    <3>2. CASE s # {}
      <4>. DEFINE t == s \ {Any(s)}
      <4>1. t \in Small(k)
        <5>1. Any(s) \in s /\ IsFiniteSet(s) /\ s \subseteq S /\ Cardinality(s) < k + 1
          BY <1>1, <3>2, AnyIsIn
        <5>2. Cardinality(t) \in Nat /\ Cardinality(s) = Cardinality(t) + 1
          BY <5>1, TakenOut
        <5>3. Cardinality(t) < k /\ t \subseteq S
          BY <5>1, <5>2
        <5>. QED BY <5>3
      <4>2. t \in Small(k + 1)
        BY <1>1, <4>1
      <4>. HIDE DEF Small
      <4>3. g[t] = Part(f, g, t) /\ h[t] = Part(f, g, t)
        BY <2>1, <4>1, <4>2
      <4>. QED BY <3>2, <4>3 DEF Part
    <3>. QED BY <3>1, <3>2
  <2>3. h = [s \in Small(k + 1) |-> Part(f, h, s)]
    BY <2>2
  <2>. QED BY <2>3
<1>4. Bad = {}
  <2>1. SUFFICES ASSUME Bad # {} PROVE FALSE
    OBVIOUS
  <2>2. Bad \subseteq Nat
    OBVIOUS
  <2>. HIDE DEF Has
  <2>3. PICK k \in Bad : \A m \in Bad : k <= m
    <3>. HIDE DEF Bad
    <3>. QED BY <2>1, <2>2, LeastNumber
  <2>4. k # 0 /\ k \in Nat
    BY <1>2
  <2>5. k - 1 \in Nat /\ k - 1 \notin Bad
    BY <2>3, <2>4
  <2>6. Has((k - 1) + 1)
    BY <1>3, <2>5
  <2>7. (k - 1) + 1 = k
    BY <2>4
  <2>. QED BY <2>6, <2>7
<1>5. Has(n)
  BY <1>4
<1>. QED BY <1>5 DEF AddsBelow

LEMMA AddsExists ==
    ASSUME NEW f, NEW S, IsFiniteSet(S)
    PROVE  \E g : Adds(f, S, g)
<1>. DEFINE n == Cardinality(S) + 1
<1>1. n \in Nat
  BY FS_CardinalityType
<1>2. {t \in SUBSET S : Cardinality(t) < n} = SUBSET S
  <2>1. \A t \in SUBSET S : Cardinality(t) <= Cardinality(S) /\ Cardinality(t) \in Nat
          /\ Cardinality(S) \in Nat
    BY FS_Subset, FS_CardinalityType
  <2>. QED BY <2>1
<1>. HIDE DEF n
<1>3. PICK g : AddsBelow(f, S, n, g)
  BY <1>1, AddsUpTo
<1>4. g = [s \in SUBSET S |-> Part(f, g, s)]
  BY <1>2, <1>3 DEF AddsBelow
<1>. QED BY <1>4 DEF Adds

\* They agree where they overlap.
LEMMA AddsAgree ==
    ASSUME NEW f, NEW S, NEW g, NEW R, NEW h, IsFiniteSet(S), Adds(f, S, g), Adds(f, R, h)
    PROVE  \A s \in (SUBSET S) \cap (SUBSET R) : g[s] = h[s]
<1>. DEFINE Bad == {s \in (SUBSET S) \cap (SUBSET R) : g[s] # h[s]}
<1>1. \A s \in Bad : IsFiniteSet(s)
  BY FS_Subset
<1>2. SUFFICES ASSUME Bad # {} PROVE FALSE
  OBVIOUS
<1>3. PICK s \in Bad : \A t \in Bad : Cardinality(s) <= Cardinality(t)
  <2>. HIDE DEF Bad
  <2>. QED BY <1>1, <1>2, SmallestSet
<1>4. s \subseteq S /\ s \subseteq R /\ g[s] = Part(f, g, s) /\ h[s] = Part(f, h, s)
  BY DEF Adds
<1>5. s # {}
  BY <1>4 DEF Part
<1>. DEFINE t == s \ {Any(s)}
<1>6. Cardinality(t) \in Nat /\ Cardinality(s) = Cardinality(t) + 1
  BY <1>1, <1>5, AnyIsIn, TakenOut
<1>7. t \notin Bad
  <2>. HIDE DEF Bad, t
  <2>. QED BY <1>3, <1>6
<1>8. g[t] = h[t]
  BY <1>4, <1>7
<1>. QED BY <1>4, <1>5, <1>8 DEF Part

LEMMA TotalIs ==
    ASSUME NEW f, NEW S, IsFiniteSet(S), NEW g, Adds(f, S, g), NEW s \in SUBSET S
    PROVE  Total(f, s) = g[s]
<1>1. PICK h : h = CHOOSE k : Adds(f, s, k)
  OBVIOUS
<1>2. Total(f, s) = h[s]
  BY <1>1 DEF Total, MapThenSumSet, MapThenFoldSet, Adds, Any, Part
<1>3. IsFiniteSet(s)
  BY FS_Subset
<1>4. Adds(f, s, h)
  BY <1>1, <1>3, AddsExists
<1>5. s \in (SUBSET S) \cap (SUBSET s)
  OBVIOUS
<1>. QED BY <1>2, <1>4, <1>5, AddsAgree

LEMMA TotalEmpty == ASSUME NEW f PROVE Total(f, {}) = 0
<1>1. IsFiniteSet({})
  BY FS_EmptySet
<1>2. PICK g : Adds(f, {}, g)
  BY <1>1, AddsExists
<1>3. Total(f, {}) = g[{}]
  BY <1>1, <1>2, TotalIs
<1>4. g[{}] = 0
  BY <1>2 DEF Adds, Part
<1>. QED BY <1>3, <1>4

\* As the sum takes a set apart.
LEMMA TotalPart ==
    ASSUME NEW f, NEW S, IsFiniteSet(S), S # {}
    PROVE  Total(f, S) = f[Any(S)].points + Total(f, S \ {Any(S)})
<1>1. PICK g : Adds(f, S, g)
  BY AddsExists
<1>2. S \in SUBSET S /\ S \ {Any(S)} \in SUBSET S
  OBVIOUS
<1>3. Total(f, S) = g[S] /\ Total(f, S \ {Any(S)}) = g[S \ {Any(S)}]
  BY <1>1, <1>2, TotalIs
<1>4. g[S] = Part(f, g, S)
  BY <1>1, <1>2 DEF Adds
<1>. QED BY <1>3, <1>4 DEF Part

LEMMA TotalInt ==
    ASSUME NEW f, NEW S, IsFiniteSet(S), \A x \in S : f[x].points \in Int
    PROVE  Total(f, S) \in Int
<1>. DEFINE Bad == {s \in SUBSET S : Total(f, s) \notin Int}
<1>1. \A s \in Bad : IsFiniteSet(s)
  BY FS_Subset
<1>2. SUFFICES ASSUME Bad # {} PROVE FALSE
  OBVIOUS
<1>3. PICK s \in Bad : \A t \in Bad : Cardinality(s) <= Cardinality(t)
  <2>. HIDE DEF Bad
  <2>. QED BY <1>1, <1>2, SmallestSet
<1>4. s # {}
  <2>1. Total(f, {}) = 0
    BY TotalEmpty
  <2>2. Total(f, s) \notin Int
    OBVIOUS
  <2>. QED BY <2>1, <2>2
<1>. DEFINE t == s \ {Any(s)}
<1>5. Any(s) \in s /\ IsFiniteSet(s) /\ s \subseteq S
  BY <1>1, <1>4, AnyIsIn
<1>6. Cardinality(t) \in Nat /\ Cardinality(s) = Cardinality(t) + 1
  BY <1>5, TakenOut
<1>7. Total(f, t) \in Int
  BY <1>3, <1>5, <1>6
<1>8. Total(f, s) = f[Any(s)].points + Total(f, t)
  BY <1>4, <1>5, TotalPart
<1>9. f[Any(s)].points \in Int
  BY <1>5
<1>. QED BY <1>7, <1>8, <1>9

\* In whatever order.
LEMMA TotalWithout ==
    ASSUME NEW f, NEW S, IsFiniteSet(S), \A x \in S : f[x].points \in Int, NEW x \in S
    PROVE  Total(f, S) = f[x].points + Total(f, S \ {x})
<1>. DEFINE Fine(s) == \A y \in s : Total(f, s) = f[y].points + Total(f, s \ {y})
            Bad == {s \in SUBSET S : ~Fine(s)}
<1>1. \A s \in Bad : IsFiniteSet(s)
  BY FS_Subset
<1>2. SUFFICES ASSUME Bad # {} PROVE FALSE
  OBVIOUS
<1>3. PICK s \in Bad : \A t \in Bad : Cardinality(s) <= Cardinality(t)
  <2>. HIDE DEF Bad
  <2>. QED BY <1>1, <1>2, SmallestSet
<1>4. s \subseteq S /\ IsFiniteSet(s) /\ ~Fine(s)
  BY <1>1
<1>5. PICK y \in s : Total(f, s) # f[y].points + Total(f, s \ {y})
  BY <1>4
<1>. DEFINE c == Any(s)
<1>6. c \in s /\ Total(f, s) = f[c].points + Total(f, s \ {c})
  BY <1>4, AnyIsIn, TotalPart
<1>. HIDE DEF c
<1>7. y # c
  BY <1>5, <1>6
<1>8. ASSUME NEW z \in s PROVE Fine(s \ {z})
  <2>1. Cardinality(s \ {z}) \in Nat /\ Cardinality(s) = Cardinality(s \ {z}) + 1
    BY <1>4, TakenOut
  <2>2. s \ {z} \notin Bad
    <3>. HIDE DEF Bad
    <3>. QED BY <1>3, <2>1
  <2>. QED BY <1>4, <2>2
<1>9. Total(f, s \ {c}) = f[y].points + Total(f, (s \ {c}) \ {y})
        /\ Total(f, s \ {y}) = f[c].points + Total(f, (s \ {y}) \ {c})
  BY <1>6, <1>7, <1>8
<1>10. Total(f, (s \ {c}) \ {y}) = Total(f, (s \ {y}) \ {c})
  <2>1. (s \ {c}) \ {y} = (s \ {y}) \ {c}
    OBVIOUS
  <2>. QED BY <2>1
<1>11. f[y].points \in Int /\ f[c].points \in Int
  BY <1>4, <1>6
<1>12. Total(f, (s \ {c}) \ {y}) \in Int
  <2>1. IsFiniteSet((s \ {c}) \ {y}) /\ (s \ {c}) \ {y} \subseteq S
    BY <1>4, FS_Subset
  <2>. QED BY <2>1, TotalInt
<1>. QED BY <1>5, <1>6, <1>9, <1>10, <1>11, <1>12

\* What the log says of corrections.
CorrectionsOK ==
    /\ \A e \in DOMAIN entries : entries[e].kind # "correction" => entries[e].points \in Nat
         /\ entries[e].of = 0
    /\ \A c \in DOMAIN entries : entries[c].kind = "correction" =>
          LET e == entries[c].of IN
          /\ e \in DOMAIN entries /\ entries[e].kind # "correction" /\ entries[e].who = entries[c].who
          /\ entries[c].points = -entries[e].points /\ entries[c].live = entries[e].live
    /\ \A c, d \in DOMAIN entries :
          entries[c].kind = "correction" /\ entries[d].kind = "correction"
            /\ entries[c].of = entries[d].of => c = d

\* With every entry its correction, and with every correction its entry.
Closed(s) ==
    \A c \in DOMAIN entries : entries[c].kind = "correction" => (c \in s <=> entries[c].of \in s)

LEMMA ClosedAddsUp ==
    ASSUME Sorts, CorrectionsOK, NEW S \in SUBSET DOMAIN entries, Closed(S)
    PROVE  Total(entries, S) >= 0
<1>. DEFINE Bad == {s \in SUBSET DOMAIN entries : Closed(s) /\ ~(Total(entries, s) >= 0)}
<1>0. IsFiniteSet(DOMAIN entries) /\ \A e \in DOMAIN entries : entries[e].points \in Int
  <2>1. Len(entries) \in Nat /\ DOMAIN entries = 1..Len(entries)
    BY LogIsNumbered
  <2>2. IsFiniteSet(1..Len(entries))
    BY <2>1, FS_Interval
  <2>. QED BY <2>1, <2>2, Elements DEF EntryRow
<1>1. \A s \in Bad : IsFiniteSet(s)
  BY <1>0, FS_Subset
<1>2. SUFFICES ASSUME Bad # {} PROVE FALSE
  OBVIOUS
<1>3. PICK s \in Bad : \A t \in Bad : Cardinality(s) <= Cardinality(t)
  <2>. HIDE DEF Bad
  <2>. QED BY <1>1, <1>2, SmallestSet
<1>4. s \subseteq DOMAIN entries /\ IsFiniteSet(s) /\ Closed(s) /\ ~(Total(entries, s) >= 0)
  BY <1>1
<1>5. ASSUME NEW t \in SUBSET DOMAIN entries, Cardinality(t) \in Nat, Cardinality(s) \in Nat,
             Cardinality(t) < Cardinality(s), Closed(t)
      PROVE  Total(entries, t) >= 0
  <2>1. t \notin Bad
    <3>. HIDE DEF Bad
    <3>. QED BY <1>3, <1>5
  <2>. QED BY <1>5, <2>1
<1>6. s # {}
  <2>1. Total(entries, {}) = 0
    BY TotalEmpty
  <2>. QED BY <1>4, <2>1
<1>7. \A x \in s : entries[x].points \in Int
  BY <1>0, <1>4
<1>8. ASSUME NEW c \in s, entries[c].kind = "correction" PROVE FALSE
  <2>. DEFINE e == entries[c].of  t == (s \ {c}) \ {e}
  <2>1. /\ e \in s /\ entries[e].kind # "correction" /\ entries[c].points = -entries[e].points
    BY <1>4, <1>8 DEF Closed, CorrectionsOK
  <2>2. e # c
    BY <1>8, <2>1
  <2>. HIDE DEF e
  <2>3. Total(entries, s) = entries[c].points + Total(entries, s \ {c})
    BY <1>4, <1>7, TotalWithout
  <2>4. IsFiniteSet(s \ {c}) /\ e \in s \ {c} /\ \A x \in s \ {c} : entries[x].points \in Int
    BY <1>4, <1>7, <2>1, <2>2, FS_Subset
  <2>5. Total(entries, s \ {c}) = entries[e].points + Total(entries, t)
    BY <2>4, TotalWithout
  <2>6. /\ Cardinality(t) \in Nat /\ Cardinality(s) \in Nat /\ Cardinality(t) < Cardinality(s)
    <3>1. /\ Cardinality(s \ {c}) \in Nat /\ Cardinality(s) \in Nat
               /\ Cardinality(s) = Cardinality(s \ {c}) + 1
      BY <1>4, TakenOut
    <3>2. Cardinality(t) \in Nat /\ Cardinality(s \ {c}) = Cardinality(t) + 1
      BY <2>4, TakenOut
    <3>. QED BY <3>1, <3>2
  <2>7. Closed(t)
    <3>1. ASSUME NEW d \in DOMAIN entries, entries[d].kind = "correction"
          PROVE  d \in t <=> entries[d].of \in t
      <4>1. d \in s <=> entries[d].of \in s
        BY <1>4, <3>1 DEF Closed
      <4>2. entries[d].of = e <=> d = c
        BY <1>4, <1>8, <3>1 DEF CorrectionsOK, e
      <4>3. d # e
        BY <2>1, <3>1
      <4>4. entries[d].of # c
        BY <1>8, <3>1 DEF CorrectionsOK
      <4>. QED BY <4>1, <4>2, <4>3, <4>4
    <3>. QED BY <3>1 DEF Closed
  <2>8. Total(entries, t) >= 0
    BY <1>4, <1>5, <2>6, <2>7
  <2>9. Total(entries, t) \in Int
    <3>1. IsFiniteSet(t) /\ \A x \in t : entries[x].points \in Int
      BY <2>4, FS_Subset
    <3>. QED BY <3>1, TotalInt
  <2>10. entries[e].points \in Int
    BY <1>7, <2>1
  <2>. QED BY <1>4, <2>1, <2>3, <2>5, <2>8, <2>9, <2>10
<1>9. ASSUME NEW e \in s PROVE FALSE
  <2>. DEFINE t == s \ {e}
  <2>1. entries[e].kind # "correction" /\ entries[e].points \in Nat
    BY <1>4, <1>8, <1>9 DEF CorrectionsOK
  <2>2. Total(entries, s) = entries[e].points + Total(entries, t)
    BY <1>4, <1>7, TotalWithout
  <2>3. Cardinality(t) \in Nat /\ Cardinality(s) \in Nat /\ Cardinality(t) < Cardinality(s)
    <3>1. Cardinality(t) \in Nat /\ Cardinality(s) \in Nat /\ Cardinality(s) = Cardinality(t) + 1
      BY <1>4, TakenOut
    <3>. HIDE DEF t
    <3>. QED BY <3>1
  <2>4. Closed(t)
    <3>1. ASSUME NEW d \in DOMAIN entries, entries[d].kind = "correction"
          PROVE  d \notin s /\ entries[d].of \notin s
      BY <1>4, <1>8, <3>1 DEF Closed
    <3>. QED BY <3>1 DEF Closed
  <2>5. Total(entries, t) >= 0
    BY <1>4, <1>5, <2>3, <2>4
  <2>6. Total(entries, t) \in Int
    <3>1. IsFiniteSet(t) /\ \A x \in t : entries[x].points \in Int
      BY <1>4, <1>7, FS_Subset
    <3>. QED BY <3>1, TotalInt
  <2>. QED BY <1>4, <2>1, <2>2, <2>5, <2>6
<1>. QED BY <1>6, <1>9

LEMMA PointsAddUp ==
    ASSUME Sorts, CorrectionsOK, NEW p \in People
    PROVE  ActivePoints(p) >= 0
<1>. DEFINE S == {e \in DOMAIN entries : entries[e].who = p /\ entries[e].live}
<1>1. ActivePoints(p) = Total(entries, S)
  BY DEF ActivePoints, Total
<1>2. Closed(S)
  BY DEF Closed, CorrectionsOK
<1>. QED BY <1>1, <1>2, ClosedAddsUp

LEMMA CorrectionsStep ==
    ASSUME Sorts, Sorts', CorrectionsOK, [Next]_vars
    PROVE  CorrectionsOK'
<1>1. entries \in Seq(EntryRow) /\ Len(entries) \in Nat /\ DOMAIN entries = 1..Len(entries)
      /\ \A e \in DOMAIN entries : entries[e] \in EntryRow
  BY LogIsNumbered, Elements DEF Sorts, EntriesOK
<1>2. CASE entries' = entries
  BY <1>2 DEF CorrectionsOK
<1>3. ASSUME NEW w \in Web, Issued(w) PROVE CorrectionsOK'
  <2>1. PICK p \in People : p = request[w].who
    BY <1>3, IssuedWrites
  <2>2. PICK points \in Points \cup {0} : points = request[w].points
    BY <1>3, IssuedWrites
  <2>. DEFINE one == Given(p, points)  two == Conversion(p)  first == Append(entries, one)
  <2>3. entries' = first \/ entries' = Append(first, two)
    BY <1>3, <2>1, <2>2, IssuedWrites
  <2>4. /\ one \in EntryRow /\ two \in EntryRow /\ one.of = 0 /\ two.of = 0
        /\ one.kind # "correction" /\ two.kind # "correction"
    BY EntriesGiven DEF Given, Conversion, Entry
  <2>5. one.points \in Nat /\ two.points \in Nat
    BY FactionsAssumption DEF Given, Conversion, Entry, MVWConversionPoints
  <2>. HIDE DEF one, two
  <2>6. /\ first \in Seq(EntryRow) /\ first[Len(entries) + 1] = one
        /\ \A e \in DOMAIN entries : first[e] = entries[e]
        /\ DOMAIN first = DOMAIN entries \cup {Len(entries) + 1}
    BY <1>1, <2>4, SeqAdd
  <2>. HIDE DEF first
  <2>7. \A e \in DOMAIN entries' : \/ e \in DOMAIN entries /\ entries'[e] = entries[e]
                                   \/ entries'[e] = one \/ entries'[e] = two
    <3>1. CASE entries' = first
      BY <2>6, <3>1
    <3>2. CASE entries' = Append(first, two)
      <4>1. /\ entries'[Len(first) + 1] = two /\ \A e \in DOMAIN first : entries'[e] = first[e]
            /\ DOMAIN entries' = DOMAIN first \cup {Len(first) + 1}
        BY <2>4, <2>6, <3>2, SeqAdd
      <4>. QED BY <2>6, <4>1
    <3>. QED BY <2>3, <3>1, <3>2
  <2>8. \A e \in DOMAIN entries : e \in DOMAIN entries' /\ entries'[e] = entries[e]
    <3>1. CASE entries' = first
      BY <2>6, <3>1
    <3>2. CASE entries' = Append(first, two)
      <4>1. /\ \A e \in DOMAIN first : entries'[e] = first[e]
            /\ DOMAIN entries' = DOMAIN first \cup {Len(first) + 1}
        BY <2>4, <2>6, <3>2, SeqAdd
      <4>. QED BY <2>6, <4>1
    <3>. QED BY <2>3, <3>1, <3>2
  <2>9. \A c \in DOMAIN entries' : entries'[c].kind = "correction" => c \in DOMAIN entries
          /\ entries'[c] = entries[c]
    BY <2>4, <2>7
  <2>10. \A e \in DOMAIN entries' : entries'[e].kind # "correction" => entries'[e].points \in Nat
           /\ entries'[e].of = 0
    BY <2>4, <2>5, <2>7 DEF CorrectionsOK
  <2>. QED BY <2>8, <2>9, <2>10 DEF CorrectionsOK
<1>4. ASSUME NEW x \in People, NEW e \in DOMAIN entries, CorrectDiscipline(x, e) PROVE CorrectionsOK'
  <2>. DEFINE p == entries[e].who
              row == [Entry(p, "correction", -entries[e].points, e) EXCEPT !.live = entries[e].live]
  <2>1. entries' = Append(entries, row) /\ entries[e].kind # "correction" /\ ~Corrected(e)
    BY <1>4 DEF CorrectDiscipline, Correctable
  <2>2. /\ row.of = e /\ row.kind = "correction" /\ row.who = p /\ row.points = -entries[e].points
        /\ row.live = entries[e].live
    BY DEF Entry
  <2>3. row \in EntryRow
    <3>1. p \in People /\ -entries[e].points \in Int /\ entries[e].live \in BOOLEAN
      BY <1>1 DEF EntryRow
    <3>2. level[p] \in 0..TopLevel /\ e \in Nat
      BY <1>1, <3>1, Levels
    <3>. QED BY <3>1, <3>2 DEF Entry, EntryRow
  <2>. HIDE DEF row
  <2>4. /\ entries'[Len(entries) + 1] = row /\ \A i \in DOMAIN entries : entries'[i] = entries[i]
        /\ DOMAIN entries' = DOMAIN entries \cup {Len(entries) + 1}
             /\ Len(entries) + 1 \notin DOMAIN entries
    BY <1>1, <2>1, <2>3, SeqAdd
  <2>5. \A i \in DOMAIN entries' : entries'[i].kind # "correction" => entries'[i].points \in Nat
          /\ entries'[i].of = 0
    BY <2>2, <2>4 DEF CorrectionsOK
  <2>6. ASSUME NEW c \in DOMAIN entries', entries'[c].kind = "correction"
        PROVE  /\ entries'[c].of \in DOMAIN entries' /\ entries'[entries'[c].of].kind # "correction"
               /\ entries'[entries'[c].of].who = entries'[c].who
               /\ entries'[c].points = -entries'[entries'[c].of].points
               /\ entries'[c].live = entries'[entries'[c].of].live
    <3>1. CASE c \in DOMAIN entries
      BY <2>4, <2>6, <3>1 DEF CorrectionsOK
    <3>2. CASE c = Len(entries) + 1
      BY <2>1, <2>2, <2>4, <3>2
    <3>. QED BY <2>4, <3>1, <3>2
  <2>7. \A c \in DOMAIN entries : entries'[c].of # e
    BY <2>1, <2>4 DEF Corrected
  <2>8. \A c, d \in DOMAIN entries' :
           entries'[c].kind = "correction" /\ entries'[d].kind = "correction"
             /\ entries'[c].of = entries'[d].of => c = d
    BY <2>2, <2>4, <2>7 DEF CorrectionsOK
  <2>. QED BY <2>5, <2>6, <2>8 DEF CorrectionsOK
<1>5. ASSUME NEW e \in DOMAIN entries, EntryExpires(e) PROVE CorrectionsOK'
  <2>1. /\ entries' = [i \in DOMAIN entries |->
              IF i = e \/ entries[i].of = e THEN [entries[i] EXCEPT !.live = FALSE] ELSE entries[i]]
        /\ entries[e].of = 0
    BY <1>5 DEF EntryExpires
  <2>2. DOMAIN entries' = DOMAIN entries
    BY <2>1
  <2>3. \A i \in DOMAIN entries : /\ entries'[i].who = entries[i].who
          /\ entries'[i].kind = entries[i].kind
                                  /\ entries'[i].of = entries[i].of
                                       /\ entries'[i].points = entries[i].points
                                  /\ entries'[i].live = IF i = e
                                       \/ entries[i].of = e THEN FALSE ELSE entries[i].live
    BY <1>1, <2>1 DEF EntryRow
  <2>4. e # 0
    BY <1>1
  <2>5. ASSUME NEW c \in DOMAIN entries, entries[c].kind = "correction"
        PROVE  entries'[c].live = entries'[entries[c].of].live
    <3>1. /\ entries[c].of \in DOMAIN entries /\ entries[entries[c].of].kind # "correction"
          /\ entries[c].live = entries[entries[c].of].live
      BY <2>5 DEF CorrectionsOK
    <3>2. entries[entries[c].of].of = 0 /\ c # e
      BY <1>1, <2>1, <3>1 DEF CorrectionsOK
    <3>3. entries'[entries[c].of].live = IF entries[c].of = e THEN FALSE
            ELSE entries[entries[c].of].live
      BY <2>3, <2>4, <3>1, <3>2
    <3>4. entries'[c].live = IF entries[c].of = e THEN FALSE ELSE entries[c].live
      BY <2>3, <3>2
    <3>. QED BY <3>1, <3>3, <3>4
  <2>6. \A i \in DOMAIN entries : entries'[i].kind # "correction" => entries'[i].points \in Nat
          /\ entries'[i].of = 0
    BY <2>3 DEF CorrectionsOK
  <2>7. \A c, d \in DOMAIN entries :
           entries'[c].kind = "correction" /\ entries'[d].kind = "correction"
             /\ entries'[c].of = entries'[d].of => c = d
    <3>1. \A c \in DOMAIN entries : entries'[c].kind = entries[c].kind /\ entries'[c].of = entries[c].of
      BY <2>3
    <3>. QED BY <3>1 DEF CorrectionsOK
  <2>8. ASSUME NEW c \in DOMAIN entries, entries'[c].kind = "correction"
        PROVE  /\ entries'[c].of \in DOMAIN entries /\ entries'[entries'[c].of].kind # "correction"
               /\ entries'[entries'[c].of].who = entries'[c].who
               /\ entries'[c].points = -entries'[entries'[c].of].points
               /\ entries'[c].live = entries'[entries'[c].of].live
    <3>1. entries[c].kind = "correction" /\ entries'[c].of = entries[c].of
      BY <2>3, <2>8
    <3>2. /\ entries[c].of \in DOMAIN entries /\ entries[entries[c].of].kind # "correction"
          /\ entries[entries[c].of].who = entries[c].who
               /\ entries[c].points = -entries[entries[c].of].points
      BY <3>1 DEF CorrectionsOK
    <3>3. entries'[c].live = entries'[entries[c].of].live
      BY <2>5, <3>1
    <3>. QED BY <2>3, <3>1, <3>2, <3>3
  <2>. QED BY <2>2, <2>6, <2>7, <2>8 DEF CorrectionsOK
<1>6. ASSUME NEW w \in Web, Asked(w) PROVE entries' = entries
  BY <1>6 DEF Asked, tables, books
<1>7. ASSUME NEW t \in DOMAIN suspensions, SuspensionEnds(t) PROVE entries' = entries
  BY <1>7 DEF SuspensionEnds
<1>. QED BY <1>2, <1>3, <1>4, <1>5, <1>6, <1>7, LogSteps

\* Discipline adds up: every warning counts once, corrections never take more than was
\* given, and a corrected entry suspends nobody.
THEOREM DisciplineKept == Spec => []DisciplineAddsUp
<1>1. Init => CorrectionsOK
  BY DEF Init, CorrectionsOK
<1>2. Sorts /\ Sorts' /\ CorrectionsOK /\ [Next]_vars => CorrectionsOK'
  BY CorrectionsStep
<1>3. Spec => []CorrectionsOK
  BY <1>1, <1>2, SortsHold, PTL DEF Spec
<1>4. Sorts /\ LogOK /\ CorrectionsOK => DisciplineAddsUp
  <2>1. LogOK => WarningsCountOnce
    BY DEF LogOK, WarningsCountOnce, WarningsBefore
  <2>. QED BY <2>1, SortsMeansTypes, PointsAddUp DEF LogOK, LogAddsUp, DisciplineAddsUp
<1>. QED BY <1>3, <1>4, SortsHold, LogHolds, PTL
====
