--------------------------- MODULE CaseworkProofs ---------------------------
(***************************************************************************)
(* Proofs about Casework, for any players, staff, requests and numbers of  *)
(* cases, awards, bans and appeals: the timeline of every case and the     *)
(* staff log tell what the code writes to each, once; a case holds one     *)
(* running ban of a player and a ban one open appeal; an accepted appeal   *)
(* has lifted its ban; nobody is punished from a closed case; Discord      *)
(* follows the bans.                                                       *)
(***************************************************************************)
EXTENDS Casework, FiniteSetTheorems, SequenceTheorems, TLAPS

-----------------------------------------------------------------------------
(* The inductive invariant.                                                  *)

CaseRow == [status : {"open", "closed"}, flag : Flags \cup {None}, players : Nat]
AwardRow(C) == [case : C, player : Players, revoked : BOOLEAN]
BanRow(C) == [case : C \cup {None}, player : Players, by : Staff, scope : {"game", "game_discord"},
              timed : BOOLEAN, state : {"active", "lifted", "ended"}]
AppealRow(B) == [ban : B, status : {"open", "accepted", "rejected"}]

\* The tables have their columns, and refer to rows there are.
Tables ==
    /\ cases \in Seq(CaseRow)
    /\ awards \in Seq(AwardRow(DOMAIN cases))
    /\ bans \in Seq(BanRow(DOMAIN cases))
    /\ appeals \in Seq(AppealRow(DOMAIN bans))
    /\ timeline \in [1..MaxCases -> [Kinds -> Nat]]
    /\ logged \in [Actions -> Nat]
    /\ Len(cases) <= MaxCases /\ Len(bans) <= MaxBans

\* What the other variables hold.
Others ==
    /\ people \subseteq (DOMAIN cases) \X Players \X (Roles \cup {"subject"})
    /\ flags \in [Flags -> {"open", "dismiss", "watch", "case"}]
    /\ notices \in [Players -> Nat]
    /\ discord \subseteq Linked
    /\ extension \in Players \cup {None}
    /\ offered \in Scenarios

\* A case there is not yet has no timeline.
Blank == \A c \in (1..MaxCases) \ DOMAIN cases, k \in Kinds : timeline[c][k] = 0

\* What a request refers to is there.
Refers ==
    \A w \in Web :
        /\ request[w].at \in {"asked", "banning"} => request[w].case \in DOMAIN cases
        /\ request[w].at = "appealing" => request[w].ban \in DOMAIN bans

\* Who holds the lock of a case has found it open and without a ban for the player,
\* and it stays so.
LockHolds ==
    \A w \in Web : request[w].at = "banning" =>
        /\ \A v \in Web : request[v].at = "banning" /\ request[v].case = request[w].case => v = w
        /\ cases[request[w].case].status = "open"
        /\ \A b \in DOMAIN bans :
              ~(Active(b) /\ bans[b].case = request[w].case /\ bans[b].player = request[w].player)

\* What Discord is told follows a ban, or a lift.
Tells ==
    \A w \in Web : request[w].at = "telling" =>
        \E b \in DiscordBans(request[w].player) : request[w].lift => bans[b].state = "lifted"

\* OneFromEachCase, of two bans and of two appeals.
OneBan ==
    \A b, d \in DOMAIN bans :
        /\ Active(b) /\ Active(d) /\ bans[b].case # None
        /\ bans[b].case = bans[d].case /\ bans[b].player = bans[d].player
        => b = d
OneAppeal ==
    \A a, e \in DOMAIN appeals :
        /\ appeals[a].status = "open" /\ appeals[e].status = "open"
        /\ appeals[a].ban = appeals[e].ban
        => a = e

\* What the tables tell together.
Records == Tables /\ Blank /\ TimelineComplete /\ LogComplete

\* Who takes part in the cases.
Taking == IsFiniteSet(people) /\ PeopleComplete

Inductive ==
    /\ Records /\ Others /\ request \in [Web -> Requests] /\ Taking /\ ReviewsLogged
    /\ Refers /\ LockHolds /\ Tells /\ OneBan /\ OneAppeal /\ AppealsHonoured

-----------------------------------------------------------------------------
(* Constants.                                                                *)

LEMMA NoneIsNoNumber == None \notin Nat /\ None \notin Players /\ None \notin Flags
BY CaseworkAssumption

LEMMA BoundsType == MaxCases \in Nat /\ MaxBans \in Nat
BY CaseworkAssumption

LEMMA StaffArePlayers == Staff \subseteq Players /\ Linked \subseteq Players
BY CaseworkAssumption

\* The row of a case that is opened.
NewCase(subjects, f) == [status |-> "open", flag |-> f, players |-> Cardinality(subjects)]

LEMMA NewCaseRow ==
    ASSUME NEW subjects \in SUBSET Players, NEW f \in Flags \cup {None}
    PROVE  NewCase(subjects, f) \in CaseRow
<1>1. Cardinality(subjects) \in Nat
  BY CaseworkAssumption, FS_Subset, FS_CardinalityType
<1>. QED BY <1>1 DEF NewCase, CaseRow

-----------------------------------------------------------------------------
(* Rows of a table, and counting them.                                       *)

LEMMA AddRow ==
    ASSUME NEW S, NEW s \in Seq(S), NEW x \in S
    PROVE  /\ Append(s, x) \in Seq(S) /\ Len(Append(s, x)) = Len(s) + 1
           /\ DOMAIN Append(s, x) = DOMAIN s \cup {Len(s) + 1} /\ Len(s) + 1 \notin DOMAIN s
           /\ Append(s, x)[Len(s) + 1] = x
           /\ \A i \in DOMAIN s : Append(s, x)[i] = s[i]
OBVIOUS

LEMMA ChangeRow ==
    ASSUME NEW S, NEW s \in Seq(S), NEW i \in DOMAIN s, NEW x \in S
    PROVE  /\ [s EXCEPT ![i] = x] \in Seq(S) /\ Len([s EXCEPT ![i] = x]) = Len(s)
           /\ DOMAIN [s EXCEPT ![i] = x] = DOMAIN s
           /\ [s EXCEPT ![i] = x][i] = x
           /\ \A j \in DOMAIN s \ {i} : [s EXCEPT ![i] = x][j] = s[j]
<1>1. i \in 1..Len(s) /\ DOMAIN s = 1..Len(s)
  OBVIOUS
<1>2. [s EXCEPT ![i] = x] \in Seq(S) /\ Len([s EXCEPT ![i] = x]) = Len(s)
  BY <1>1, ExceptSeq
<1>. QED BY <1>1, <1>2

LEMMA Widen ==
    ASSUME NEW S, NEW T, S \subseteq T, NEW s \in Seq(S)
    PROVE  s \in Seq(T)
OBVIOUS

\* A set of row numbers is finite, and one row more counts one more.
LEMMA RowsFinite ==
    ASSUME NEW S, NEW s \in Seq(S), NEW R \in SUBSET DOMAIN s
    PROVE  IsFiniteSet(R) /\ Count(R) \in Nat
<1>1. DOMAIN s = 1..Len(s) /\ Len(s) \in Nat
  OBVIOUS
<1>2. IsFiniteSet(DOMAIN s)
  BY <1>1, FS_Interval
<1>. QED BY <1>2, FS_Subset, FS_CardinalityType DEF Count

LEMMA OneMore ==
    ASSUME NEW S, NEW s \in Seq(S), NEW R \in SUBSET DOMAIN s, NEW i, i \notin R
    PROVE  Count(R \cup {i}) = Count(R) + 1
BY RowsFinite, FS_AddElement DEF Count

LEMMA OneLess ==
    ASSUME NEW S, NEW s \in Seq(S), NEW R \in SUBSET DOMAIN s, NEW i \in R
    PROVE  Count(R \ {i}) = Count(R) - 1
BY RowsFinite, FS_RemoveElement DEF Count

LEMMA CountFlag == \A f : Count({f} \ {None}) = IF f = None THEN 0 ELSE 1
<1>. SUFFICES ASSUME NEW f PROVE Count({f} \ {None}) = IF f = None THEN 0 ELSE 1
  OBVIOUS
<1>1. CASE f = None
  <2>1. {f} \ {None} = {}
    BY <1>1
  <2>. QED BY <1>1, <2>1, FS_EmptySet DEF Count
<1>2. CASE f # None
  <2>1. {f} \ {None} = {f}
    BY <1>2
  <2>. QED BY <1>2, <2>1, FS_Singleton DEF Count
<1>. QED BY <1>1, <1>2

LEMMA Elements ==
    ASSUME NEW S, NEW s \in Seq(S)
    PROVE  DOMAIN s = 1..Len(s) /\ Len(s) \in Nat /\ \A i \in DOMAIN s : s[i] \in S
OBVIOUS

\* The rows of the four tables.
LEMMA Columns ==
    ASSUME Tables
    PROVE  /\ DOMAIN cases = 1..Len(cases) /\ Len(cases) \in 0..MaxCases
           /\ \A c \in DOMAIN cases :
                 cases[c].status \in {"open", "closed"} /\ cases[c].flag \in Flags \cup {None}
           /\ DOMAIN awards = 1..Len(awards) /\ Len(awards) \in Nat
           /\ \A a \in DOMAIN awards : awards[a].case \in DOMAIN cases
           /\ DOMAIN bans = 1..Len(bans) /\ Len(bans) \in 0..MaxBans
           /\ \A b \in DOMAIN bans :
                 /\ bans[b].case \in (DOMAIN cases) \cup {None}
                 /\ bans[b].player \in Players
                 /\ bans[b].state \in {"active", "lifted", "ended"}
           /\ DOMAIN appeals = 1..Len(appeals) /\ Len(appeals) \in Nat
           /\ \A a \in DOMAIN appeals :
                 /\ appeals[a].ban \in DOMAIN bans
                 /\ appeals[a].status \in {"open", "accepted", "rejected"}
<1>1. /\ DOMAIN cases = 1..Len(cases) /\ Len(cases) \in Nat
      /\ \A c \in DOMAIN cases : cases[c] \in CaseRow
  BY Elements DEF Tables
<1>2. /\ DOMAIN awards = 1..Len(awards) /\ Len(awards) \in Nat
      /\ \A a \in DOMAIN awards : awards[a] \in AwardRow(DOMAIN cases)
  BY Elements DEF Tables
<1>3. /\ DOMAIN bans = 1..Len(bans) /\ Len(bans) \in Nat
      /\ \A b \in DOMAIN bans : bans[b] \in BanRow(DOMAIN cases)
  BY Elements DEF Tables
<1>4. /\ DOMAIN appeals = 1..Len(appeals) /\ Len(appeals) \in Nat
      /\ \A a \in DOMAIN appeals : appeals[a] \in AppealRow(DOMAIN bans)
  BY Elements DEF Tables
<1>5. /\ \A c \in DOMAIN cases :
            cases[c].status \in {"open", "closed"} /\ cases[c].flag \in Flags \cup {None}
      /\ \A a \in DOMAIN awards : awards[a].case \in DOMAIN cases
  BY <1>1, <1>2 DEF CaseRow, AwardRow
<1>6. \A b \in DOMAIN bans :
          /\ bans[b].case \in (DOMAIN cases) \cup {None}
          /\ bans[b].player \in Players
          /\ bans[b].state \in {"active", "lifted", "ended"}
  BY <1>3 DEF BanRow
<1>7. \A a \in DOMAIN appeals :
          /\ appeals[a].ban \in DOMAIN bans
          /\ appeals[a].status \in {"open", "accepted", "rejected"}
  BY <1>4 DEF AppealRow
<1>8. Len(cases) \in 0..MaxCases /\ Len(bans) \in 0..MaxBans
  BY <1>1, <1>3, BoundsType DEF Tables
<1>. QED BY <1>1, <1>2, <1>3, <1>4, <1>5, <1>6, <1>7, <1>8

-----------------------------------------------------------------------------
(* What the helpers and the operations write.                                *)

LEMMA Counting ==
    ASSUME timeline \in [1..MaxCases -> [Kinds -> Nat]], NEW c \in 1..MaxCases, NEW kind \in Kinds,
           timeline' = [timeline EXCEPT ![c][kind] = @ + 1]
    PROVE  /\ timeline' \in [1..MaxCases -> [Kinds -> Nat]]
           /\ \A d \in 1..MaxCases, k \in Kinds :
                 timeline'[d][k] = IF d = c /\ k = kind THEN timeline[d][k] + 1 ELSE timeline[d][k]
<1>1. timeline' = [timeline EXCEPT ![c] = [timeline[c] EXCEPT ![kind] = timeline[c][kind] + 1]]
  OBVIOUS
<1>. QED BY <1>1

LEMMA AddEntryCounts ==
    ASSUME timeline \in [1..MaxCases -> [Kinds -> Nat]], NEW c \in (1..MaxCases) \cup {None}, NEW kind \in Kinds,
           AddEntry(c, kind)
    PROVE  /\ timeline' \in [1..MaxCases -> [Kinds -> Nat]]
           /\ \A d \in 1..MaxCases, k \in Kinds :
                 timeline'[d][k] = IF d = c /\ k = kind THEN timeline[d][k] + 1 ELSE timeline[d][k]
<1>1. CASE c = None
  <2>1. timeline' = timeline
    BY <1>1 DEF AddEntry
  <2>2. c \notin 1..MaxCases
    BY <1>1, NoneIsNoNumber
  <2>. QED BY <2>1, <2>2
<1>2. CASE c # None
  <2>1. c \in 1..MaxCases /\ timeline' = [timeline EXCEPT ![c][kind] = @ + 1]
    BY <1>2 DEF AddEntry
  <2>. QED BY <2>1, Counting
<1>. QED BY <1>1, <1>2

LEMMA LogCounts ==
    ASSUME logged \in [Actions -> Nat], NEW action \in Actions, Log(action)
    PROVE  /\ logged' \in [Actions -> Nat]
           /\ \A a \in Actions : logged'[a] = IF a = action THEN logged[a] + 1 ELSE logged[a]
BY DEF Log

\* Tables that a step leaves alone count the same.
LEMMA SameAwards ==
    ASSUME awards' = awards
    PROVE  Revoked' = Revoked /\ \A c : AwardsOf(c)' = AwardsOf(c)
BY DEF Revoked, AwardsOf

LEMMA SameBans ==
    ASSUME bans' = bans
    PROVE  Lifted' = Lifted /\ \A c : BansOf(c)' = BansOf(c)
BY DEF Lifted, BansOf

LEMMA SameAppeals ==
    ASSUME Tables, appeals' = appeals, \A b \in DOMAIN bans : bans'[b].case = bans[b].case
    PROVE  Rejected' = Rejected /\ Accepted' = Accepted /\ \A c : AppealsOf(c)' = AppealsOf(c)
<1>1. \A a \in DOMAIN appeals : appeals[a].ban \in DOMAIN bans
  BY Columns
<1>. QED BY <1>1 DEF Rejected, Accepted, AppealsOf

LEMMA SameCases ==
    ASSUME cases' = cases
    PROVE  Closed' = Closed
BY DEF Closed

-----------------------------------------------------------------------------
(* The operations keep the records.                                          *)

\* A case's part of TimelineComplete.
Told(c) ==
    /\ timeline[c]["points"] = Count(AwardsOf(c))
    /\ timeline[c]["points_revoked"] = Count(AwardsOf(c) \cap Revoked)
    /\ timeline[c]["ban"] = Count(BansOf(c))
    /\ timeline[c]["unban"] = Count(BansOf(c) \cap Lifted)
    /\ timeline[c]["appeal"] = Count(AppealsOf(c)) + Count(AppealsOf(c) \cap Rejected)
    /\ timeline[c]["flag"] = Count({cases[c].flag} \ {None})
    /\ c \in Closed <=> timeline[c]["status"] % 2 = 1

LEMMA TimelineIsTold == TimelineComplete <=> \A c \in DOMAIN cases : Told(c)
BY DEF TimelineComplete, Told

LEMMA OpenRecords ==
    ASSUME Records, NEW s, NEW subjects \in SUBSET Players, NEW f \in Flags \cup {None}, Open(s, subjects, f)
    PROVE  Records'
<1>. USE DEF Records
<1>. DEFINE n == Len(cases) + 1
            row == NewCase(subjects, f)
<1>1. /\ cases' = Append(cases, row) /\ Len(cases) < MaxCases /\ Log("case.open")
      /\ awards' = awards /\ bans' = bans /\ appeals' = appeals
      /\ timeline' = [timeline EXCEPT ![n] = [@ EXCEPT !["note"] = 1, !["flag"] = IF f = None THEN 0 ELSE 1]]
  BY DEF Open, NewCase
<1>2. row \in CaseRow /\ cases \in Seq(CaseRow) /\ row.status = "open" /\ row.flag = f
  BY NewCaseRow DEF NewCase, Tables
<1>3. /\ cases' \in Seq(CaseRow) /\ Len(cases') = n
      /\ DOMAIN cases' = DOMAIN cases \cup {n} /\ n \notin DOMAIN cases
      /\ cases'[n] = row /\ cases'[n].status = "open" /\ cases'[n].flag = f
      /\ \A c \in DOMAIN cases : cases'[c] = cases[c]
  <2>. HIDE DEF row
  <2>. QED BY <1>1, <1>2, AddRow
<1>4. n \in 1..MaxCases
  BY <1>1, Columns, BoundsType
<1>5. /\ timeline' \in [1..MaxCases -> [Kinds -> Nat]]
      /\ \A c \in (1..MaxCases) \ {n} : timeline'[c] = timeline[c]
      /\ \A k \in Kinds : timeline'[n][k] = IF k = "note" THEN 1
                                          ELSE IF k = "flag" THEN IF f = None THEN 0 ELSE 1
                                          ELSE timeline[n][k]
  <2>1. timeline \in [1..MaxCases -> [Kinds -> Nat]]
    BY DEF Tables
  <2>. HIDE DEF n
  <2>. QED BY <1>1, <1>4, <2>1 DEF Kinds
<1>6. logged' \in [Actions -> Nat] /\ \A a \in Actions : logged'[a] = IF a = "case.open" THEN logged[a] + 1 ELSE logged[a]
  BY <1>1, LogCounts DEF Tables, Actions
<1>7. Tables'
  <2>1. AwardRow(DOMAIN cases) \subseteq AwardRow(DOMAIN cases') /\ BanRow(DOMAIN cases) \subseteq BanRow(DOMAIN cases')
    BY <1>3 DEF AwardRow, BanRow
  <2>2. awards' \in Seq(AwardRow(DOMAIN cases')) /\ bans' \in Seq(BanRow(DOMAIN cases'))
    BY <1>1, <2>1, Widen DEF Tables
  <2>3. appeals' \in Seq(AppealRow(DOMAIN bans')) /\ Len(bans') <= MaxBans
    BY <1>1 DEF Tables
  <2>4. Len(cases') <= MaxCases
    BY <1>3, <1>4
  <2>. QED BY <1>3, <1>5, <1>6, <2>2, <2>3, <2>4 DEF Tables
<1>8. Blank'
  BY <1>3, <1>5 DEF Blank
<1>9. /\ Revoked' = Revoked /\ Lifted' = Lifted /\ Rejected' = Rejected /\ Accepted' = Accepted
      /\ \A c : AwardsOf(c)' = AwardsOf(c) /\ BansOf(c)' = BansOf(c) /\ AppealsOf(c)' = AppealsOf(c)
  BY <1>1, SameAwards, SameBans, SameAppeals
<1>10. Closed' = Closed
  BY <1>3 DEF Closed
<1>11. ASSUME NEW c \in DOMAIN cases' PROVE Told(c)'
  <2>1. CASE c \in DOMAIN cases
    <3>1. Told(c)
      BY <2>1, TimelineIsTold
    <3>2. c \in (1..MaxCases) \ {n}
      BY <1>3, <2>1, Columns, BoundsType
    <3>3. timeline'[c] = timeline[c] /\ cases'[c] = cases[c]
      BY <1>3, <1>5, <2>1, <3>2
    <3>. QED BY <1>9, <1>10, <3>1, <3>3 DEF Told, Count
  <2>2. CASE c = n
    <3>1. AwardsOf(n) = {} /\ BansOf(n) = {} /\ AppealsOf(n) = {} /\ n \notin Closed
      BY <1>3, Columns, NoneIsNoNumber DEF AwardsOf, BansOf, AppealsOf, Closed
    <3>2. \A k \in Kinds : timeline[n][k] = 0
      BY <1>3, <1>4 DEF Blank
    <3>3. Count({}) = 0
      BY FS_EmptySet DEF Count
    <3>4. timeline'[n]["flag"] = Count({cases'[n].flag} \ {None})
      <4>1. cases'[n].flag = f
        BY <1>3
      <4>2. timeline'[n]["flag"] = IF f = None THEN 0 ELSE 1
        BY <1>5 DEF Kinds
      <4>. QED BY <4>1, <4>2, CountFlag
    <3>5. /\ timeline'[n]["points"] = 0 /\ timeline'[n]["points_revoked"] = 0 /\ timeline'[n]["ban"] = 0
          /\ timeline'[n]["unban"] = 0 /\ timeline'[n]["appeal"] = 0 /\ timeline'[n]["status"] = 0
      BY <1>5, <3>2 DEF Kinds
    <3>. HIDE DEF n
    <3>. QED BY <1>9, <1>10, <2>2, <3>1, <3>3, <3>4, <3>5 DEF Told, Count
  <2>. QED BY <1>3, <2>1, <2>2
<1>12. LogComplete'
  BY <1>1, <1>3, <1>6, <1>9, <1>10, Columns DEF LogComplete, Count, Actions
<1>13. TimelineComplete'
  BY <1>11 DEF TimelineComplete, Told
<1>. QED BY <1>7, <1>8, <1>12, <1>13

\* An entry that nothing counts: a note, a correction, a participant.
LEMMA EntryRecords ==
    ASSUME Records, NEW c \in DOMAIN cases, NEW kind \in {"note", "correction", "participant"},
           AddEntry(c, kind), UNCHANGED <<cases, awards, bans, appeals, logged>>
    PROVE  Records'
<1>. USE DEF Records
<1>1. c \in 1..MaxCases /\ kind \in Kinds
  BY Columns, BoundsType DEF Kinds
<1>2. /\ timeline' \in [1..MaxCases -> [Kinds -> Nat]]
      /\ \A d \in 1..MaxCases, k \in Kinds :
            timeline'[d][k] = IF d = c /\ k = kind THEN timeline[d][k] + 1 ELSE timeline[d][k]
  BY <1>1, AddEntryCounts DEF Tables
<1>3. Tables'
  BY <1>2 DEF Tables
<1>4. Blank'
  BY <1>2 DEF Blank
<1>5. /\ Revoked' = Revoked /\ Lifted' = Lifted /\ Rejected' = Rejected /\ Accepted' = Accepted /\ Closed' = Closed
      /\ \A d : AwardsOf(d)' = AwardsOf(d) /\ BansOf(d)' = BansOf(d) /\ AppealsOf(d)' = AppealsOf(d)
  BY SameAwards, SameBans, SameAppeals, SameCases
<1>6. ASSUME NEW d \in DOMAIN cases PROVE Told(d)'
  <2>1. Told(d) /\ d \in 1..MaxCases
    BY TimelineIsTold, Columns, BoundsType
  <2>2. \A k \in {"points", "points_revoked", "ban", "unban", "appeal", "flag", "status"} : timeline'[d][k] = timeline[d][k]
    BY <1>2, <2>1 DEF Kinds
  <2>. QED BY <1>5, <2>1, <2>2 DEF Told, Count
<1>7. TimelineComplete'
  BY <1>6 DEF TimelineComplete, Told
<1>8. LogComplete'
  BY <1>5 DEF LogComplete, Count
<1>. QED BY <1>3, <1>4, <1>7, <1>8

\* A row of the staff log that nothing counts: what was decided about a flag.
LEMMA FlagRecords ==
    ASSUME Records, NEW action \in {"anticheat.reopen", "anticheat.dismiss", "anticheat.watch"}, Log(action),
           UNCHANGED <<cases, awards, bans, appeals, timeline>>
    PROVE  Records'
<1>. USE DEF Records
<1>1. action \in Actions
  BY DEF Actions
<1>2. logged' \in [Actions -> Nat] /\ \A a \in Actions : logged'[a] = IF a = action THEN logged[a] + 1 ELSE logged[a]
  BY <1>1, LogCounts DEF Tables
<1>3. Tables'
  BY <1>2 DEF Tables
<1>4. Blank'
  BY DEF Blank
<1>5. /\ Revoked' = Revoked /\ Lifted' = Lifted /\ Rejected' = Rejected /\ Accepted' = Accepted /\ Closed' = Closed
      /\ \A d : AwardsOf(d)' = AwardsOf(d) /\ BansOf(d)' = BansOf(d) /\ AppealsOf(d)' = AppealsOf(d)
  BY SameAwards, SameBans, SameAppeals, SameCases
<1>6. TimelineComplete'
  BY <1>5 DEF TimelineComplete, Count
<1>7. \A a \in {"case.open", "case.close", "case.reopen", "player.warn", "player.warn_revoke", "ban.issue", "ban.lift",
               "ban.appeal_accept", "ban.appeal_reject"} : logged'[a] = logged[a]
  BY <1>2 DEF Actions
<1>8. LogComplete'
  BY <1>5, <1>7 DEF LogComplete, Count
<1>. QED BY <1>3, <1>4, <1>6, <1>8

LEMMA StatusRecords ==
    ASSUME Records, NEW c \in DOMAIN cases, NEW status \in {"open", "closed"}, SetStatus(c, status)
    PROVE  Records'
<1>. USE DEF Records
<1>. DEFINE action == IF status = "closed" THEN "case.close" ELSE "case.reopen"
            row == [cases[c] EXCEPT !.status = status]
<1>1. /\ cases[c].status # status /\ AddEntry(c, "status") /\ Log(action)
      /\ awards' = awards /\ bans' = bans /\ appeals' = appeals
      /\ cases' = [cases EXCEPT ![c].status = status]
  BY DEF SetStatus
<1>2. c \in 1..MaxCases /\ "status" \in Kinds /\ action \in Actions
  BY Columns, BoundsType DEF Kinds, Actions
<1>3. /\ timeline' \in [1..MaxCases -> [Kinds -> Nat]]
      /\ \A d \in 1..MaxCases, k \in Kinds :
            timeline'[d][k] = IF d = c /\ k = "status" THEN timeline[d][k] + 1 ELSE timeline[d][k]
  BY <1>1, <1>2, AddEntryCounts DEF Tables
<1>4. logged' \in [Actions -> Nat] /\ \A a \in Actions : logged'[a] = IF a = action THEN logged[a] + 1 ELSE logged[a]
  BY <1>1, <1>2, LogCounts DEF Tables
<1>5. cases' = [cases EXCEPT ![c] = row]
  BY <1>1
<1>6. row \in CaseRow /\ row.status = status /\ row.flag = cases[c].flag
  <2>1. cases[c] \in CaseRow
    BY Elements DEF Tables
  <2>. QED BY <2>1 DEF CaseRow
<1>7. /\ cases' \in Seq(CaseRow) /\ Len(cases') = Len(cases) /\ DOMAIN cases' = DOMAIN cases
      /\ cases'[c] = row /\ \A d \in DOMAIN cases \ {c} : cases'[d] = cases[d]
  <2>1. cases \in Seq(CaseRow)
    BY DEF Tables
  <2>. HIDE DEF row
  <2>. QED BY <1>5, <1>6, <2>1, ChangeRow
<1>8. Tables'
  BY <1>1, <1>3, <1>4, <1>7 DEF Tables
<1>9. Blank'
  BY <1>3, <1>7 DEF Blank
<1>10. /\ Revoked' = Revoked /\ Lifted' = Lifted /\ Rejected' = Rejected /\ Accepted' = Accepted
       /\ \A d : AwardsOf(d)' = AwardsOf(d) /\ BansOf(d)' = BansOf(d) /\ AppealsOf(d)' = AppealsOf(d)
  BY <1>1, SameAwards, SameBans, SameAppeals
<1>11. cases'[c].status = status /\ \A d \in DOMAIN cases : cases'[d].flag = cases[d].flag
  BY <1>6, <1>7
<1>12. \A d \in DOMAIN cases \ {c} : cases'[d].status = cases[d].status
  BY <1>7
<1>13. c \in Closed' <=> c \notin Closed
  BY <1>1, <1>7, <1>11, Columns DEF Closed
<1>14. Closed' = IF status = "closed" THEN Closed \cup {c} ELSE Closed \ {c}
  BY <1>1, <1>7, <1>11, <1>12, Columns DEF Closed
<1>15. ASSUME NEW d \in DOMAIN cases PROVE Told(d)'
  <2>1. Told(d) /\ d \in 1..MaxCases /\ timeline[d]["status"] \in Nat
    <3>1. d \in 1..MaxCases
      BY Columns, BoundsType
    <3>2. timeline[d]["status"] \in Nat
      BY <1>2, <3>1 DEF Tables
    <3>. QED BY <3>1, <3>2, TimelineIsTold
  <2>2. \A k \in {"points", "points_revoked", "ban", "unban", "appeal", "flag"} : timeline'[d][k] = timeline[d][k]
    BY <1>3, <2>1 DEF Kinds
  <2>3. d \in Closed' <=> timeline'[d]["status"] % 2 = 1
    <3>1. CASE d = c
      <4>1. timeline'[d]["status"] = timeline[d]["status"] + 1
        BY <1>2, <1>3, <3>1
      <4>2. d \in Closed <=> timeline[d]["status"] % 2 = 1
        BY <2>1 DEF Told
      <4>. QED BY <1>13, <2>1, <3>1, <4>1, <4>2
    <3>2. CASE d # c
      <4>1. timeline'[d]["status"] = timeline[d]["status"]
        BY <1>2, <1>3, <2>1, <3>2
      <4>. QED BY <1>14, <2>1, <3>2, <4>1 DEF Told
    <3>. QED BY <3>1, <3>2
  <2>. QED BY <1>10, <1>11, <2>1, <2>2, <2>3 DEF Told, Count
<1>16. TimelineComplete'
  BY <1>7, <1>15 DEF TimelineComplete, Told
<1>17. LogComplete'
  <2>1. Closed \in SUBSET DOMAIN cases /\ cases \in Seq(CaseRow)
    BY DEF Closed, Tables
  <2>2. Count(Closed') = IF status = "closed" THEN Count(Closed) + 1 ELSE Count(Closed) - 1
    <3>1. CASE status = "closed"
      <4>1. c \notin Closed /\ Closed' = Closed \cup {c}
        BY <1>1, <1>14, <3>1 DEF Closed
      <4>. QED BY <2>1, <3>1, <4>1, OneMore
    <3>2. CASE status = "open"
      <4>1. c \in Closed /\ Closed' = Closed \ {c}
        BY <1>1, <1>14, <3>2, Columns DEF Closed
      <4>. QED BY <2>1, <3>2, <4>1, OneLess
    <3>. QED BY <3>1, <3>2
  <2>3. logged'["case.close"] - logged'["case.reopen"] = Count(Closed')
    <3>1. Count(Closed) \in Nat
      BY <2>1, RowsFinite
    <3>2. logged["case.close"] \in Nat /\ logged["case.reopen"] \in Nat
      BY DEF Tables, Actions
    <3>3. logged["case.close"] - logged["case.reopen"] = Count(Closed)
      BY DEF LogComplete
    <3>4. /\ logged'["case.close"] = IF status = "closed" THEN logged["case.close"] + 1 ELSE logged["case.close"]
          /\ logged'["case.reopen"] = IF status = "closed" THEN logged["case.reopen"] ELSE logged["case.reopen"] + 1
      BY <1>4 DEF Actions
    <3>. QED BY <2>2, <3>1, <3>2, <3>3, <3>4
  <2>4. \A a \in {"case.open", "player.warn", "player.warn_revoke", "ban.issue", "ban.lift", "ban.appeal_accept",
                 "ban.appeal_reject"} : logged'[a] = logged[a]
    BY <1>4 DEF Actions
  <2>. QED BY <1>1, <1>7, <1>10, <2>3, <2>4 DEF LogComplete, Count
<1>. QED BY <1>8, <1>9, <1>16, <1>17

LEMMA PointsRecords ==
    ASSUME Records, NEW c \in DOMAIN cases, NEW p \in Players, IssuePoints(c, p)
    PROVE  Records'
<1>. USE DEF Records
<1>. DEFINE n == Len(awards) + 1
            row == [case |-> c, player |-> p, revoked |-> FALSE]
<1>1. /\ awards' = Append(awards, row) /\ AddEntry(c, "points") /\ Log("player.warn")
      /\ cases' = cases /\ bans' = bans /\ appeals' = appeals
  BY DEF IssuePoints
<1>2. c \in 1..MaxCases /\ "points" \in Kinds /\ "player.warn" \in Actions
  BY Columns, BoundsType DEF Kinds, Actions
<1>3. /\ timeline' \in [1..MaxCases -> [Kinds -> Nat]]
      /\ \A d \in 1..MaxCases, k \in Kinds :
            timeline'[d][k] = IF d = c /\ k = "points" THEN timeline[d][k] + 1 ELSE timeline[d][k]
  BY <1>1, <1>2, AddEntryCounts DEF Tables
<1>4. logged' \in [Actions -> Nat] /\ \A a \in Actions : logged'[a] = IF a = "player.warn" THEN logged[a] + 1 ELSE logged[a]
  BY <1>1, <1>2, LogCounts DEF Tables
<1>5. row \in AwardRow(DOMAIN cases) /\ awards \in Seq(AwardRow(DOMAIN cases))
  BY DEF AwardRow, Tables
<1>6. /\ awards' \in Seq(AwardRow(DOMAIN cases)) /\ Len(awards') = n
      /\ DOMAIN awards' = DOMAIN awards \cup {n} /\ n \notin DOMAIN awards
      /\ awards'[n] = row /\ \A a \in DOMAIN awards : awards'[a] = awards[a]
  <2>. HIDE DEF row
  <2>. QED BY <1>1, <1>5, AddRow
<1>7. Tables'
  BY <1>1, <1>3, <1>4, <1>6 DEF Tables
<1>8. Blank'
  BY <1>1, <1>3 DEF Blank
<1>9. /\ Lifted' = Lifted /\ Rejected' = Rejected /\ Accepted' = Accepted /\ Closed' = Closed
      /\ \A d : BansOf(d)' = BansOf(d) /\ AppealsOf(d)' = AppealsOf(d)
  BY <1>1, SameBans, SameAppeals, SameCases
<1>10. awards'[n].case = c /\ ~awards'[n].revoked
  BY <1>6
<1>11. /\ Revoked' = Revoked /\ n \notin Revoked
       /\ \A d : AwardsOf(d)' = IF d = c THEN AwardsOf(d) \cup {n} ELSE AwardsOf(d)
  <2>. HIDE DEF n
  <2>. QED BY <1>6, <1>10 DEF Revoked, AwardsOf
<1>12. ASSUME NEW d \in DOMAIN cases PROVE Told(d)'
  <2>1. Told(d) /\ d \in 1..MaxCases
    BY TimelineIsTold, Columns, BoundsType
  <2>2. \A k \in {"points_revoked", "ban", "unban", "appeal", "flag", "status"} : timeline'[d][k] = timeline[d][k]
    BY <1>3, <2>1 DEF Kinds
  <2>3. AwardsOf(d)' \cap Revoked' = AwardsOf(d) \cap Revoked
    BY <1>11
  <2>4. timeline'[d]["points"] = Count(AwardsOf(d)')
    <3>1. CASE d = c
      <4>1. AwardsOf(d) \in SUBSET DOMAIN awards /\ n \notin AwardsOf(d)
        BY <1>6 DEF AwardsOf
      <4>2. Count(AwardsOf(d) \cup {n}) = Count(AwardsOf(d)) + 1
        BY <1>5, <4>1, OneMore
      <4>3. timeline'[d]["points"] = timeline[d]["points"] + 1
        BY <1>2, <1>3, <3>1
      <4>. QED BY <1>11, <2>1, <3>1, <4>2, <4>3 DEF Told
    <3>2. CASE d # c
      <4>1. timeline'[d]["points"] = timeline[d]["points"]
        BY <1>2, <1>3, <2>1, <3>2
      <4>. QED BY <1>11, <2>1, <3>2, <4>1 DEF Told
    <3>. QED BY <3>1, <3>2
  <2>. QED BY <1>1, <1>9, <2>1, <2>2, <2>3, <2>4 DEF Told, Count
<1>13. TimelineComplete'
  BY <1>1, <1>12 DEF TimelineComplete, Told
<1>14. LogComplete'
  BY <1>1, <1>4, <1>6, <1>9, <1>11, Columns DEF LogComplete, Count, Actions
<1>. QED BY <1>7, <1>8, <1>13, <1>14

LEMMA RevokeRecords ==
    ASSUME Records, NEW a \in DOMAIN awards, RevokePoints(a)
    PROVE  Records'
<1>. USE DEF Records
<1>. DEFINE c == awards[a].case
            row == [awards[a] EXCEPT !.revoked = TRUE]
<1>1. /\ awards' = [awards EXCEPT ![a].revoked = TRUE] /\ ~awards[a].revoked
      /\ AddEntry(c, "points_revoked") /\ Log("player.warn_revoke")
      /\ cases' = cases /\ bans' = bans /\ appeals' = appeals
  BY DEF RevokePoints
<1>2. /\ c \in DOMAIN cases /\ c \in 1..MaxCases
      /\ "points_revoked" \in Kinds /\ "player.warn_revoke" \in Actions
  BY Columns, BoundsType DEF Kinds, Actions
<1>3. /\ timeline' \in [1..MaxCases -> [Kinds -> Nat]]
      /\ \A d \in 1..MaxCases, k \in Kinds :
            timeline'[d][k] = IF d = c /\ k = "points_revoked" THEN timeline[d][k] + 1 ELSE timeline[d][k]
  <2>. HIDE DEF c
  <2>. QED BY <1>1, <1>2, AddEntryCounts DEF Tables
<1>4. /\ logged' \in [Actions -> Nat]
      /\ \A e \in Actions : logged'[e] = IF e = "player.warn_revoke" THEN logged[e] + 1 ELSE logged[e]
  BY <1>1, <1>2, LogCounts DEF Tables
<1>5. awards' = [awards EXCEPT ![a] = row]
  BY <1>1
<1>6. row \in AwardRow(DOMAIN cases) /\ row.case = c /\ row.revoked = TRUE
  <2>1. awards[a] \in AwardRow(DOMAIN cases)
    BY Elements DEF Tables
  <2>. QED BY <2>1 DEF AwardRow
<1>7. /\ awards' \in Seq(AwardRow(DOMAIN cases)) /\ Len(awards') = Len(awards) /\ DOMAIN awards' = DOMAIN awards
      /\ awards'[a] = row /\ \A e \in DOMAIN awards \ {a} : awards'[e] = awards[e]
  <2>1. awards \in Seq(AwardRow(DOMAIN cases))
    BY DEF Tables
  <2>. HIDE DEF row
  <2>. QED BY <1>5, <1>6, <2>1, ChangeRow
<1>8. Tables'
  BY <1>1, <1>3, <1>4, <1>7 DEF Tables
<1>9. Blank'
  BY <1>1, <1>2, <1>3 DEF Blank
<1>10. /\ Lifted' = Lifted /\ Rejected' = Rejected /\ Accepted' = Accepted /\ Closed' = Closed
       /\ \A d : BansOf(d)' = BansOf(d) /\ AppealsOf(d)' = AppealsOf(d)
  BY <1>1, SameBans, SameAppeals, SameCases
<1>11. /\ Revoked' = Revoked \cup {a} /\ a \notin Revoked
       /\ \A d : AwardsOf(d)' = AwardsOf(d)
       /\ a \in AwardsOf(c) /\ \A d : d # c => a \notin AwardsOf(d)
  <2>1. awards'[a].case = c /\ awards'[a].revoked
    BY <1>6, <1>7
  <2>. QED BY <1>1, <1>7, <2>1 DEF Revoked, AwardsOf
<1>12. ASSUME NEW d \in DOMAIN cases PROVE Told(d)'
  <2>1. Told(d) /\ d \in 1..MaxCases
    BY TimelineIsTold, Columns, BoundsType
  <2>2. \A k \in {"points", "ban", "unban", "appeal", "flag", "status"} : timeline'[d][k] = timeline[d][k]
    BY <1>3, <2>1 DEF Kinds
  <2>3. timeline'[d]["points_revoked"] = Count(AwardsOf(d)' \cap Revoked')
    <3>1. CASE d = c
      <4>1. /\ AwardsOf(d) \cap Revoked \in SUBSET DOMAIN awards /\ a \notin AwardsOf(d) \cap Revoked
            /\ awards \in Seq(AwardRow(DOMAIN cases))
        BY <1>11 DEF AwardsOf, Tables
      <4>2. Count((AwardsOf(d) \cap Revoked) \cup {a}) = Count(AwardsOf(d) \cap Revoked) + 1
        BY <4>1, OneMore
      <4>3. AwardsOf(d)' \cap Revoked' = (AwardsOf(d) \cap Revoked) \cup {a}
        BY <1>11, <3>1
      <4>4. timeline'[d]["points_revoked"] = timeline[d]["points_revoked"] + 1
        BY <1>2, <1>3, <3>1
      <4>. QED BY <2>1, <4>2, <4>3, <4>4 DEF Told
    <3>2. CASE d # c
      <4>1. timeline'[d]["points_revoked"] = timeline[d]["points_revoked"]
        BY <1>2, <1>3, <2>1, <3>2
      <4>2. AwardsOf(d)' \cap Revoked' = AwardsOf(d) \cap Revoked
        BY <1>11, <3>2
      <4>. QED BY <2>1, <4>1, <4>2 DEF Told
    <3>. QED BY <3>1, <3>2
  <2>. QED BY <1>1, <1>10, <1>11, <2>1, <2>2, <2>3 DEF Told, Count
<1>13. TimelineComplete'
  BY <1>1, <1>12 DEF TimelineComplete, Told
<1>14. LogComplete'
  <2>1. Count(Revoked \cup {a}) = Count(Revoked) + 1
    <3>1. Revoked \in SUBSET DOMAIN awards /\ awards \in Seq(AwardRow(DOMAIN cases))
      BY DEF Revoked, Tables
    <3>. QED BY <1>11, <3>1, OneMore
  <2>2. \A e \in {"case.open", "case.close", "case.reopen", "player.warn", "ban.issue", "ban.lift", "ban.appeal_accept",
                 "ban.appeal_reject"} : logged'[e] = logged[e]
    BY <1>4 DEF Actions
  <2>3. logged'["player.warn_revoke"] = logged["player.warn_revoke"] + 1
    BY <1>2, <1>4
  <2>. QED BY <1>1, <1>7, <1>10, <1>11, <2>1, <2>2, <2>3 DEF LogComplete, Count
<1>. QED BY <1>8, <1>9, <1>13, <1>14

\* A ban is added, in a case (InsertBan) or in none (AdminBan).
LEMMA BanRecords ==
    ASSUME Records, NEW row \in BanRow(DOMAIN cases), row.state = "active", Len(bans) < MaxBans,
           bans' = Append(bans, row), Log("ban.issue"), UNCHANGED <<cases, awards, appeals>>,
           timeline' \in [1..MaxCases -> [Kinds -> Nat]],
           \A d \in 1..MaxCases, k \in Kinds :
              timeline'[d][k] = IF d = row.case /\ k = "ban" THEN timeline[d][k] + 1 ELSE timeline[d][k]
    PROVE  Records'
<1>. USE DEF Records
<1>. DEFINE n == Len(bans) + 1
            c == row.case
<1>1. c \in (DOMAIN cases) \cup {None}
  BY DEF BanRow
<1>2. /\ logged' \in [Actions -> Nat]
      /\ \A a \in Actions : logged'[a] = IF a = "ban.issue" THEN logged[a] + 1 ELSE logged[a]
  BY LogCounts DEF Tables, Actions
<1>3. bans \in Seq(BanRow(DOMAIN cases))
  BY DEF Tables
<1>4. /\ bans' \in Seq(BanRow(DOMAIN cases)) /\ Len(bans') = n
      /\ DOMAIN bans' = DOMAIN bans \cup {n} /\ n \notin DOMAIN bans
      /\ bans'[n] = row /\ \A b \in DOMAIN bans : bans'[b] = bans[b]
  BY <1>3, AddRow
<1>5. Tables'
  <2>1. AppealRow(DOMAIN bans) \subseteq AppealRow(DOMAIN bans')
    BY <1>4 DEF AppealRow
  <2>2. appeals' \in Seq(AppealRow(DOMAIN bans'))
    BY <2>1, Widen DEF Tables
  <2>3. Len(bans') <= MaxBans
    BY <1>4, Columns, BoundsType
  <2>. QED BY <1>2, <1>4, <2>2, <2>3 DEF Tables
<1>6. Blank'
  BY <1>1, NoneIsNoNumber DEF Blank
<1>7. /\ Revoked' = Revoked /\ Rejected' = Rejected /\ Accepted' = Accepted /\ Closed' = Closed
      /\ \A d : AwardsOf(d)' = AwardsOf(d) /\ AppealsOf(d)' = AppealsOf(d)
  BY <1>4, SameAwards, SameAppeals, SameCases
<1>8. /\ Lifted' = Lifted /\ n \notin Lifted
      /\ \A d : BansOf(d)' = IF d = c THEN BansOf(d) \cup {n} ELSE BansOf(d)
  <2>. HIDE DEF n
  <2>. QED BY <1>4 DEF Lifted, BansOf
<1>9. ASSUME NEW d \in DOMAIN cases PROVE Told(d)'
  <2>1. Told(d) /\ d \in 1..MaxCases
    BY TimelineIsTold, Columns, BoundsType
  <2>2. \A k \in {"points", "points_revoked", "unban", "appeal", "flag", "status"} : timeline'[d][k] = timeline[d][k]
    BY <2>1 DEF Kinds
  <2>3. BansOf(d)' \cap Lifted' = BansOf(d) \cap Lifted
    BY <1>8
  <2>4. timeline'[d]["ban"] = Count(BansOf(d)')
    <3>1. CASE d = c
      <4>1. BansOf(d) \in SUBSET DOMAIN bans /\ n \notin BansOf(d)
        BY <1>4 DEF BansOf
      <4>2. Count(BansOf(d) \cup {n}) = Count(BansOf(d)) + 1
        BY <1>3, <4>1, OneMore
      <4>3. timeline'[d]["ban"] = timeline[d]["ban"] + 1
        BY <2>1, <3>1 DEF Kinds
      <4>. QED BY <1>8, <2>1, <3>1, <4>2, <4>3 DEF Told
    <3>2. CASE d # c
      <4>1. timeline'[d]["ban"] = timeline[d]["ban"]
        BY <2>1, <3>2 DEF Kinds
      <4>. QED BY <1>8, <2>1, <3>2, <4>1 DEF Told
    <3>. QED BY <3>1, <3>2
  <2>. QED BY <1>7, <2>1, <2>2, <2>3, <2>4 DEF Told, Count
<1>10. TimelineComplete'
  BY <1>9 DEF TimelineComplete, Told
<1>11. LogComplete'
  BY <1>2, <1>4, <1>7, <1>8, Columns DEF LogComplete, Count, Actions
<1>. QED BY <1>5, <1>6, <1>10, <1>11

\* A ban ends or is lifted, only its state changes.
LEMMA StateOfBan ==
    ASSUME Tables, NEW b \in DOMAIN bans, NEW state \in {"lifted", "ended"},
           bans' = [bans EXCEPT ![b].state = state]
    PROVE  /\ bans' \in Seq(BanRow(DOMAIN cases)) /\ Len(bans') = Len(bans) /\ DOMAIN bans' = DOMAIN bans
           /\ bans'[b].state = state /\ \A d \in DOMAIN bans \ {b} : bans'[d] = bans[d]
           /\ \A d \in DOMAIN bans : /\ bans'[d].case = bans[d].case /\ bans'[d].player = bans[d].player
                                     /\ bans'[d].scope = bans[d].scope
           /\ \A d : BansOf(d)' = BansOf(d)
<1>. DEFINE row == [bans[b] EXCEPT !.state = state]
<1>1. bans' = [bans EXCEPT ![b] = row]
  OBVIOUS
<1>2. bans \in Seq(BanRow(DOMAIN cases)) /\ bans[b] \in BanRow(DOMAIN cases)
  BY Elements DEF Tables
<1>3. /\ row \in BanRow(DOMAIN cases) /\ row.state = state
      /\ row.case = bans[b].case /\ row.player = bans[b].player /\ row.scope = bans[b].scope
  BY <1>2 DEF BanRow
<1>4. /\ bans' \in Seq(BanRow(DOMAIN cases)) /\ Len(bans') = Len(bans) /\ DOMAIN bans' = DOMAIN bans
      /\ bans'[b] = row /\ \A d \in DOMAIN bans \ {b} : bans'[d] = bans[d]
  <2>. HIDE DEF row
  <2>. QED BY <1>1, <1>2, <1>3, ChangeRow
<1>5. \A d \in DOMAIN bans : /\ bans'[d].case = bans[d].case /\ bans'[d].player = bans[d].player
                             /\ bans'[d].scope = bans[d].scope
  BY <1>3, <1>4
<1>6. \A d : BansOf(d)' = BansOf(d)
  BY <1>4, <1>5 DEF BansOf
<1>. QED BY <1>3, <1>4, <1>5, <1>6

LEMMA EndRecords ==
    ASSUME Records, NEW b \in DOMAIN bans, Active(b), bans' = [bans EXCEPT ![b].state = "ended"],
           UNCHANGED <<cases, timeline, awards, appeals, logged>>
    PROVE  Records'
<1>. USE DEF Records
<1>1. /\ bans' \in Seq(BanRow(DOMAIN cases)) /\ Len(bans') = Len(bans) /\ DOMAIN bans' = DOMAIN bans
      /\ bans'[b].state = "ended" /\ \A d \in DOMAIN bans \ {b} : bans'[d] = bans[d]
      /\ \A d \in DOMAIN bans : bans'[d].case = bans[d].case
      /\ \A d : BansOf(d)' = BansOf(d)
  BY StateOfBan
<1>2. /\ Revoked' = Revoked /\ Rejected' = Rejected /\ Accepted' = Accepted /\ Closed' = Closed
      /\ \A d : AwardsOf(d)' = AwardsOf(d) /\ AppealsOf(d)' = AppealsOf(d)
  BY <1>1, SameAwards, SameAppeals, SameCases
<1>3. Lifted' = Lifted
  BY <1>1 DEF Lifted, Active
<1>4. Tables' /\ Blank'
  BY <1>1 DEF Tables, Blank
<1>5. TimelineComplete' /\ LogComplete'
  BY <1>1, <1>2, <1>3 DEF TimelineComplete, LogComplete, Count
<1>. QED BY <1>4, <1>5

\* A ban is lifted, by itself (BanLift) or by accepting an appeal (AppealDecide).
LEMMA LiftRecords ==
    ASSUME Records, NEW b \in DOMAIN bans, NEW action \in {"ban.lift", "ban.appeal_accept"}, LiftBan(b, action),
           UNCHANGED <<cases, awards>>,
           appeals' \in Seq(AppealRow(DOMAIN bans)), DOMAIN appeals' = DOMAIN appeals,
           \A a \in DOMAIN appeals : appeals'[a].ban = appeals[a].ban,
           Rejected' = Rejected,
           Count(Accepted') = IF action = "ban.lift" THEN Count(Accepted) ELSE Count(Accepted) + 1
    PROVE  Records'
<1>. USE DEF Records
<1>. DEFINE c == bans[b].case
<1>1. /\ Active(b) /\ bans' = [bans EXCEPT ![b].state = "lifted"]
      /\ AddEntry(c, "unban") /\ Log(action)
  BY DEF LiftBan
<1>2. c \in (DOMAIN cases) \cup {None} /\ c \in (1..MaxCases) \cup {None} /\ action \in Actions
  BY Columns, BoundsType DEF Actions
<1>3. /\ timeline' \in [1..MaxCases -> [Kinds -> Nat]]
      /\ \A d \in 1..MaxCases, k \in Kinds :
            timeline'[d][k] = IF d = c /\ k = "unban" THEN timeline[d][k] + 1 ELSE timeline[d][k]
  <2>. HIDE DEF c
  <2>. QED BY <1>1, <1>2, AddEntryCounts DEF Tables, Kinds
<1>4. logged' \in [Actions -> Nat] /\ \A e \in Actions : logged'[e] = IF e = action THEN logged[e] + 1 ELSE logged[e]
  BY <1>1, <1>2, LogCounts DEF Tables
<1>5. /\ bans' \in Seq(BanRow(DOMAIN cases)) /\ Len(bans') = Len(bans) /\ DOMAIN bans' = DOMAIN bans
      /\ bans'[b].state = "lifted" /\ \A d \in DOMAIN bans \ {b} : bans'[d] = bans[d]
      /\ \A d \in DOMAIN bans : bans'[d].case = bans[d].case
      /\ \A d : BansOf(d)' = BansOf(d)
  BY <1>1, StateOfBan
<1>6. Tables'
  BY <1>3, <1>4, <1>5 DEF Tables
<1>7. Blank'
  BY <1>2, <1>3, NoneIsNoNumber DEF Blank
<1>8. /\ Revoked' = Revoked /\ Closed' = Closed /\ \A d : AwardsOf(d)' = AwardsOf(d)
  BY SameAwards, SameCases
<1>9. \A d : AppealsOf(d)' = AppealsOf(d)
  <2>1. \A a \in DOMAIN appeals : appeals[a].ban \in DOMAIN bans
    BY Columns
  <2>. QED BY <1>5, <2>1 DEF AppealsOf
<1>10. /\ Lifted' = Lifted \cup {b} /\ b \notin Lifted
       /\ \A d : b \in BansOf(d) <=> d = c
  BY <1>1, <1>5 DEF Lifted, Active, BansOf
<1>11. ASSUME NEW d \in DOMAIN cases PROVE Told(d)'
  <2>1. Told(d) /\ d \in 1..MaxCases
    BY TimelineIsTold, Columns, BoundsType
  <2>2. \A k \in {"points", "points_revoked", "ban", "appeal", "flag", "status"} : timeline'[d][k] = timeline[d][k]
    BY <1>3, <2>1 DEF Kinds
  <2>3. timeline'[d]["unban"] = Count(BansOf(d)' \cap Lifted')
    <3>1. CASE d = c
      <4>1. /\ BansOf(d) \cap Lifted \in SUBSET DOMAIN bans /\ b \notin BansOf(d) \cap Lifted
            /\ bans \in Seq(BanRow(DOMAIN cases))
        BY <1>10 DEF BansOf, Tables
      <4>2. Count((BansOf(d) \cap Lifted) \cup {b}) = Count(BansOf(d) \cap Lifted) + 1
        BY <4>1, OneMore
      <4>3. BansOf(d)' \cap Lifted' = (BansOf(d) \cap Lifted) \cup {b}
        BY <1>5, <1>10, <3>1
      <4>4. timeline'[d]["unban"] = timeline[d]["unban"] + 1
        BY <1>3, <2>1, <3>1 DEF Kinds
      <4>. QED BY <2>1, <4>2, <4>3, <4>4 DEF Told
    <3>2. CASE d # c
      <4>1. timeline'[d]["unban"] = timeline[d]["unban"]
        BY <1>3, <2>1, <3>2 DEF Kinds
      <4>2. BansOf(d)' \cap Lifted' = BansOf(d) \cap Lifted
        BY <1>5, <1>10, <3>2
      <4>. QED BY <2>1, <4>1, <4>2 DEF Told
    <3>. QED BY <3>1, <3>2
  <2>. QED BY <1>5, <1>8, <1>9, <2>1, <2>2, <2>3 DEF Told, Count
<1>12. TimelineComplete'
  BY <1>11 DEF TimelineComplete, Told
<1>13. LogComplete'
  <2>1. Count(Lifted \cup {b}) = Count(Lifted) + 1 /\ Count(Lifted) \in Nat
    <3>1. Lifted \in SUBSET DOMAIN bans /\ bans \in Seq(BanRow(DOMAIN cases))
      BY DEF Lifted, Tables
    <3>. QED BY <1>10, <3>1, OneMore, RowsFinite
  <2>2. \A e \in {"case.open", "case.close", "case.reopen", "player.warn", "player.warn_revoke", "ban.issue",
                 "ban.appeal_reject"} : logged'[e] = logged[e]
    BY <1>4 DEF Actions
  <2>3. /\ logged'["ban.lift"] = IF action = "ban.lift" THEN logged["ban.lift"] + 1 ELSE logged["ban.lift"]
        /\ logged'["ban.appeal_accept"] = IF action = "ban.lift" THEN logged["ban.appeal_accept"]
                                          ELSE logged["ban.appeal_accept"] + 1
    BY <1>4 DEF Actions
  <2>4. logged["ban.lift"] \in Nat /\ logged["ban.appeal_accept"] \in Nat
    BY DEF Tables, Actions
  <2>5. logged["ban.lift"] + logged["ban.appeal_accept"] = Count(Lifted) /\ logged["ban.appeal_accept"] = Count(Accepted)
    BY DEF LogComplete
  <2>6. logged'["ban.lift"] + logged'["ban.appeal_accept"] = Count(Lifted')
    BY <1>10, <2>1, <2>3, <2>4, <2>5
  <2>7. logged'["ban.appeal_accept"] = Count(Accepted')
    BY <2>3, <2>5
  <2>. QED BY <1>5, <1>8, <2>2, <2>6, <2>7 DEF LogComplete, Count
<1>. QED BY <1>6, <1>7, <1>12, <1>13

\* What an operation on appeals writes into a case's timeline.
LEMMA AppealCounted ==
    ASSUME Records, NEW c \in (DOMAIN cases) \cup {None},
           UNCHANGED <<cases, awards, bans>>,
           timeline' \in [1..MaxCases -> [Kinds -> Nat]],
           \A d \in 1..MaxCases, k \in Kinds :
              timeline'[d][k] = IF d = c /\ k = "appeal" THEN timeline[d][k] + 1 ELSE timeline[d][k],
           \A d \in DOMAIN cases :
              Count(AppealsOf(d)') + Count(AppealsOf(d)' \cap Rejected')
                = Count(AppealsOf(d)) + Count(AppealsOf(d) \cap Rejected) + (IF d = c THEN 1 ELSE 0)
    PROVE  Blank' /\ TimelineComplete'
<1>. USE DEF Records
<1>1. Blank'
  BY NoneIsNoNumber DEF Blank
<1>2. /\ Revoked' = Revoked /\ Lifted' = Lifted /\ Closed' = Closed
      /\ \A d : AwardsOf(d)' = AwardsOf(d) /\ BansOf(d)' = BansOf(d)
  BY SameAwards, SameBans, SameCases
<1>3. ASSUME NEW d \in DOMAIN cases PROVE Told(d)'
  <2>1. Told(d) /\ d \in 1..MaxCases
    BY TimelineIsTold, Columns, BoundsType
  <2>2. \A k \in {"points", "points_revoked", "ban", "unban", "flag", "status"} : timeline'[d][k] = timeline[d][k]
    BY <2>1 DEF Kinds
  <2>3. timeline'[d]["appeal"] = timeline[d]["appeal"] + (IF d = c THEN 1 ELSE 0)
    <3>1. timeline[d]["appeal"] \in Nat
      BY <2>1 DEF Kinds, Tables
    <3>2. timeline'[d]["appeal"] = IF d = c THEN timeline[d]["appeal"] + 1 ELSE timeline[d]["appeal"]
      BY <2>1 DEF Kinds
    <3>. QED BY <3>1, <3>2
  <2>4. timeline'[d]["appeal"] = Count(AppealsOf(d)') + Count(AppealsOf(d)' \cap Rejected')
    BY <2>1, <2>3 DEF Told
  <2>. QED BY <1>2, <2>1, <2>2, <2>4 DEF Told, Count
<1>4. TimelineComplete'
  BY <1>3 DEF TimelineComplete, Told
<1>. QED BY <1>1, <1>4

LEMMA SubmitRecords ==
    ASSUME Records, NEW b \in DOMAIN bans, appeals' = Append(appeals, [ban |-> b, status |-> "open"]),
           AddEntry(bans[b].case, "appeal"), UNCHANGED <<cases, awards, bans, logged>>
    PROVE  Records'
<1>. USE DEF Records
<1>. DEFINE n == Len(appeals) + 1
            row == [ban |-> b, status |-> "open"]
            c == bans[b].case
<1>1. c \in (DOMAIN cases) \cup {None} /\ c \in (1..MaxCases) \cup {None}
  BY Columns, BoundsType
<1>2. /\ timeline' \in [1..MaxCases -> [Kinds -> Nat]]
      /\ \A d \in 1..MaxCases, k \in Kinds :
            timeline'[d][k] = IF d = c /\ k = "appeal" THEN timeline[d][k] + 1 ELSE timeline[d][k]
  <2>1. AddEntry(c, "appeal")
    OBVIOUS
  <2>. HIDE DEF c
  <2>. QED BY <1>1, <2>1, AddEntryCounts DEF Tables, Kinds
<1>3. appeals \in Seq(AppealRow(DOMAIN bans)) /\ row \in AppealRow(DOMAIN bans)
  BY DEF Tables, AppealRow
<1>4. /\ appeals' \in Seq(AppealRow(DOMAIN bans)) /\ DOMAIN appeals' = DOMAIN appeals \cup {n} /\ n \notin DOMAIN appeals
      /\ appeals'[n] = row /\ \A a \in DOMAIN appeals : appeals'[a] = appeals[a]
  <2>1. appeals' = Append(appeals, row)
    OBVIOUS
  <2>. HIDE DEF row
  <2>. QED BY <1>3, <2>1, AddRow
<1>5. Tables'
  BY <1>2, <1>4 DEF Tables
<1>6. /\ Rejected' = Rejected /\ Accepted' = Accepted /\ n \notin Rejected
      /\ \A d : AppealsOf(d)' = IF d = c THEN AppealsOf(d) \cup {n} ELSE AppealsOf(d)
  <2>1. appeals'[n].ban = b /\ appeals'[n].status = "open"
    BY <1>4
  <2>2. \A a \in DOMAIN appeals : appeals[a].ban \in DOMAIN bans
    BY Columns
  <2>. HIDE DEF n
  <2>. QED BY <1>4, <2>1, <2>2 DEF Rejected, Accepted, AppealsOf
<1>7. ASSUME NEW d \in DOMAIN cases
      PROVE  Count(AppealsOf(d)') + Count(AppealsOf(d)' \cap Rejected')
               = Count(AppealsOf(d)) + Count(AppealsOf(d) \cap Rejected) + (IF d = c THEN 1 ELSE 0)
  <2>1. AppealsOf(d)' \cap Rejected' = AppealsOf(d) \cap Rejected
    BY <1>6
  <2>2. AppealsOf(d) \in SUBSET DOMAIN appeals /\ AppealsOf(d) \cap Rejected \in SUBSET DOMAIN appeals
    BY DEF AppealsOf
  <2>3. n \notin AppealsOf(d)
    BY <1>4 DEF AppealsOf
  <2>4. Count(AppealsOf(d) \cup {n}) = Count(AppealsOf(d)) + 1
    BY <1>3, <2>2, <2>3, OneMore
  <2>5. Count(AppealsOf(d)) \in Nat /\ Count(AppealsOf(d) \cap Rejected) \in Nat
    BY <1>3, <2>2, RowsFinite
  <2>6. Count(AppealsOf(d)') = Count(AppealsOf(d)) + (IF d = c THEN 1 ELSE 0)
    <3>. HIDE DEF n, c
    <3>1. CASE d = c
      <4>1. AppealsOf(d)' = AppealsOf(d) \cup {n}
        BY <1>6, <3>1
      <4>. QED BY <2>4, <3>1, <4>1
    <3>2. CASE d # c
      <4>1. AppealsOf(d)' = AppealsOf(d)
        BY <1>6, <3>2
      <4>. QED BY <2>5, <3>2, <4>1
    <3>. QED BY <3>1, <3>2
  <2>7. Count(AppealsOf(d)' \cap Rejected') = Count(AppealsOf(d) \cap Rejected)
    BY <2>1
  <2>. HIDE DEF n, c
  <2>8. CASE d = c
    BY <2>5, <2>6, <2>7, <2>8
  <2>9. CASE d # c
    BY <2>5, <2>6, <2>7, <2>9
  <2>. QED BY <2>8, <2>9
<1>8. Blank' /\ TimelineComplete'
  <2>. HIDE DEF c
  <2>. QED BY <1>1, <1>2, <1>7, AppealCounted
<1>9. LogComplete'
  <2>1. Revoked' = Revoked /\ Lifted' = Lifted /\ Closed' = Closed
    BY SameAwards, SameBans, SameCases
  <2>. QED BY <1>6, <2>1 DEF LogComplete, Count
<1>. QED BY <1>5, <1>8, <1>9

\* The status of an appeal that is decided.
LEMMA StatusOfAppeal ==
    ASSUME Tables, NEW a \in DOMAIN appeals, NEW status \in {"accepted", "rejected"},
           appeals[a].status = "open", appeals' = [appeals EXCEPT ![a].status = status]
    PROVE  /\ appeals' \in Seq(AppealRow(DOMAIN bans)) /\ DOMAIN appeals' = DOMAIN appeals
           /\ \A e \in DOMAIN appeals : appeals'[e].ban = appeals[e].ban
           /\ appeals'[a].status = status /\ \A e \in DOMAIN appeals \ {a} : appeals'[e] = appeals[e]
           /\ Rejected' = IF status = "rejected" THEN Rejected \cup {a} ELSE Rejected
           /\ Accepted' = IF status = "accepted" THEN Accepted \cup {a} ELSE Accepted
           /\ a \notin Rejected /\ a \notin Accepted
<1>. DEFINE row == [appeals[a] EXCEPT !.status = status]
<1>1. appeals' = [appeals EXCEPT ![a] = row]
  OBVIOUS
<1>2. appeals \in Seq(AppealRow(DOMAIN bans)) /\ appeals[a] \in AppealRow(DOMAIN bans)
  BY Elements DEF Tables
<1>3. row \in AppealRow(DOMAIN bans) /\ row.status = status /\ row.ban = appeals[a].ban
  BY <1>2 DEF AppealRow
<1>4. /\ appeals' \in Seq(AppealRow(DOMAIN bans)) /\ DOMAIN appeals' = DOMAIN appeals
      /\ appeals'[a] = row /\ \A e \in DOMAIN appeals \ {a} : appeals'[e] = appeals[e]
  <2>. HIDE DEF row
  <2>. QED BY <1>1, <1>2, <1>3, ChangeRow
<1>5. appeals'[a].status = status /\ appeals'[a].ban = appeals[a].ban
  BY <1>3, <1>4
<1>6. \A e \in DOMAIN appeals : appeals'[e].ban = appeals[e].ban
  BY <1>4, <1>5
<1>7. /\ Rejected' = IF status = "rejected" THEN Rejected \cup {a} ELSE Rejected
      /\ Accepted' = IF status = "accepted" THEN Accepted \cup {a} ELSE Accepted
      /\ a \notin Rejected /\ a \notin Accepted
  BY <1>4, <1>5 DEF Rejected, Accepted
<1>. QED BY <1>4, <1>5, <1>6, <1>7

LEMMA DecideRecords ==
    ASSUME Records, NEW s, NEW a \in DOMAIN appeals, NEW accept \in BOOLEAN, DecideAppeal(s, a, accept),
           UNCHANGED <<cases, awards>>
    PROVE  Records'
<1>. USE DEF Records
<1>. DEFINE b == appeals[a].ban
            c == bans[b].case
<1>1. b \in DOMAIN bans /\ c \in (DOMAIN cases) \cup {None} /\ c \in (1..MaxCases) \cup {None}
  BY Columns, BoundsType
<1>2. appeals \in Seq(AppealRow(DOMAIN bans)) /\ appeals[a].status = "open"
  BY DEF Tables, DecideAppeal
<1>3. CASE accept
  <2>1. LiftBan(b, "ban.appeal_accept") /\ appeals' = [appeals EXCEPT ![a].status = "accepted"]
    BY <1>3 DEF DecideAppeal
  <2>2. /\ appeals' \in Seq(AppealRow(DOMAIN bans)) /\ DOMAIN appeals' = DOMAIN appeals
        /\ \A e \in DOMAIN appeals : appeals'[e].ban = appeals[e].ban
        /\ Rejected' = Rejected /\ Accepted' = Accepted \cup {a} /\ a \notin Accepted
    BY <1>2, <2>1, StatusOfAppeal
  <2>3. Count(Accepted \cup {a}) = Count(Accepted) + 1
    <3>1. Accepted \in SUBSET DOMAIN appeals
      BY DEF Accepted
    <3>. QED BY <1>2, <2>2, <3>1, OneMore
  <2>. HIDE DEF b
  <2>. QED BY <1>1, <2>1, <2>2, <2>3, LiftRecords
<1>4. CASE ~accept
  <2>1. /\ AddEntry(c, "appeal") /\ Log("ban.appeal_reject") /\ bans' = bans
        /\ appeals' = [appeals EXCEPT ![a].status = "rejected"]
    BY <1>4 DEF DecideAppeal
  <2>2. /\ appeals' \in Seq(AppealRow(DOMAIN bans)) /\ DOMAIN appeals' = DOMAIN appeals
        /\ \A e \in DOMAIN appeals : appeals'[e].ban = appeals[e].ban
        /\ Rejected' = Rejected \cup {a} /\ Accepted' = Accepted /\ a \notin Rejected
    BY <1>2, <2>1, StatusOfAppeal
  <2>3. /\ timeline' \in [1..MaxCases -> [Kinds -> Nat]]
        /\ \A d \in 1..MaxCases, k \in Kinds :
              timeline'[d][k] = IF d = c /\ k = "appeal" THEN timeline[d][k] + 1 ELSE timeline[d][k]
    <3>. HIDE DEF c
    <3>. QED BY <1>1, <2>1, AddEntryCounts DEF Tables, Kinds
  <2>4. /\ logged' \in [Actions -> Nat]
        /\ \A e \in Actions : logged'[e] = IF e = "ban.appeal_reject" THEN logged[e] + 1 ELSE logged[e]
    BY <2>1, LogCounts DEF Tables, Actions
  <2>5. Tables'
    BY <2>1, <2>2, <2>3, <2>4 DEF Tables
  <2>6. \A d : AppealsOf(d)' = AppealsOf(d) /\ (a \in AppealsOf(d) <=> d = c)
    BY <2>1, <2>2 DEF AppealsOf
  <2>7. ASSUME NEW d \in DOMAIN cases
        PROVE  Count(AppealsOf(d)') + Count(AppealsOf(d)' \cap Rejected')
                 = Count(AppealsOf(d)) + Count(AppealsOf(d) \cap Rejected) + (IF d = c THEN 1 ELSE 0)
    <3>1. AppealsOf(d) \in SUBSET DOMAIN appeals /\ AppealsOf(d) \cap Rejected \in SUBSET DOMAIN appeals
      BY DEF AppealsOf
    <3>2. Count(AppealsOf(d)) \in Nat /\ Count(AppealsOf(d) \cap Rejected) \in Nat
      BY <1>2, <3>1, RowsFinite
    <3>3. Count((AppealsOf(d) \cap Rejected) \cup {a}) = Count(AppealsOf(d) \cap Rejected) + 1
      BY <1>2, <2>2, <3>1, OneMore
    <3>4. AppealsOf(d)' \cap Rejected' = IF d = c THEN (AppealsOf(d) \cap Rejected) \cup {a} ELSE AppealsOf(d) \cap Rejected
      BY <2>2, <2>6
    <3>. HIDE DEF c
    <3>. QED BY <2>6, <3>2, <3>3, <3>4
  <2>8. Blank' /\ TimelineComplete'
    <3>. HIDE DEF c
    <3>. QED BY <1>1, <2>1, <2>3, <2>7, AppealCounted
  <2>9. Count(Rejected \cup {a}) = Count(Rejected) + 1
    <3>1. Rejected \in SUBSET DOMAIN appeals
      BY DEF Rejected
    <3>. QED BY <1>2, <2>2, <3>1, OneMore
  <2>10. LogComplete'
    <3>1. Revoked' = Revoked /\ Lifted' = Lifted /\ Closed' = Closed
      BY <2>1, SameAwards, SameBans, SameCases
    <3>2. \A e \in {"case.open", "case.close", "case.reopen", "player.warn", "player.warn_revoke", "ban.issue",
                   "ban.lift", "ban.appeal_accept"} : logged'[e] = logged[e]
      BY <2>4 DEF Actions
    <3>3. logged'["ban.appeal_reject"] = logged["ban.appeal_reject"] + 1
      BY <2>4 DEF Actions
    <3>. QED BY <2>1, <2>2, <2>9, <3>1, <3>2, <3>3 DEF LogComplete, Count
  <2>. QED BY <2>5, <2>8, <2>10
<1>. QED BY <1>3, <1>4

\* A request that bans has the fields of one.
LEMMA Fields ==
    ASSUME request \in [Web -> Requests], NEW w \in Web
    PROVE  /\ request[w].at \in {"asked", "banning"} =>
                 request[w] \in [at : {"asked", "banning"}, by : Staff, case : 1..MaxCases, player : Players,
                                 timed : BOOLEAN, scope : {"game", "game_discord"}]
           /\ request[w].at = "telling" => request[w] \in [at : {"telling"}, player : Linked, lift : BOOLEAN]
           /\ request[w].at = "appealing" => request[w] \in [at : {"appealing"}, ban : 1..MaxBans]
BY DEF Requests, Idle

LEMMA SameTables ==
    ASSUME Records, UNCHANGED <<cases, timeline, awards, bans, appeals, logged>>
    PROVE  Records'
<1>1. Tables' /\ Blank'
  BY DEF Records, Tables, Blank
<1>2. /\ Revoked' = Revoked /\ Lifted' = Lifted /\ Rejected' = Rejected /\ Accepted' = Accepted /\ Closed' = Closed
      /\ \A d : AwardsOf(d)' = AwardsOf(d) /\ BansOf(d)' = BansOf(d) /\ AppealsOf(d)' = AppealsOf(d)
  BY SameAwards, SameBans, SameAppeals, SameCases DEF Records
<1>3. TimelineComplete' /\ LogComplete'
  BY <1>2 DEF Records, TimelineComplete, LogComplete, Count
<1>. QED BY <1>1, <1>3 DEF Records

LEMMA RecordsStep ==
    ASSUME Inductive, [Next]_vars
    PROVE  Records'
<1>. USE DEF Inductive
<1>1. ASSUME NEW s \in Staff, CaseCreate(s) PROVE Records'
  BY <1>1, OpenRecords DEF CaseCreate
<1>2. ASSUME NEW s \in Staff, CaseAddEntry(s) PROVE Records'
  <2>1. PICK c \in DOMAIN cases, corrects \in 0..MaxEntries : AddNote(c, corrects)
    BY <1>2 DEF CaseAddEntry
  <2>. QED BY <2>1, EntryRecords DEF AddNote
<1>3. ASSUME NEW s \in Staff, CaseSetStatus(s) PROVE Records'
  BY <1>3, StatusRecords DEF CaseSetStatus
<1>4. ASSUME NEW s \in Staff, CaseAddParticipant(s) PROVE Records'
  <2>1. PICK c \in DOMAIN cases, p \in Players, role \in Roles : AddParticipant(s, c, p, role)
    BY <1>4 DEF CaseAddParticipant
  <2>. QED BY <2>1, EntryRecords DEF AddParticipant
<1>5. ASSUME NEW s \in Staff, CaseIssuePoints(s) PROVE Records'
  BY <1>5, PointsRecords DEF CaseIssuePoints
<1>6. ASSUME NEW s \in Staff, PointsRevoke(s) PROVE Records'
  BY <1>6, RevokeRecords DEF PointsRevoke
<1>7. ASSUME NEW s \in Staff, FlagReview(s) PROVE Records'
  <2>1. PICK f \in Flags, resolution \in {"dismiss", "watch", "open"} : ReviewFlag(f, resolution)
    BY <1>7 DEF FlagReview
  <2>. QED BY <2>1, FlagRecords DEF ReviewFlag
<1>8. ASSUME NEW w \in Web, NEW s \in Staff, BanIssue(w, s) PROVE Records'
  BY <1>8, SameTables DEF BanIssue, tables
<1>9. ASSUME NEW w \in Web, NEW s \in Staff, BanIssueNew(w, s) PROVE Records'
  <2>1. PICK p \in Players \ {s} : Open(s, {p}, None)
    BY <1>9 DEF BanIssueNew
  <2>. QED BY <2>1, OpenRecords
<1>10. ASSUME NEW w \in Web, NEW s \in Staff, BanLift(w, s) PROVE Records'
  <2>1. PICK b \in DOMAIN bans : LiftBan(b, "ban.lift")
    BY <1>10 DEF BanLift
  <2>2. UNCHANGED <<cases, awards, appeals>> /\ Rejected' = Rejected /\ Accepted' = Accepted
    BY <1>10 DEF BanLift, Rejected, Accepted
  <2>3. appeals' \in Seq(AppealRow(DOMAIN bans))
    BY <2>2 DEF Records, Tables
  <2>. QED BY <2>1, <2>2, <2>3, LiftRecords
<1>11. ASSUME NEW w \in Web, NEW s \in Staff, AppealDecide(w, s) PROVE Records'
  <2>1. PICK a \in DOMAIN appeals, accept \in BOOLEAN : DecideAppeal(s, a, accept)
    BY <1>11 DEF AppealDecide
  <2>2. UNCHANGED <<cases, awards>>
    BY <1>11 DEF AppealDecide
  <2>. QED BY <2>1, <2>2, DecideRecords
<1>12. ASSUME NEW w \in Web, InsertBan(w) PROVE Records'
  <2>. DEFINE r == request[w]
              row == [case |-> r.case, player |-> r.player, by |-> r.by,
                      scope |-> r.scope, timed |-> r.timed, state |-> "active"]
  <2>1. /\ r.at = "banning" /\ Len(bans) < MaxBans /\ bans' = Append(bans, row) /\ Log("ban.issue")
        /\ timeline' = [timeline EXCEPT ![r.case]["ban"] = @ + 1]
        /\ UNCHANGED <<cases, awards, appeals>>
    BY <1>12 DEF InsertBan
  <2>2. /\ r \in [at : {"asked", "banning"}, by : Staff, case : 1..MaxCases, player : Players,
                  timed : BOOLEAN, scope : {"game", "game_discord"}]
        /\ r.case \in DOMAIN cases
    BY <2>1, Fields DEF Refers
  <2>3. row \in BanRow(DOMAIN cases) /\ row.state = "active" /\ row.case = r.case /\ r.case \in 1..MaxCases
    <3>. HIDE DEF r
    <3>. QED BY <2>2 DEF BanRow
  <2>4. /\ timeline' \in [1..MaxCases -> [Kinds -> Nat]]
        /\ \A d \in 1..MaxCases, k \in Kinds :
              timeline'[d][k] = IF d = row.case /\ k = "ban" THEN timeline[d][k] + 1 ELSE timeline[d][k]
    <3>1. timeline \in [1..MaxCases -> [Kinds -> Nat]] /\ "ban" \in Kinds
      BY DEF Records, Tables, Kinds
    <3>2. timeline' = [timeline EXCEPT ![row.case]["ban"] = @ + 1] /\ row.case \in 1..MaxCases
      BY <2>1, <2>3
    <3>. HIDE DEF r, row
    <3>. QED BY <3>1, <3>2, Counting
  <2>. HIDE DEF r, row
  <2>. QED BY <2>1, <2>3, <2>4, BanRecords
<1>13. CASE AdminBan
  <2>1. PICK by \in Staff \ {extension}, timed \in Lengths :
           bans' = Append(bans, [case |-> None, player |-> extension, by |-> by,
                                 scope |-> "game", timed |-> timed, state |-> "active"])
    BY <1>13 DEF AdminBan
  <2>. DEFINE row == [case |-> None, player |-> extension, by |-> by,
                      scope |-> "game", timed |-> timed, state |-> "active"]
  <2>2. Len(bans) < MaxBans /\ Log("ban.issue") /\ UNCHANGED <<cases, timeline, awards, appeals>> /\ extension \in Players
    BY <1>13 DEF AdminBan, Others
  <2>3. row \in BanRow(DOMAIN cases) /\ row.state = "active" /\ row.case = None
    BY <2>2 DEF BanRow, Lengths
  <2>4. timeline \in [1..MaxCases -> [Kinds -> Nat]] /\ None \notin 1..MaxCases
    BY NoneIsNoNumber DEF Records, Tables
  <2>5. bans' = Append(bans, row)
    BY <2>1
  <2>. HIDE DEF row
  <2>. QED BY <2>2, <2>3, <2>4, <2>5, BanRecords
<1>14. ASSUME NEW w \in Web, SubmitAppeal(w) PROVE Records'
  <2>. DEFINE b == request[w].ban
  <2>1. b \in DOMAIN bans
    BY <1>14 DEF SubmitAppeal, Refers
  <2>2. CASE OpenAppeal(b) # {}
    BY <1>14, <2>2, SameTables DEF SubmitAppeal
  <2>3. CASE OpenAppeal(b) = {}
    <3>1. /\ appeals' = Append(appeals, [ban |-> b, status |-> "open"]) /\ AddEntry(bans[b].case, "appeal")
          /\ UNCHANGED <<cases, awards, bans, logged>>
      BY <1>14, <2>3 DEF SubmitAppeal
    <3>. HIDE DEF b
    <3>. QED BY <2>1, <3>1, SubmitRecords
  <2>. QED BY <2>2, <2>3
<1>15. CASE RunOut
  <2>1. PICK b \in DOMAIN bans : Active(b) /\ bans' = [bans EXCEPT ![b].state = "ended"]
    BY <1>15 DEF RunOut
  <2>. QED BY <1>15, <2>1, EndRecords DEF RunOut
<1>16. ASSUME NEW w \in Web, LockCase(w) \/ DiscordBan(w) \/ LookUpBan(w) PROVE Records'
  BY <1>16, SameTables DEF LockCase, DiscordBan, LookUpBan, tables
<1>17. CASE AdminBanCheck \/ Restart \/ UNCHANGED vars
  BY <1>17, SameTables DEF AdminBanCheck, Restart, vars, tables
<1>. QED BY <1>1, <1>2, <1>3, <1>4, <1>5, <1>6, <1>7, <1>8, <1>9, <1>10, <1>11, <1>12, <1>13, <1>14, <1>15,
            <1>16, <1>17 DEF Next

-----------------------------------------------------------------------------
(* What becomes of the rows.                                                 *)

LEMMA BansChange ==
    ASSUME Inductive, [Next]_vars
    PROVE  \/ bans' = bans
           \/ \E b \in DOMAIN bans, state \in {"lifted", "ended"} :
                 Active(b) /\ bans' = [bans EXCEPT ![b].state = state]
           \/ \E row \in BanRow(DOMAIN cases) :
                 /\ bans' = Append(bans, row) /\ row.state = "active"
                 /\ \/ row.case = None
                    \/ \E w \in Web : InsertBan(w) /\ row.case = request[w].case /\ row.player = request[w].player
<1>. USE DEF Inductive
<1>. DEFINE Lifting == \E b \in DOMAIN bans, state \in {"lifted", "ended"} :
                          Active(b) /\ bans' = [bans EXCEPT ![b].state = state]
            Adding == \E row \in BanRow(DOMAIN cases) :
                 /\ bans' = Append(bans, row) /\ row.state = "active"
                 /\ \/ row.case = None
                    \/ \E w \in Web : InsertBan(w) /\ row.case = request[w].case /\ row.player = request[w].player
<1>1. ASSUME NEW s \in Staff,
             \/ CaseCreate(s) \/ CaseAddEntry(s) \/ CaseSetStatus(s) \/ CaseAddParticipant(s) \/ CaseIssuePoints(s)
             \/ PointsRevoke(s) \/ FlagReview(s)
      PROVE  bans' = bans
  BY <1>1 DEF CaseCreate, CaseAddEntry, CaseSetStatus, CaseAddParticipant, CaseIssuePoints, PointsRevoke, FlagReview,
     Open, AddNote, SetStatus, AddParticipant, IssuePoints, RevokePoints, ReviewFlag
<1>2. ASSUME NEW w \in Web, NEW s \in Staff, BanIssue(w, s) \/ BanIssueNew(w, s)
      PROVE  bans' = bans
  BY <1>2 DEF BanIssue, BanIssueNew, Open, tables
<1>3. ASSUME NEW w \in Web, NEW s \in Staff, BanLift(w, s) PROVE Lifting
  BY <1>3 DEF BanLift, LiftBan
<1>4. ASSUME NEW w \in Web, NEW s \in Staff, AppealDecide(w, s) PROVE bans' = bans \/ Lifting
  <2>1. PICK a \in DOMAIN appeals, accept \in BOOLEAN : DecideAppeal(s, a, accept)
    BY <1>4 DEF AppealDecide
  <2>2. appeals[a].ban \in DOMAIN bans
    BY Columns DEF Records
  <2>. QED BY <2>1, <2>2 DEF DecideAppeal, LiftBan
<1>5. ASSUME NEW w \in Web, InsertBan(w) PROVE Adding
  <2>. DEFINE r == request[w]
              row == [case |-> r.case, player |-> r.player, by |-> r.by,
                      scope |-> r.scope, timed |-> r.timed, state |-> "active"]
  <2>1. r.at = "banning" /\ bans' = Append(bans, row)
    BY <1>5 DEF InsertBan
  <2>2. /\ r \in [at : {"asked", "banning"}, by : Staff, case : 1..MaxCases, player : Players,
                  timed : BOOLEAN, scope : {"game", "game_discord"}]
        /\ r.case \in DOMAIN cases
    BY <2>1, Fields DEF Refers
  <2>3. row \in BanRow(DOMAIN cases) /\ row.state = "active" /\ row.case = r.case /\ row.player = r.player
    <3>. HIDE DEF r
    <3>. QED BY <2>2 DEF BanRow
  <2>. HIDE DEF row
  <2>. QED BY <1>5, <2>1, <2>3
<1>6. ASSUME AdminBan PROVE Adding
  <2>1. PICK by \in Staff \ {extension}, timed \in Lengths :
           bans' = Append(bans, [case |-> None, player |-> extension, by |-> by,
                                 scope |-> "game", timed |-> timed, state |-> "active"])
    BY <1>6 DEF AdminBan
  <2>. DEFINE row == [case |-> None, player |-> extension, by |-> by,
                      scope |-> "game", timed |-> timed, state |-> "active"]
  <2>2. extension \in Players
    BY <1>6 DEF AdminBan, Others
  <2>3. row \in BanRow(DOMAIN cases) /\ row.state = "active" /\ row.case = None
    BY <2>2 DEF BanRow, Lengths
  <2>4. bans' = Append(bans, row)
    BY <2>1
  <2>. HIDE DEF row
  <2>. QED BY <2>3, <2>4
<1>7. ASSUME RunOut PROVE Lifting
  BY <1>7 DEF RunOut
<1>8. ASSUME NEW w \in Web, LockCase(w) \/ DiscordBan(w) \/ SubmitAppeal(w) \/ LookUpBan(w) PROVE bans' = bans
  BY <1>8 DEF LockCase, DiscordBan, SubmitAppeal, LookUpBan, tables
<1>9. ASSUME AdminBanCheck \/ Restart \/ UNCHANGED vars PROVE bans' = bans
  BY <1>9 DEF AdminBanCheck, Restart, vars, tables
<1>. HIDE DEF Lifting, Adding
<1>10. bans' = bans \/ Lifting \/ Adding
  BY <1>1, <1>2, <1>3, <1>4, <1>5, <1>6, <1>7, <1>8, <1>9 DEF Next
<1>. QED BY <1>10 DEF Lifting, Adding

\* Rows stay: a ban changes in its state only, and only while it is active.
LEMMA BansStay ==
    ASSUME Inductive, [Next]_vars
    PROVE  /\ DOMAIN bans \subseteq DOMAIN bans'
           /\ \A b \in DOMAIN bans :
                 /\ bans'[b].case = bans[b].case /\ bans'[b].player = bans[b].player /\ bans'[b].scope = bans[b].scope
                 /\ bans'[b].state = bans[b].state \/ (bans[b].state = "active" /\ bans'[b].state \in {"lifted", "ended"})
<1>. USE DEF Inductive, Records
<1>1. CASE bans' = bans
  BY <1>1
<1>2. ASSUME NEW b \in DOMAIN bans, NEW state \in {"lifted", "ended"}, Active(b),
             bans' = [bans EXCEPT ![b].state = state]
      PROVE  /\ DOMAIN bans \subseteq DOMAIN bans'
             /\ \A d \in DOMAIN bans :
                   /\ bans'[d].case = bans[d].case /\ bans'[d].player = bans[d].player /\ bans'[d].scope = bans[d].scope
                   /\ bans'[d].state = bans[d].state \/ (bans[d].state = "active" /\ bans'[d].state \in {"lifted", "ended"})
  <2>1. /\ DOMAIN bans' = DOMAIN bans /\ bans'[b].state = state
        /\ \A d \in DOMAIN bans \ {b} : bans'[d] = bans[d]
        /\ \A d \in DOMAIN bans : /\ bans'[d].case = bans[d].case /\ bans'[d].player = bans[d].player
                                  /\ bans'[d].scope = bans[d].scope
    BY <1>2, StateOfBan
  <2>. QED BY <1>2, <2>1 DEF Active
<1>3. ASSUME NEW row \in BanRow(DOMAIN cases), bans' = Append(bans, row)
      PROVE  DOMAIN bans \subseteq DOMAIN bans' /\ \A b \in DOMAIN bans : bans'[b] = bans[b]
  <2>1. bans \in Seq(BanRow(DOMAIN cases))
    BY DEF Tables
  <2>. QED BY <1>3, <2>1, AddRow
<1>. QED BY <1>1, <1>2, <1>3, BansChange

LEMMA CasesStay ==
    ASSUME Inductive, [Next]_vars
    PROVE  /\ DOMAIN cases \subseteq DOMAIN cases'
           /\ \A c \in DOMAIN cases : Locked(c) => cases'[c].status = cases[c].status
<1>. USE DEF Inductive, Records
<1>1. ASSUME NEW s, NEW subjects \in SUBSET Players, NEW f \in Flags \cup {None}, Open(s, subjects, f)
      PROVE  DOMAIN cases \subseteq DOMAIN cases' /\ \A c \in DOMAIN cases : cases'[c] = cases[c]
  <2>. DEFINE row == NewCase(subjects, f)
  <2>1. cases \in Seq(CaseRow) /\ row \in CaseRow /\ cases' = Append(cases, row)
    BY <1>1, NewCaseRow DEF Open, Tables, NewCase
  <2>. HIDE DEF row
  <2>. QED BY <2>1, AddRow
<1>2. ASSUME NEW s \in Staff, CaseCreate(s)
      PROVE  DOMAIN cases \subseteq DOMAIN cases' /\ \A c \in DOMAIN cases : cases'[c] = cases[c]
  BY <1>1, <1>2 DEF CaseCreate
<1>3. ASSUME NEW w \in Web, NEW s \in Staff, BanIssueNew(w, s)
      PROVE  DOMAIN cases \subseteq DOMAIN cases' /\ \A c \in DOMAIN cases : cases'[c] = cases[c]
  BY <1>1, <1>3 DEF BanIssueNew
<1>4. ASSUME NEW s \in Staff, CaseSetStatus(s)
      PROVE  /\ DOMAIN cases \subseteq DOMAIN cases'
             /\ \A c \in DOMAIN cases : Locked(c) => cases'[c].status = cases[c].status
  <2>1. PICK d \in DOMAIN cases, status \in {"open", "closed"} : SetStatus(d, status)
    BY <1>4 DEF CaseSetStatus
  <2>2. cases' = [cases EXCEPT ![d].status = status] /\ ~Locked(d)
    <3>1. d # None
      BY Columns, NoneIsNoNumber
    <3>. QED BY <2>1, <3>1 DEF SetStatus, AddEntry
  <2>. QED BY <2>2
<1>5. ASSUME NEW s \in Staff,
             CaseAddEntry(s) \/ CaseAddParticipant(s) \/ CaseIssuePoints(s) \/ PointsRevoke(s) \/ FlagReview(s)
      PROVE  cases' = cases
  BY <1>5 DEF CaseAddEntry, CaseAddParticipant, CaseIssuePoints, PointsRevoke, FlagReview,
     AddNote, AddParticipant, IssuePoints, RevokePoints, ReviewFlag
<1>6. ASSUME NEW w \in Web, NEW s \in Staff, BanIssue(w, s) \/ BanLift(w, s) \/ AppealDecide(w, s)
      PROVE  cases' = cases
  BY <1>6 DEF BanIssue, BanLift, AppealDecide, tables
<1>7. ASSUME NEW w \in Web, LockCase(w) \/ InsertBan(w) \/ DiscordBan(w) \/ SubmitAppeal(w) \/ LookUpBan(w)
      PROVE  cases' = cases
  BY <1>7 DEF LockCase, InsertBan, DiscordBan, SubmitAppeal, LookUpBan, tables
<1>8. CASE AdminBanCheck \/ AdminBan \/ RunOut \/ Restart \/ UNCHANGED vars
  BY <1>8 DEF AdminBanCheck, AdminBan, RunOut, Restart, vars, tables
<1>. QED BY <1>2, <1>3, <1>4, <1>5, <1>6, <1>7, <1>8 DEF Next

-----------------------------------------------------------------------------
(* What requests go on to, and the other variables.                          *)

Telling == [at : {"telling"}, player : Linked, lift : BOOLEAN]
Asking(C) == [at : {"asked"}, by : Staff, case : C, player : Players, timed : BOOLEAN, scope : {"game", "game_discord"}]

\* What a request may become in a step.
Moves(w) ==
    \/ request'[w] = request[w]
    \/ request'[w] = Idle
    \/ request'[w] \in Asking(DOMAIN cases')
    \/ LockCase(w) /\ request'[w] = [request[w] EXCEPT !.at = "banning"]
    \/ /\ request'[w] \in Telling
       /\ \E b \in DOMAIN bans' : /\ bans'[b].player = request'[w].player /\ bans'[b].scope = "game_discord"
                                  /\ request'[w].lift => bans'[b].state = "lifted"
    \/ request'[w] \in [at : {"appealing"}, ban : DOMAIN bans]

\* After a ban or a lift: the request tells Discord of it, or is over.
LEMMA ThenDiscordMoves ==
    ASSUME request \in [Web -> Requests], NEW v \in Web, NEW w \in Web, NEW p, NEW scope, NEW lift \in BOOLEAN,
           ThenDiscord(v, p, scope, lift),
           NEW b \in DOMAIN bans', bans'[b].player = p, bans'[b].scope = scope, lift => bans'[b].state = "lifted"
    PROVE  Moves(w)
<1>1. CASE w # v
  BY <1>1 DEF ThenDiscord, Moves
<1>2. CASE w = v /\ scope = "game_discord" /\ p \in Linked
  <2>1. request'[w] = [at |-> "telling", player |-> p, lift |-> lift]
    BY <1>2 DEF ThenDiscord
  <2>2. request'[w] \in Telling /\ request'[w].player = p /\ request'[w].lift = lift
    BY <1>2, <2>1 DEF Telling
  <2>. QED BY <1>2, <2>2 DEF Moves
<1>3. CASE w = v /\ ~(scope = "game_discord" /\ p \in Linked)
  BY <1>3 DEF ThenDiscord, Moves
<1>. QED BY <1>1, <1>2, <1>3

LEMMA RequestsMove ==
    ASSUME Inductive, [Next]_vars, NEW w \in Web
    PROVE  Moves(w)
<1>. USE DEF Inductive
<1>1. ASSUME NEW s \in Staff,
             \/ CaseCreate(s) \/ CaseAddEntry(s) \/ CaseSetStatus(s) \/ CaseAddParticipant(s) \/ CaseIssuePoints(s)
             \/ PointsRevoke(s) \/ FlagReview(s)
      PROVE  Moves(w)
  BY <1>1 DEF CaseCreate, CaseAddEntry, CaseSetStatus, CaseAddParticipant, CaseIssuePoints, PointsRevoke, FlagReview,
     Moves
<1>2. ASSUME NEW v \in Web, NEW s \in Staff, BanIssue(v, s) PROVE Moves(w)
  <2>1. PICK c \in DOMAIN cases, p \in Players \ {s}, timed \in Lengths, scope \in Scopes :
           request' = [request EXCEPT ![v] = Asked(s, c, p, timed, scope)]
    BY <1>2 DEF BanIssue
  <2>2. cases' = cases
    BY <1>2 DEF BanIssue, tables
  <2>3. Asked(s, c, p, timed, scope) \in Asking(DOMAIN cases)
    BY DEF Asked, Asking, Lengths, Scopes
  <2>. QED BY <2>1, <2>2, <2>3 DEF Moves
<1>3. ASSUME NEW v \in Web, NEW s \in Staff, BanIssueNew(v, s) PROVE Moves(w)
  <2>1. PICK p \in Players \ {s}, timed \in Lengths, scope \in Scopes :
           Open(s, {p}, None) /\ request' = [request EXCEPT ![v] = Asked(s, Len(cases) + 1, p, timed, scope)]
    BY <1>3 DEF BanIssueNew
  <2>. DEFINE row == NewCase({p}, None)
  <2>2. cases \in Seq(CaseRow) /\ row \in CaseRow /\ cases' = Append(cases, row)
    BY <2>1, NewCaseRow DEF Open, Records, Tables, NewCase
  <2>3. Len(cases) + 1 \in DOMAIN cases'
    <3>. HIDE DEF row
    <3>. QED BY <2>2, AddRow
  <2>4. Asked(s, Len(cases) + 1, p, timed, scope) \in Asking(DOMAIN cases')
    BY <2>3 DEF Asked, Asking, Lengths, Scopes
  <2>. QED BY <2>1, <2>4 DEF Moves
<1>4. ASSUME NEW v \in Web, NEW s \in Staff, BanLift(v, s) PROVE Moves(w)
  <2>1. PICK b \in DOMAIN bans : LiftBan(b, "ban.lift") /\ ThenDiscord(v, bans[b].player, bans[b].scope, TRUE)
    BY <1>4 DEF BanLift
  <2>2. b \in DOMAIN bans' /\ bans'[b].state = "lifted" /\ bans'[b].player = bans[b].player /\ bans'[b].scope = bans[b].scope
    BY <2>1, StateOfBan DEF LiftBan, Records
  <2>. QED BY <2>1, <2>2, ThenDiscordMoves
<1>5. ASSUME NEW v \in Web, NEW s \in Staff, AppealDecide(v, s) PROVE Moves(w)
  <2>1. PICK a \in DOMAIN appeals, accept \in BOOLEAN :
           /\ DecideAppeal(s, a, accept)
           /\ IF accept THEN ThenDiscord(v, bans[appeals[a].ban].player, bans[appeals[a].ban].scope, TRUE)
              ELSE UNCHANGED request
    BY <1>5 DEF AppealDecide
  <2>2. CASE accept
    <3>. DEFINE b == appeals[a].ban
    <3>1. b \in DOMAIN bans /\ LiftBan(b, "ban.appeal_accept") /\ ThenDiscord(v, bans[b].player, bans[b].scope, TRUE)
      BY <2>1, <2>2, Columns DEF DecideAppeal, Records
    <3>. HIDE DEF b
    <3>2. b \in DOMAIN bans' /\ bans'[b].state = "lifted" /\ bans'[b].player = bans[b].player /\ bans'[b].scope = bans[b].scope
      BY <3>1, StateOfBan DEF LiftBan, Records
    <3>. QED BY <3>1, <3>2, ThenDiscordMoves
  <2>3. CASE ~accept
    BY <2>1, <2>3 DEF Moves
  <2>. QED BY <2>2, <2>3
<1>6. ASSUME NEW v \in Web, LockCase(v) PROVE Moves(w)
  BY <1>6 DEF LockCase, Moves
<1>7. ASSUME NEW v \in Web, InsertBan(v) PROVE Moves(w)
  <2>. DEFINE r == request[v]
              row == [case |-> r.case, player |-> r.player, by |-> r.by,
                      scope |-> r.scope, timed |-> r.timed, state |-> "active"]
              n == Len(bans) + 1
  <2>1. r.at = "banning" /\ bans' = Append(bans, row) /\ ThenDiscord(v, r.player, r.scope, FALSE)
    BY <1>7 DEF InsertBan
  <2>2. /\ r \in [at : {"asked", "banning"}, by : Staff, case : 1..MaxCases, player : Players,
                  timed : BOOLEAN, scope : {"game", "game_discord"}]
        /\ r.case \in DOMAIN cases
    BY <2>1, Fields DEF Refers
  <2>3. row \in BanRow(DOMAIN cases) /\ row.player = r.player /\ row.scope = r.scope
    <3>. HIDE DEF r
    <3>. QED BY <2>2 DEF BanRow
  <2>4. bans \in Seq(BanRow(DOMAIN cases))
    BY DEF Records, Tables
  <2>. HIDE DEF row, r
  <2>5. n \in DOMAIN bans' /\ bans'[n] = row
    BY <2>1, <2>3, <2>4, AddRow
  <2>. HIDE DEF n
  <2>. QED BY <2>1, <2>3, <2>5, ThenDiscordMoves
<1>8. ASSUME NEW v \in Web, LookUpBan(v) PROVE Moves(w)
  <2>1. PICK b \in DOMAIN bans : request' = [request EXCEPT ![v] = [at |-> "appealing", ban |-> b]]
    BY <1>8 DEF LookUpBan
  <2>2. [at |-> "appealing", ban |-> b] \in [at : {"appealing"}, ban : DOMAIN bans]
    OBVIOUS
  <2>. QED BY <2>1, <2>2 DEF Moves
<1>9. ASSUME NEW v \in Web, DiscordBan(v) \/ SubmitAppeal(v) PROVE Moves(w)
  BY <1>9 DEF DiscordBan, SubmitAppeal, Moves
<1>10. CASE AdminBanCheck \/ AdminBan \/ RunOut \/ Restart \/ UNCHANGED vars
  BY <1>10 DEF AdminBanCheck, AdminBan, RunOut, Restart, vars, Moves
<1>. QED BY <1>1, <1>2, <1>3, <1>4, <1>5, <1>6, <1>7, <1>8, <1>9, <1>10 DEF Next

LEMMA RequestStep ==
    ASSUME Inductive, [Next]_vars
    PROVE  request' \in [Web -> Requests] /\ Refers' /\ Tells'
<1>. USE DEF Inductive
<1>1. /\ DOMAIN cases \subseteq DOMAIN cases' /\ DOMAIN cases' \subseteq 1..MaxCases
      /\ DOMAIN bans \subseteq DOMAIN bans' /\ DOMAIN bans \subseteq 1..MaxBans
      /\ \A b \in DOMAIN bans :
            /\ bans'[b].player = bans[b].player /\ bans'[b].scope = bans[b].scope
            /\ bans[b].state = "lifted" => bans'[b].state = "lifted"
  <2>1. DOMAIN bans \subseteq 1..MaxBans
    BY Columns, BoundsType DEF Records
  <2>2. DOMAIN cases' \subseteq 1..MaxCases
    <3>1. Tables'
      BY RecordsStep DEF Records
    <3>2. DOMAIN cases' = 1..Len(cases') /\ Len(cases') \in Nat /\ Len(cases') <= MaxCases
      BY <3>1, Elements DEF Tables
    <3>. QED BY <3>2, BoundsType
  <2>. QED BY <2>1, <2>2, CasesStay, BansStay
<1>2. ASSUME NEW w \in Web
      PROVE  /\ request'[w] \in Requests
             /\ request'[w].at \in {"asked", "banning"} => request'[w].case \in DOMAIN cases'
             /\ request'[w].at = "appealing" => request'[w].ban \in DOMAIN bans'
             /\ request'[w].at = "telling" =>
                   \E b \in DOMAIN bans' : /\ bans'[b].player = request'[w].player /\ bans'[b].scope = "game_discord"
                                           /\ request'[w].lift => bans'[b].state = "lifted"
  <2>1. CASE request'[w] = request[w]
    <3>1. request'[w].at = "telling" =>
            \E b \in DOMAIN bans : /\ bans[b].player = request'[w].player /\ bans[b].scope = "game_discord"
                                   /\ request'[w].lift => bans[b].state = "lifted"
      BY <2>1 DEF Tells, DiscordBans
    <3>2. request'[w].at = "telling" =>
            \E b \in DOMAIN bans' : /\ bans'[b].player = request'[w].player /\ bans'[b].scope = "game_discord"
                                    /\ request'[w].lift => bans'[b].state = "lifted"
      BY <1>1, <3>1
    <3>3. /\ request'[w] \in Requests
          /\ request'[w].at \in {"asked", "banning"} => request'[w].case \in DOMAIN cases
          /\ request'[w].at = "appealing" => request'[w].ban \in DOMAIN bans
      BY <2>1 DEF Refers
    <3>. QED BY <1>1, <3>2, <3>3
  <2>2. CASE request'[w] = Idle
    BY <2>2 DEF Idle, Requests
  <2>3. CASE request'[w] \in Asking(DOMAIN cases')
    BY <1>1, <2>3 DEF Asking, Requests
  <2>4. CASE LockCase(w) /\ request'[w] = [request[w] EXCEPT !.at = "banning"]
    <3>1. request[w].at = "asked"
      BY <2>4 DEF LockCase
    <3>2. /\ request[w] \in [at : {"asked", "banning"}, by : Staff, case : 1..MaxCases, player : Players,
                             timed : BOOLEAN, scope : {"game", "game_discord"}]
          /\ request[w].case \in DOMAIN cases
      BY <3>1, Fields DEF Refers
    <3>3. /\ request'[w] \in [at : {"asked", "banning"}, by : Staff, case : 1..MaxCases, player : Players,
                              timed : BOOLEAN, scope : {"game", "game_discord"}]
          /\ request'[w].case = request[w].case /\ request'[w].at = "banning"
      BY <2>4, <3>2
    <3>. QED BY <1>1, <3>2, <3>3 DEF Requests
  <2>5. CASE /\ request'[w] \in Telling
             /\ \E b \in DOMAIN bans' : /\ bans'[b].player = request'[w].player /\ bans'[b].scope = "game_discord"
                                        /\ request'[w].lift => bans'[b].state = "lifted"
    BY <2>5 DEF Telling, Requests
  <2>6. CASE request'[w] \in [at : {"appealing"}, ban : DOMAIN bans]
    BY <1>1, <2>6 DEF Requests
  <2>. QED BY RequestsMove, <2>1, <2>2, <2>3, <2>4, <2>5, <2>6 DEF Moves
<1>3. DOMAIN request' = Web /\ request' = [w \in Web |-> request'[w]]
  <2>1. ASSUME NEW w \in Web, NEW x, request' = [request EXCEPT ![w] = x]
        PROVE  DOMAIN request' = Web /\ request' = [v \in Web |-> request'[v]]
    BY <2>1
  <2>2. CASE request' = request
    BY <2>2
  <2>3. CASE request' = [w \in Web |-> Idle]
    BY <2>3
  <2>. QED BY <2>1, <2>2, <2>3
     DEF Next, vars, CaseCreate, CaseAddEntry, CaseSetStatus, CaseAddParticipant, CaseIssuePoints, PointsRevoke,
         FlagReview, BanIssue, BanIssueNew, BanLift, AppealDecide, ThenDiscord, LockCase, InsertBan, DiscordBan,
         SubmitAppeal, LookUpBan, AdminBanCheck, AdminBan, RunOut, Restart
<1>4. request' \in [Web -> Requests] /\ Refers'
  BY <1>2, <1>3 DEF Refers
<1>5. Tells'
  BY <1>2 DEF Tells, DiscordBans
<1>. QED BY <1>4, <1>5

LEMMA PeopleStep ==
    ASSUME Inductive, [Next]_vars
    PROVE  people' \subseteq (DOMAIN cases') \X Players \X (Roles \cup {"subject"})
<1>. USE DEF Inductive, Others
<1>1. DOMAIN cases \subseteq DOMAIN cases'
  BY CasesStay
<1>2. CASE people' = people
  BY <1>1, <1>2
<1>3. ASSUME NEW s, NEW subjects \in SUBSET Players, NEW f \in Flags \cup {None}, Open(s, subjects, f)
      PROVE  people' \subseteq (DOMAIN cases') \X Players \X (Roles \cup {"subject"})
  <2>. DEFINE row == NewCase(subjects, f)
              n == Len(cases) + 1
  <2>1. /\ cases \in Seq(CaseRow) /\ row \in CaseRow /\ cases' = Append(cases, row)
        /\ people' = people \cup {<<n, p, "subject">> : p \in subjects}
    BY <1>3, NewCaseRow DEF Open, Records, Tables, NewCase
  <2>. HIDE DEF row
  <2>2. n \in DOMAIN cases'
    BY <2>1, AddRow
  <2>. HIDE DEF n
  <2>. QED BY <1>1, <2>1, <2>2
<1>4. ASSUME NEW s \in Staff, CaseCreate(s)
      PROVE  people' \subseteq (DOMAIN cases') \X Players \X (Roles \cup {"subject"})
  BY <1>3, <1>4 DEF CaseCreate
<1>5. ASSUME NEW w \in Web, NEW s \in Staff, BanIssueNew(w, s)
      PROVE  people' \subseteq (DOMAIN cases') \X Players \X (Roles \cup {"subject"})
  <2>1. PICK p \in Players : Open(s, {p}, None)
    BY <1>5 DEF BanIssueNew
  <2>. QED BY <1>3, <2>1
<1>6. ASSUME NEW s \in Staff, CaseAddParticipant(s)
      PROVE  people' \subseteq (DOMAIN cases') \X Players \X (Roles \cup {"subject"})
  <2>1. PICK c \in DOMAIN cases, p \in Players, role \in Roles : people' = people \cup {<<c, p, role>>}
    BY <1>6 DEF CaseAddParticipant, AddParticipant
  <2>. QED BY <1>1, <2>1
<1>7. ASSUME NEW s \in Staff,
             CaseAddEntry(s) \/ CaseSetStatus(s) \/ CaseIssuePoints(s) \/ PointsRevoke(s) \/ FlagReview(s)
      PROVE  people' = people
  BY <1>7 DEF CaseAddEntry, CaseSetStatus, CaseIssuePoints, PointsRevoke, FlagReview,
     AddNote, SetStatus, IssuePoints, RevokePoints, ReviewFlag
<1>8. ASSUME NEW w \in Web, NEW s \in Staff, BanIssue(w, s) \/ BanLift(w, s) \/ AppealDecide(w, s)
      PROVE  people' = people
  BY <1>8 DEF BanIssue, BanLift, AppealDecide, tables
<1>9. ASSUME NEW w \in Web, LockCase(w) \/ InsertBan(w) \/ DiscordBan(w) \/ SubmitAppeal(w) \/ LookUpBan(w)
      PROVE  people' = people
  BY <1>9 DEF LockCase, InsertBan, DiscordBan, SubmitAppeal, LookUpBan, tables
<1>10. CASE AdminBanCheck \/ AdminBan \/ RunOut \/ Restart \/ UNCHANGED vars
  BY <1>2, <1>10 DEF AdminBanCheck, AdminBan, RunOut, Restart, vars, tables
<1>. QED BY <1>2, <1>4, <1>5, <1>6, <1>7, <1>8, <1>9, <1>10 DEF Next

LEMMA OthersStep ==
    ASSUME Inductive, [Next]_vars
    PROVE  Others'
<1>. DEFINE Rest == /\ flags \in [Flags -> {"open", "dismiss", "watch", "case"}]
                    /\ notices \in [Players -> Nat]
                    /\ discord \subseteq Linked
                    /\ extension \in Players \cup {None}
                    /\ offered \in Scenarios
<1>. USE DEF Inductive, Others
<1>1. ASSUME NEW s, NEW subjects, NEW f \in Flags \cup {None}, Open(s, subjects, f)
      PROVE  flags' \in [Flags -> {"open", "dismiss", "watch", "case"}] /\ notices' = notices
  BY <1>1 DEF Open
<1>2. ASSUME NEW s \in Staff, CaseCreate(s) PROVE Rest'
  BY <1>1, <1>2 DEF CaseCreate
<1>3. ASSUME NEW s \in Staff, CaseAddParticipant(s) PROVE Rest'
  BY <1>3 DEF CaseAddParticipant, AddParticipant, Notify
<1>4. ASSUME NEW s \in Staff, FlagReview(s) PROVE Rest'
  BY <1>4 DEF FlagReview, ReviewFlag
<1>5. ASSUME NEW s \in Staff, CaseAddEntry(s) \/ CaseSetStatus(s) \/ CaseIssuePoints(s) \/ PointsRevoke(s)
      PROVE  Rest'
  BY <1>5 DEF CaseAddEntry, CaseSetStatus, CaseIssuePoints, PointsRevoke, AddNote, SetStatus, IssuePoints, RevokePoints
<1>6. ASSUME NEW w \in Web, NEW s \in Staff, BanIssueNew(w, s) PROVE Rest'
  BY <1>1, <1>6 DEF BanIssueNew
<1>7. ASSUME NEW w \in Web, NEW s \in Staff, BanIssue(w, s) \/ BanLift(w, s) PROVE Rest'
  BY <1>7 DEF BanIssue, BanLift, tables
<1>8. ASSUME NEW w \in Web, NEW s \in Staff, AppealDecide(w, s) PROVE Rest'
  <2>1. PICK a \in DOMAIN appeals, accept \in BOOLEAN : DecideAppeal(s, a, accept)
    BY <1>8 DEF AppealDecide
  <2>2. bans[appeals[a].ban].player \in Players
    BY Columns DEF Records
  <2>3. notices' \in [Players -> Nat]
    BY <2>1, <2>2 DEF DecideAppeal, Notify
  <2>. QED BY <1>8, <2>3 DEF AppealDecide
<1>9. ASSUME NEW w \in Web, DiscordBan(w) PROVE Rest'
  <2>1. request[w] \in [at : {"telling"}, player : Linked, lift : BOOLEAN]
    BY <1>9, Fields DEF DiscordBan
  <2>2. discord' \subseteq Linked
    BY <1>9, <2>1 DEF DiscordBan, BanMember, UnbanMember
  <2>. QED BY <1>9, <2>2 DEF DiscordBan, tables
<1>10. ASSUME NEW w \in Web, LockCase(w) \/ InsertBan(w) \/ SubmitAppeal(w) \/ LookUpBan(w) PROVE Rest'
  BY <1>10 DEF LockCase, InsertBan, SubmitAppeal, LookUpBan, tables
<1>11. ASSUME AdminBanCheck \/ AdminBan \/ RunOut \/ Restart \/ UNCHANGED vars PROVE Rest'
  BY <1>11 DEF AdminBanCheck, AdminBan, RunOut, Restart, vars, tables
<1>12. Rest'
  <2>. HIDE DEF Rest
  <2>. QED BY <1>2, <1>3, <1>4, <1>5, <1>6, <1>7, <1>8, <1>9, <1>10, <1>11 DEF Next
<1>. QED BY <1>12, PeopleStep

-----------------------------------------------------------------------------
(* The lock of a case, and one ban and one appeal at a time.                 *)

LEMMA LockHoldsStep ==
    ASSUME Inductive, [Next]_vars
    PROVE  LockHolds'
<1>. USE DEF Inductive
<1>. SUFFICES ASSUME NEW w \in Web, request'[w].at = "banning"
              PROVE  /\ \A v \in Web : request'[v].at = "banning" /\ request'[v].case = request'[w].case => v = w
                     /\ cases'[request'[w].case].status = "open"
                     /\ \A b \in DOMAIN bans' :
                           ~ /\ bans'[b].state = "active"
                             /\ bans'[b].case = request'[w].case /\ bans'[b].player = request'[w].player
  BY DEF LockHolds, Active
\* A request gets to "banning" by locking its case, when nobody has it.
<1>1. ASSUME NEW v \in Web, request'[v].at = "banning"
      PROVE  \/ request[v].at = "banning" /\ request'[v] = request[v]
             \/ LockCase(v) /\ request'[v] = [request[v] EXCEPT !.at = "banning"]
  BY <1>1, RequestsMove DEF Moves, Idle, Asking, Telling
<1>2. CASE LockCase(w) /\ request'[w] = [request[w] EXCEPT !.at = "banning"]
  <2>. DEFINE r == request[w]
  <2>1. /\ r \in [at : {"asked", "banning"}, by : Staff, case : 1..MaxCases, player : Players,
                  timed : BOOLEAN, scope : {"game", "game_discord"}]
        /\ r.at = "asked"
    BY <1>2, Fields DEF LockCase
  <2>2. request'[w].case = r.case /\ request'[w].player = r.player /\ request'[w].at = "banning"
    BY <1>2, <2>1
  <2>3. ~Locked(r.case) /\ cases[r.case].status = "open" /\ ActiveBans(r.player) = {}
    <3>1. request'[w] # Idle
      BY <2>2 DEF Idle
    <3>. QED BY <1>2, <3>1 DEF LockCase
  <2>4. UNCHANGED <<cases, bans>> /\ \A v \in Web \ {w} : request'[v] = request[v]
    BY <1>2 DEF LockCase, tables
  <2>. HIDE DEF r
  <2>5. \A v \in Web : request'[v].at = "banning" /\ request'[v].case = request'[w].case => v = w
    BY <2>2, <2>3, <2>4 DEF Locked
  <2>. QED BY <2>2, <2>3, <2>4, <2>5 DEF ActiveBans, Active
<1>3. CASE request[w].at = "banning" /\ request'[w] = request[w]
  <2>. DEFINE c == request[w].case
              p == request[w].player
  <2>1. /\ \A v \in Web : request[v].at = "banning" /\ request[v].case = c => v = w
        /\ cases[c].status = "open" /\ c \in DOMAIN cases /\ Locked(c)
        /\ \A b \in DOMAIN bans : ~(bans[b].state = "active" /\ bans[b].case = c /\ bans[b].player = p)
    BY <1>3 DEF LockHolds, Refers, Active, Locked
  <2>2. request'[w].case = c /\ request'[w].player = p
    BY <1>3
  <2>. HIDE DEF c, p
  <2>3. cases'[c].status = "open"
    BY <2>1, CasesStay
  <2>4. ASSUME NEW v \in Web, request'[v].at = "banning", request'[v].case = c
        PROVE  v = w
    <3>1. CASE request[v].at = "banning" /\ request'[v] = request[v]
      BY <2>1, <2>4, <3>1
    <3>2. CASE LockCase(v) /\ request'[v] = [request[v] EXCEPT !.at = "banning"]
      <4>1. request[v].case = c
        <5>1. request[v] \in [at : {"asked", "banning"}, by : Staff, case : 1..MaxCases, player : Players,
                              timed : BOOLEAN, scope : {"game", "game_discord"}]
          BY <3>2, Fields DEF LockCase
        <5>. QED BY <2>4, <3>2, <5>1
      <4>2. ~Locked(c)
        BY <3>2, <4>1 DEF LockCase
      <4>. QED BY <2>1, <4>2
    <3>. QED BY <1>1, <2>4, <3>1, <3>2
  <2>5. ASSUME NEW b \in DOMAIN bans', bans'[b].state = "active", bans'[b].case = c, bans'[b].player = p
        PROVE  FALSE
    <3>1. b \notin DOMAIN bans
      BY <2>1, <2>5, BansStay
    <3>2. PICK row \in BanRow(DOMAIN cases) :
             /\ bans' = Append(bans, row)
             /\ row.case = None \/ \E v \in Web : InsertBan(v) /\ row.case = request[v].case
      <4>1. CASE bans' = bans
        BY <2>5, <3>1, <4>1
      <4>2. ASSUME NEW d \in DOMAIN bans, NEW state \in {"lifted", "ended"}, bans' = [bans EXCEPT ![d].state = state]
            PROVE  FALSE
        BY <2>5, <3>1, <4>2, StateOfBan DEF Records
      <4>. QED BY <4>1, <4>2, BansChange
    <3>3. bans \in Seq(BanRow(DOMAIN cases))
      BY DEF Records, Tables
    <3>4. bans'[b] = row
      BY <2>5, <3>1, <3>2, <3>3, AddRow
    <3>5. c # None
      BY <2>1, Columns, NoneIsNoNumber DEF Records
    <3>6. PICK v \in Web : InsertBan(v) /\ request[v].case = c
      BY <2>5, <3>2, <3>4, <3>5
    <3>7. v = w
      BY <2>1, <3>6 DEF InsertBan
    <3>8. request'[w].at # "banning"
      BY <3>6, <3>7 DEF InsertBan, ThenDiscord, Idle
    <3>. QED BY <1>3, <3>8
  <2>. QED BY <2>2, <2>3, <2>4, <2>5
<1>. QED BY <1>1, <1>2, <1>3

LEMMA OneBanStep ==
    ASSUME Inductive, [Next]_vars
    PROVE  OneBan'
<1>. USE DEF Inductive
<1>. SUFFICES ASSUME NEW b \in DOMAIN bans', NEW d \in DOMAIN bans',
                     bans'[b].state = "active", bans'[d].state = "active", bans'[b].case # None,
                     bans'[b].case = bans'[d].case, bans'[b].player = bans'[d].player
              PROVE  b = d
  BY DEF OneBan, Active
<1>1. CASE b \in DOMAIN bans /\ d \in DOMAIN bans
  BY <1>1, BansStay DEF OneBan, Active
<1>2. CASE bans' = bans
  BY <1>1, <1>2
<1>3. ASSUME NEW e \in DOMAIN bans, NEW state \in {"lifted", "ended"}, bans' = [bans EXCEPT ![e].state = state]
      PROVE  b = d
  BY <1>1, <1>3, StateOfBan DEF Records
<1>4. ASSUME NEW row \in BanRow(DOMAIN cases), bans' = Append(bans, row),
             \/ row.case = None
             \/ \E w \in Web : InsertBan(w) /\ row.case = request[w].case /\ row.player = request[w].player
      PROVE  b = d
  <2>. DEFINE n == Len(bans) + 1
  <2>1. bans \in Seq(BanRow(DOMAIN cases))
    BY DEF Records, Tables
  <2>2. DOMAIN bans' = DOMAIN bans \cup {n} /\ bans'[n] = row /\ \A e \in DOMAIN bans : bans'[e] = bans[e]
    BY <1>4, <2>1, AddRow
  <2>. HIDE DEF n
  <2>3. ASSUME NEW e \in DOMAIN bans, row.case # None, bans[e].state = "active",
               bans[e].case = row.case, bans[e].player = row.player
        PROVE  FALSE
    <3>1. PICK w \in Web : InsertBan(w) /\ row.case = request[w].case /\ row.player = request[w].player
      BY <1>4, <2>3
    <3>2. request[w].at = "banning"
      BY <3>1 DEF InsertBan
    <3>. QED BY <2>3, <3>1, <3>2 DEF LockHolds, Active
  <2>. QED BY <1>1, <2>2, <2>3
<1>. QED BY <1>2, <1>3, <1>4, BansChange

LEMMA AppealsChange ==
    ASSUME Inductive, [Next]_vars
    PROVE  \/ appeals' = appeals
           \/ \E b \in DOMAIN bans : /\ appeals' = Append(appeals, [ban |-> b, status |-> "open"])
                                     /\ OpenAppeal(b) = {}
           \/ \E a \in DOMAIN appeals, status \in {"accepted", "rejected"} :
                 /\ appeals[a].status = "open" /\ appeals' = [appeals EXCEPT ![a].status = status]
                 /\ status = "accepted" => bans'[appeals[a].ban].state = "lifted"
<1>. USE DEF Inductive
<1>1. ASSUME NEW s \in Staff,
             \/ CaseCreate(s) \/ CaseAddEntry(s) \/ CaseSetStatus(s) \/ CaseAddParticipant(s) \/ CaseIssuePoints(s)
             \/ PointsRevoke(s) \/ FlagReview(s)
      PROVE  appeals' = appeals
  BY <1>1 DEF CaseCreate, CaseAddEntry, CaseSetStatus, CaseAddParticipant, CaseIssuePoints, PointsRevoke, FlagReview,
     Open, AddNote, SetStatus, AddParticipant, IssuePoints, RevokePoints, ReviewFlag
<1>2. ASSUME NEW w \in Web, NEW s \in Staff, BanIssue(w, s) \/ BanIssueNew(w, s) \/ BanLift(w, s)
      PROVE  appeals' = appeals
  BY <1>2 DEF BanIssue, BanIssueNew, BanLift, Open, tables
<1>3. ASSUME NEW w \in Web, NEW s \in Staff, AppealDecide(w, s)
      PROVE  \E a \in DOMAIN appeals, status \in {"accepted", "rejected"} :
                /\ appeals[a].status = "open" /\ appeals' = [appeals EXCEPT ![a].status = status]
                /\ status = "accepted" => bans'[appeals[a].ban].state = "lifted"
  <2>1. PICK a \in DOMAIN appeals, accept \in BOOLEAN : DecideAppeal(s, a, accept)
    BY <1>3 DEF AppealDecide
  <2>2. appeals[a].ban \in DOMAIN bans
    BY Columns DEF Records
  <2>3. CASE accept
    <3>1. LiftBan(appeals[a].ban, "ban.appeal_accept") /\ appeals[a].status = "open"
          /\ appeals' = [appeals EXCEPT ![a].status = "accepted"]
      BY <2>1, <2>3 DEF DecideAppeal
    <3>2. bans'[appeals[a].ban].state = "lifted"
      BY <2>2, <3>1, StateOfBan DEF LiftBan, Records
    <3>. QED BY <3>1, <3>2
  <2>4. CASE ~accept
    <3>1. appeals[a].status = "open" /\ appeals' = [appeals EXCEPT ![a].status = "rejected"]
      BY <2>1, <2>4 DEF DecideAppeal
    <3>. QED BY <3>1
  <2>. QED BY <2>3, <2>4
<1>4. ASSUME NEW w \in Web, SubmitAppeal(w)
      PROVE  \/ appeals' = appeals
             \/ \E b \in DOMAIN bans : /\ appeals' = Append(appeals, [ban |-> b, status |-> "open"])
                                       /\ OpenAppeal(b) = {}
  BY <1>4 DEF SubmitAppeal, Refers
<1>5. ASSUME NEW w \in Web, LockCase(w) \/ InsertBan(w) \/ DiscordBan(w) \/ LookUpBan(w) PROVE appeals' = appeals
  BY <1>5 DEF LockCase, InsertBan, DiscordBan, LookUpBan, tables
<1>6. ASSUME AdminBanCheck \/ AdminBan \/ RunOut \/ Restart \/ UNCHANGED vars PROVE appeals' = appeals
  BY <1>6 DEF AdminBanCheck, AdminBan, RunOut, Restart, vars, tables
<1>. QED BY <1>1, <1>2, <1>3, <1>4, <1>5, <1>6 DEF Next

LEMMA AppealsStep ==
    ASSUME Inductive, [Next]_vars
    PROVE  OneAppeal' /\ AppealsHonoured'
<1>. USE DEF Inductive
<1>0. /\ \A a \in DOMAIN appeals : appeals[a].ban \in DOMAIN bans
      /\ \A b \in DOMAIN bans : b \in DOMAIN bans' /\ (bans[b].state = "lifted" => bans'[b].state = "lifted")
  BY Columns, BansStay DEF Records
<1>1. CASE appeals' = appeals
  BY <1>0, <1>1 DEF OneAppeal, AppealsHonoured, Accepted, Lifted
<1>2. ASSUME NEW b \in DOMAIN bans, appeals' = Append(appeals, [ban |-> b, status |-> "open"]), OpenAppeal(b) = {}
      PROVE  OneAppeal' /\ AppealsHonoured'
  <2>. DEFINE n == Len(appeals) + 1
              row == [ban |-> b, status |-> "open"]
  <2>1. appeals \in Seq(AppealRow(DOMAIN bans)) /\ row \in AppealRow(DOMAIN bans) /\ appeals' = Append(appeals, row)
    BY <1>2 DEF Records, Tables, AppealRow
  <2>2. row.ban = b /\ row.status = "open"
    OBVIOUS
  <2>. HIDE DEF row
  <2>3. DOMAIN appeals' = DOMAIN appeals \cup {n} /\ appeals'[n] = row /\ \A a \in DOMAIN appeals : appeals'[a] = appeals[a]
    BY <2>1, AddRow
  <2>. HIDE DEF n
  <2>4. \A a \in DOMAIN appeals : ~(appeals[a].ban = b /\ appeals[a].status = "open")
    BY <1>2 DEF OpenAppeal, Appealed
  <2>5. OneAppeal'
    BY <2>2, <2>3, <2>4 DEF OneAppeal
  <2>6. AppealsHonoured'
    BY <1>0, <2>2, <2>3 DEF AppealsHonoured, Accepted, Lifted
  <2>. QED BY <2>5, <2>6
<1>3. ASSUME NEW a \in DOMAIN appeals, NEW status \in {"accepted", "rejected"}, appeals[a].status = "open",
             appeals' = [appeals EXCEPT ![a].status = status],
             status = "accepted" => bans'[appeals[a].ban].state = "lifted"
      PROVE  OneAppeal' /\ AppealsHonoured'
  <2>1. /\ DOMAIN appeals' = DOMAIN appeals /\ appeals'[a].status = status
        /\ \A e \in DOMAIN appeals : appeals'[e].ban = appeals[e].ban
        /\ \A e \in DOMAIN appeals \ {a} : appeals'[e] = appeals[e]
    BY <1>3, StatusOfAppeal DEF Records
  <2>2. OneAppeal'
    BY <2>1 DEF OneAppeal
  <2>3. AppealsHonoured'
    BY <1>0, <1>3, <2>1 DEF AppealsHonoured, Accepted, Lifted
  <2>. QED BY <2>2, <2>3
<1>. QED BY <1>1, <1>2, <1>3, AppealsChange

-----------------------------------------------------------------------------
(* Who takes part, and what was decided about flags.                         *)

\* The subjects of a new case are as many entries of people.
LEMMA SubjectsCount ==
    ASSUME NEW subjects \in SUBSET Players, NEW n
    PROVE  /\ IsFiniteSet({<<n, p, "subject">> : p \in subjects})
           /\ Cardinality({<<n, p, "subject">> : p \in subjects}) = Cardinality(subjects)
           /\ Cardinality(subjects) \in Nat
<1>. DEFINE T == {<<n, p, "subject">> : p \in subjects}
            f == [p \in subjects |-> <<n, p, "subject">>]
<1>1. IsFiniteSet(subjects)
  BY CaseworkAssumption, FS_Subset
<1>2. f \in Bijection(subjects, T)
  BY DEF Bijection, Injection, Surjection, IsInjective
<1>3. ExistsBijection(subjects, T)
  BY <1>2 DEF ExistsBijection
<1>. QED BY <1>1, <1>3, FS_Bijection, FS_CardinalityType

\* The people of a case are finitely many.
LEMMA PeopleFinite ==
    ASSUME IsFiniteSet(people), NEW c
    PROVE  IsFiniteSet(PeopleOf(c)) /\ Count(PeopleOf(c)) \in Nat
BY FS_Subset, FS_CardinalityType DEF PeopleOf, Count

LEMMA OpenTakes ==
    ASSUME Inductive, NEW s, NEW subjects \in SUBSET Players, NEW f \in Flags \cup {None}, Open(s, subjects, f)
    PROVE  Taking'
<1>. USE DEF Inductive, Taking
<1>. DEFINE n == Len(cases) + 1
            T == {<<n, p, "subject">> : p \in subjects}
            row == NewCase(subjects, f)
<1>0. n \in 1..MaxCases
  <2>1. Len(cases) < MaxCases /\ Len(cases) \in Nat
    BY Columns DEF Open, Records
  <2>. QED BY <2>1, BoundsType
<1>1. /\ cases \in Seq(CaseRow) /\ row \in CaseRow /\ cases' = Append(cases, row)
      /\ row.players = Cardinality(subjects) /\ people' = people \cup T
      /\ timeline' = [timeline EXCEPT ![n] = [@ EXCEPT !["note"] = 1, !["flag"] = IF f = None THEN 0 ELSE 1]]
  BY NewCaseRow DEF Open, NewCase, Records, Tables
<1>2. timeline \in [1..MaxCases -> [Kinds -> Nat]] /\ \A c \in (1..MaxCases) \ DOMAIN cases : timeline[c]["participant"] = 0
  BY DEF Records, Tables, Blank, Kinds
<1>3. IsFiniteSet(T) /\ Cardinality(T) = Cardinality(subjects) /\ Cardinality(subjects) \in Nat
  BY SubjectsCount
<1>. HIDE DEF row
<1>4. /\ DOMAIN cases' = DOMAIN cases \cup {n} /\ n \notin DOMAIN cases /\ cases'[n] = row
      /\ \A c \in DOMAIN cases : cases'[c] = cases[c]
  BY <1>1, AddRow
<1>5. \A x \in people : x[1] \in DOMAIN cases
  BY DEF Others
<1>6. IsFiniteSet(people')
  BY <1>1, <1>3, FS_Union
<1>7. \A c \in 1..MaxCases : timeline'[c]["participant"] = timeline[c]["participant"]
  <2>. HIDE DEF n
  <2>. QED BY <1>0, <1>1, <1>2 DEF Kinds
<1>8. ASSUME NEW c \in DOMAIN cases'
      PROVE  Count(PeopleOf(c)') = cases'[c].players + timeline'[c]["participant"]
  <2>1. CASE c \in DOMAIN cases
    <3>1. PeopleOf(c)' = PeopleOf(c)
      BY <1>1, <1>4, <2>1 DEF PeopleOf
    <3>2. c \in 1..MaxCases /\ cases'[c] = cases[c]
      BY <1>4, <2>1, Columns, BoundsType DEF Records
    <3>3. Count(PeopleOf(c)) = cases[c].players + timeline[c]["participant"]
      BY <2>1 DEF PeopleComplete
    <3>. QED BY <1>7, <3>1, <3>2, <3>3
  <2>2. CASE c = n
    <3>1. PeopleOf(c)' = T
      BY <1>1, <1>4, <1>5, <2>2 DEF PeopleOf
    <3>2. timeline'[c]["participant"] = 0 /\ cases'[c].players = Cardinality(subjects)
      BY <1>0, <1>1, <1>2, <1>4, <1>7, <2>2
    <3>. QED BY <1>3, <3>1, <3>2 DEF Count
  <2>. QED BY <1>4, <2>1, <2>2
<1>9. PeopleComplete'
  BY <1>8 DEF PeopleComplete, Count
<1>. QED BY <1>6, <1>9

LEMMA ParticipantTakes ==
    ASSUME Inductive, NEW s, NEW c \in DOMAIN cases, NEW p \in Players, NEW role, AddParticipant(s, c, p, role)
    PROVE  Taking'
<1>. USE DEF Inductive, Taking
<1>1. /\ <<c, p, role>> \notin people /\ people' = people \cup {<<c, p, role>>}
      /\ AddEntry(c, "participant") /\ cases' = cases
  BY DEF AddParticipant
<1>2. \A d \in DOMAIN cases : d \in 1..MaxCases /\ cases[d].players \in Nat
  <2>1. \A d \in DOMAIN cases : d \in 1..MaxCases /\ cases[d] \in CaseRow
    BY Elements, Columns, BoundsType DEF Records, Tables
  <2>. QED BY <2>1 DEF CaseRow
<1>3. \A d \in DOMAIN cases : timeline'[d]["participant"] = IF d = c THEN timeline[d]["participant"] + 1
                                                           ELSE timeline[d]["participant"]
  <2>1. timeline \in [1..MaxCases -> [Kinds -> Nat]] /\ "participant" \in Kinds /\ c \in 1..MaxCases
    BY <1>2 DEF Records, Tables, Kinds
  <2>. QED BY <1>1, <1>2, <2>1, AddEntryCounts
<1>4. IsFiniteSet(people')
  BY <1>1, FS_AddElement
<1>5. ASSUME NEW d \in DOMAIN cases
      PROVE  Count(PeopleOf(d)') = cases'[d].players + timeline'[d]["participant"]
  <2>1. Count(PeopleOf(d)) = cases[d].players + timeline[d]["participant"]
    BY DEF PeopleComplete
  <2>2. CASE d = c
    <3>1. PeopleOf(d)' = PeopleOf(d) \cup {<<c, p, role>>} /\ <<c, p, role>> \notin PeopleOf(d)
      BY <1>1, <2>2 DEF PeopleOf
    <3>2. Count(PeopleOf(d)') = Count(PeopleOf(d)) + 1
      BY <3>1, PeopleFinite, FS_AddElement DEF Count
    <3>3. timeline[d]["participant"] \in Nat
      BY <1>2 DEF Records, Tables, Kinds
    <3>. QED BY <1>1, <1>2, <1>3, <2>1, <2>2, <3>2, <3>3
  <2>3. CASE d # c
    <3>1. PeopleOf(d)' = PeopleOf(d)
      BY <1>1, <2>3 DEF PeopleOf
    <3>. QED BY <1>1, <1>3, <2>1, <2>3, <3>1
  <2>. QED BY <2>2, <2>3
<1>6. PeopleComplete'
  BY <1>1, <1>5 DEF PeopleComplete, Count
<1>. QED BY <1>4, <1>6

\* A step that leaves the participants, and the number of their entries, alone.
LEMMA SameTaking ==
    ASSUME Inductive, people' = people, DOMAIN cases' = DOMAIN cases,
           \A c \in DOMAIN cases : /\ cases'[c].players = cases[c].players
                                   /\ timeline'[c]["participant"] = timeline[c]["participant"]
    PROVE  Taking'
<1>1. \A c : PeopleOf(c)' = PeopleOf(c)
  BY DEF PeopleOf
<1>. QED BY <1>1 DEF Inductive, Taking, PeopleComplete, Count

\* An entry of another kind is not a participant's.
LEMMA OtherEntry ==
    ASSUME Inductive, NEW c \in (DOMAIN cases) \cup {None}, NEW kind \in Kinds \ {"participant"}, AddEntry(c, kind)
    PROVE  \A d \in DOMAIN cases : timeline'[d]["participant"] = timeline[d]["participant"]
<1>1. DOMAIN cases \subseteq 1..MaxCases
  BY Columns, BoundsType DEF Inductive, Records
<1>2. timeline \in [1..MaxCases -> [Kinds -> Nat]] /\ "participant" \in Kinds
  BY DEF Inductive, Records, Tables, Kinds
<1>3. c \in (1..MaxCases) \cup {None} /\ kind \in Kinds
  BY <1>1
<1>4. \A d \in 1..MaxCases, k \in Kinds :
         timeline'[d][k] = IF d = c /\ k = kind THEN timeline[d][k] + 1 ELSE timeline[d][k]
  BY <1>2, <1>3, AddEntryCounts
<1>. QED BY <1>1, <1>2, <1>4

\* A step that has no entry for a participant, and no new case.
LEMMA EntryTakes ==
    ASSUME Inductive, UNCHANGED <<cases, people>>,
           \/ timeline' = timeline
           \/ \E c \in (DOMAIN cases) \cup {None}, kind \in Kinds \ {"participant"} : AddEntry(c, kind)
    PROVE  Taking'
<1>1. \A d \in DOMAIN cases : timeline'[d]["participant"] = timeline[d]["participant"]
  <2>1. CASE timeline' = timeline
    BY <2>1
  <2>2. ASSUME NEW c \in (DOMAIN cases) \cup {None}, NEW kind \in Kinds \ {"participant"}, AddEntry(c, kind)
        PROVE  \A d \in DOMAIN cases : timeline'[d]["participant"] = timeline[d]["participant"]
    BY <2>2, OtherEntry
  <2>. QED BY <2>1, <2>2
<1>. QED BY <1>1, SameTaking

LEMMA TakingStep ==
    ASSUME Inductive, [Next]_vars
    PROVE  Taking'
<1>0. /\ \A a \in DOMAIN awards : awards[a].case \in DOMAIN cases
      /\ \A b \in DOMAIN bans : bans[b].case \in (DOMAIN cases) \cup {None}
      /\ \A a \in DOMAIN appeals : appeals[a].ban \in DOMAIN bans
  BY Columns DEF Inductive, Records
<1>. DEFINE NoParticipant == Kinds \ {"participant"}
<1>k. {"note", "correction", "points", "points_revoked", "ban", "unban", "status", "flag", "appeal"} \subseteq NoParticipant
  BY DEF Kinds
<1>1. ASSUME NEW s \in Staff, CaseCreate(s) PROVE Taking'
  BY <1>1, OpenTakes DEF CaseCreate
<1>2. ASSUME NEW w \in Web, NEW s \in Staff, BanIssueNew(w, s) PROVE Taking'
  <2>1. PICK p \in Players \ {s} : Open(s, {p}, None)
    BY <1>2 DEF BanIssueNew
  <2>. QED BY <2>1, OpenTakes
<1>3. ASSUME NEW s \in Staff, CaseAddParticipant(s) PROVE Taking'
  <2>1. PICK c \in DOMAIN cases, p \in Players, role \in Roles : AddParticipant(s, c, p, role)
    BY <1>3 DEF CaseAddParticipant
  <2>. QED BY <2>1, ParticipantTakes
<1>4. ASSUME NEW s \in Staff, CaseAddEntry(s) PROVE Taking'
  <2>1. PICK c \in DOMAIN cases, corrects \in 0..MaxEntries : AddNote(c, corrects)
    BY <1>4 DEF CaseAddEntry
  <2>2. UNCHANGED <<cases, people>> /\ \E kind \in {"note", "correction"} : AddEntry(c, kind)
    BY <2>1 DEF AddNote
  <2>. QED BY <1>k, <2>2, EntryTakes
<1>5. ASSUME NEW s \in Staff, CaseSetStatus(s) PROVE Taking'
  <2>1. PICK c \in DOMAIN cases, status \in {"open", "closed"} : SetStatus(c, status)
    BY <1>5 DEF CaseSetStatus
  <2>2. people' = people /\ AddEntry(c, "status") /\ cases' = [cases EXCEPT ![c].status = status]
    BY <2>1 DEF SetStatus
  <2>3. \A d \in DOMAIN cases : timeline'[d]["participant"] = timeline[d]["participant"]
    BY <1>k, <2>2, OtherEntry
  <2>4. cases' = [cases EXCEPT ![c] = [cases[c] EXCEPT !.status = status]]
    BY <2>2
  <2>5. \A d \in DOMAIN cases : cases[d] \in CaseRow
    BY Elements DEF Inductive, Records, Tables
  <2>6. DOMAIN cases' = DOMAIN cases /\ \A d \in DOMAIN cases : cases'[d].players = cases[d].players
    BY <2>4, <2>5 DEF CaseRow
  <2>. QED BY <2>2, <2>3, <2>6, SameTaking
<1>6. ASSUME NEW s \in Staff, CaseIssuePoints(s) PROVE Taking'
  <2>1. PICK c \in DOMAIN cases, p \in Players : IssuePoints(c, p)
    BY <1>6 DEF CaseIssuePoints
  <2>2. UNCHANGED <<cases, people>> /\ AddEntry(c, "points")
    BY <2>1 DEF IssuePoints
  <2>. QED BY <1>k, <2>2, EntryTakes
<1>7. ASSUME NEW s \in Staff, PointsRevoke(s) PROVE Taking'
  <2>1. PICK a \in DOMAIN awards : RevokePoints(a)
    BY <1>7 DEF PointsRevoke
  <2>2. UNCHANGED <<cases, people>> /\ AddEntry(awards[a].case, "points_revoked")
    BY <2>1 DEF RevokePoints
  <2>. QED BY <1>0, <1>k, <2>2, EntryTakes
<1>8. ASSUME NEW s \in Staff, FlagReview(s) PROVE Taking'
  BY <1>8, EntryTakes DEF FlagReview, ReviewFlag
<1>9. ASSUME NEW w \in Web, NEW s \in Staff, BanIssue(w, s) PROVE Taking'
  BY <1>9, EntryTakes DEF BanIssue, tables
<1>10. ASSUME NEW w \in Web, NEW s \in Staff, BanLift(w, s) PROVE Taking'
  <2>1. PICK b \in DOMAIN bans : LiftBan(b, "ban.lift")
    BY <1>10 DEF BanLift
  <2>2. UNCHANGED <<cases, people>> /\ AddEntry(bans[b].case, "unban")
    BY <1>10, <2>1 DEF BanLift, LiftBan
  <2>. QED BY <1>0, <1>k, <2>2, EntryTakes
<1>11. ASSUME NEW w \in Web, NEW s \in Staff, AppealDecide(w, s) PROVE Taking'
  <2>1. PICK a \in DOMAIN appeals, accept \in BOOLEAN : DecideAppeal(s, a, accept)
    BY <1>11 DEF AppealDecide
  <2>2. UNCHANGED <<cases, people>> /\ \E kind \in {"unban", "appeal"} : AddEntry(bans[appeals[a].ban].case, kind)
    BY <1>11, <2>1 DEF AppealDecide, DecideAppeal, LiftBan
  <2>. QED BY <1>0, <1>k, <2>2, EntryTakes
<1>12. ASSUME NEW w \in Web, InsertBan(w) PROVE Taking'
  <2>1. /\ UNCHANGED <<cases, people>> /\ request[w].at = "banning"
        /\ timeline' = [timeline EXCEPT ![request[w].case]["ban"] = @ + 1]
    BY <1>12 DEF InsertBan
  <2>2. request[w].case \in DOMAIN cases
    BY <2>1 DEF Inductive, Refers
  <2>3. DOMAIN cases \subseteq 1..MaxCases
    BY Columns, BoundsType DEF Inductive, Records
  <2>4. timeline \in [1..MaxCases -> [Kinds -> Nat]] /\ "participant" \in Kinds /\ "ban" \in Kinds
    BY DEF Inductive, Records, Tables, Kinds
  <2>5. \A d \in DOMAIN cases : timeline'[d]["participant"] = timeline[d]["participant"]
    <3>. DEFINE c == request[w].case
    <3>1. c \in 1..MaxCases /\ timeline' = [timeline EXCEPT ![c]["ban"] = @ + 1]
      BY <2>1, <2>2, <2>3
    <3>. HIDE DEF c
    <3>. QED BY <2>3, <2>4, <3>1, Counting
  <2>. QED BY <2>1, <2>5, SameTaking
<1>13. ASSUME NEW w \in Web, SubmitAppeal(w) PROVE Taking'
  <2>1. request[w].ban \in DOMAIN bans
    BY <1>13 DEF SubmitAppeal, Inductive, Refers
  <2>2. /\ UNCHANGED <<cases, people>>
        /\ timeline' = timeline \/ AddEntry(bans[request[w].ban].case, "appeal")
    BY <1>13 DEF SubmitAppeal
  <2>. QED BY <1>0, <1>k, <2>1, <2>2, EntryTakes
<1>14. ASSUME NEW w \in Web, LockCase(w) \/ DiscordBan(w) \/ LookUpBan(w) PROVE Taking'
  BY <1>14, EntryTakes DEF LockCase, DiscordBan, LookUpBan, tables
<1>15. CASE AdminBanCheck \/ AdminBan \/ RunOut \/ Restart \/ UNCHANGED vars
  BY <1>15, EntryTakes DEF AdminBanCheck, AdminBan, RunOut, Restart, vars, tables
<1>. QED BY <1>1, <1>2, <1>3, <1>4, <1>5, <1>6, <1>7, <1>8, <1>9, <1>10, <1>11, <1>12, <1>13, <1>14, <1>15 DEF Next

\* The staff log's rows about flags.
FlagRows == {"anticheat.dismiss", "anticheat.watch", "anticheat.reopen"}

\* A step that decides nothing about a flag, but may open a case from one.
LEMMA NotReviewed ==
    ASSUME Inductive, \A a \in FlagRows : logged'[a] = logged[a],
           flags' = flags \/ \E f \in Flags : flags' = [flags EXCEPT ![f] = "case"]
    PROVE  ReviewsLogged'
<1>1. /\ logged \in [Actions -> Nat] /\ FlagRows \subseteq Actions /\ FlagRows = {"anticheat.dismiss", "anticheat.watch", "anticheat.reopen"}
      /\ flags \in [Flags -> {"open", "dismiss", "watch", "case"}]
  BY DEF Inductive, Records, Tables, Others, FlagRows, Actions
<1>2. Reviewed' \subseteq Reviewed
  BY <1>1 DEF Reviewed
<1>3. IsFiniteSet(Reviewed)
  BY CaseworkAssumption, FS_Subset DEF Reviewed
<1>4. Count(Reviewed') <= Count(Reviewed) /\ Count(Reviewed) \in Nat /\ Count(Reviewed') \in Nat
  BY <1>2, <1>3, FS_Subset, FS_CardinalityType DEF Count
<1>5. Count(Reviewed) + logged["anticheat.reopen"] <= logged["anticheat.dismiss"] + logged["anticheat.watch"]
  BY DEF Inductive, ReviewsLogged
<1>6. Count(Reviewed') + logged'["anticheat.reopen"] <= logged'["anticheat.dismiss"] + logged'["anticheat.watch"]
  BY <1>1, <1>4, <1>5
<1>. QED BY <1>6 DEF ReviewsLogged, Count

LEMMA ReviewKeeps ==
    ASSUME Inductive, NEW f \in Flags, NEW resolution \in {"dismiss", "watch", "open"}, ReviewFlag(f, resolution)
    PROVE  ReviewsLogged'
<1>1. /\ logged \in [Actions -> Nat] /\ FlagRows \subseteq Actions /\ FlagRows = {"anticheat.dismiss", "anticheat.watch", "anticheat.reopen"}
      /\ flags \in [Flags -> {"open", "dismiss", "watch", "case"}]
  BY DEF Inductive, Records, Tables, Others, FlagRows, Actions
<1>2. IsFiniteSet(Reviewed) /\ Count(Reviewed) \in Nat
  BY CaseworkAssumption, FS_Subset, FS_CardinalityType DEF Reviewed, Count
<1>3. Count(Reviewed) + logged["anticheat.reopen"] <= logged["anticheat.dismiss"] + logged["anticheat.watch"]
  BY DEF Inductive, ReviewsLogged
<1>4. flags' = [flags EXCEPT ![f] = resolution] /\ (resolution = "open" => flags[f] # "open") /\ flags[f] # "case"
  BY DEF ReviewFlag
<1>5. CASE resolution = "open"
  <2>1. Reviewed' = Reviewed \ {f} /\ f \in Reviewed
    BY <1>1, <1>4, <1>5 DEF Reviewed
  <2>2. Count(Reviewed') = Count(Reviewed) - 1
    BY <1>2, <2>1, FS_RemoveElement DEF Count
  <2>3. logged' = [logged EXCEPT !["anticheat.reopen"] = @ + 1]
    BY <1>5 DEF ReviewFlag, Log
  <2>4. Count(Reviewed') + logged'["anticheat.reopen"] <= logged'["anticheat.dismiss"] + logged'["anticheat.watch"]
    BY <1>1, <1>2, <1>3, <2>2, <2>3
  <2>. QED BY <2>4 DEF ReviewsLogged, Count
<1>6. CASE resolution # "open"
  <2>1. Reviewed' = Reviewed \cup {f}
    BY <1>1, <1>4, <1>6 DEF Reviewed
  <2>2. Count(Reviewed') \in Nat /\ Count(Reviewed') <= Count(Reviewed) + 1
    BY <1>2, <2>1, FS_AddElement DEF Count
  <2>3. logged' = [logged EXCEPT !["anticheat.dismiss"] = @ + 1] \/ logged' = [logged EXCEPT !["anticheat.watch"] = @ + 1]
    BY <1>6 DEF ReviewFlag, Log
  <2>4. Count(Reviewed') + logged'["anticheat.reopen"] <= logged'["anticheat.dismiss"] + logged'["anticheat.watch"]
    BY <1>1, <1>2, <1>3, <2>2, <2>3
  <2>. QED BY <2>4 DEF ReviewsLogged, Count
<1>. QED BY <1>5, <1>6

LEMMA ReviewsStep ==
    ASSUME Inductive, [Next]_vars
    PROVE  ReviewsLogged'
<1>0. logged \in [Actions -> Nat] /\ FlagRows \subseteq Actions
  BY DEF Inductive, Records, Tables, FlagRows, Actions
<1>1. ASSUME NEW action \in Actions \ FlagRows, Log(action) PROVE \A a \in FlagRows : logged'[a] = logged[a]
  BY <1>0, <1>1, LogCounts
<1>2. {"case.open", "case.close", "case.reopen", "player.warn", "player.warn_revoke", "ban.issue", "ban.lift",
       "ban.appeal_accept", "ban.appeal_reject"} \subseteq Actions \ FlagRows
  BY DEF Actions, FlagRows
<1>3. ASSUME NEW s, NEW subjects, NEW f \in Flags \cup {None}, Open(s, subjects, f) PROVE ReviewsLogged'
  <2>1. Log("case.open") /\ (flags' = flags \/ \E g \in Flags : flags' = [flags EXCEPT ![g] = "case"])
    BY <1>3 DEF Open
  <2>. QED BY <1>1, <1>2, <2>1, NotReviewed
<1>4. ASSUME NEW s \in Staff, CaseCreate(s) PROVE ReviewsLogged'
  BY <1>3, <1>4 DEF CaseCreate
<1>5. ASSUME NEW w \in Web, NEW s \in Staff, BanIssueNew(w, s) PROVE ReviewsLogged'
  BY <1>3, <1>5 DEF BanIssueNew
<1>6. ASSUME NEW s \in Staff, FlagReview(s) PROVE ReviewsLogged'
  BY <1>6, ReviewKeeps DEF FlagReview
<1>7. ASSUME NEW s \in Staff, CaseAddEntry(s) \/ CaseSetStatus(s) \/ CaseAddParticipant(s) \/ CaseIssuePoints(s) \/ PointsRevoke(s)
      PROVE  ReviewsLogged'
  <2>1. flags' = flags /\ (logged' = logged \/ \E action \in Actions \ FlagRows : Log(action))
    BY <1>2, <1>7 DEF CaseAddEntry, CaseSetStatus, CaseAddParticipant, CaseIssuePoints, PointsRevoke,
       AddNote, SetStatus, AddParticipant, IssuePoints, RevokePoints
  <2>. QED BY <1>1, <2>1, NotReviewed
<1>8. ASSUME NEW w \in Web, NEW s \in Staff, BanIssue(w, s) \/ BanLift(w, s) \/ AppealDecide(w, s)
      PROVE  ReviewsLogged'
  <2>1. flags' = flags /\ (logged' = logged \/ \E action \in Actions \ FlagRows : Log(action))
    BY <1>2, <1>8 DEF BanIssue, BanLift, AppealDecide, DecideAppeal, LiftBan, tables
  <2>. QED BY <1>1, <2>1, NotReviewed
<1>9. ASSUME NEW w \in Web, LockCase(w) \/ InsertBan(w) \/ DiscordBan(w) \/ SubmitAppeal(w) \/ LookUpBan(w)
      PROVE  ReviewsLogged'
  <2>1. flags' = flags /\ (logged' = logged \/ \E action \in Actions \ FlagRows : Log(action))
    BY <1>2, <1>9 DEF LockCase, InsertBan, DiscordBan, SubmitAppeal, LookUpBan, tables
  <2>. QED BY <1>1, <2>1, NotReviewed
<1>10. CASE AdminBanCheck \/ AdminBan \/ RunOut \/ Restart \/ UNCHANGED vars
  <2>1. flags' = flags /\ (logged' = logged \/ \E action \in Actions \ FlagRows : Log(action))
    BY <1>2, <1>10 DEF AdminBanCheck, AdminBan, RunOut, Restart, vars, tables
  <2>. QED BY <1>1, <2>1, NotReviewed
<1>. QED BY <1>4, <1>5, <1>6, <1>7, <1>8, <1>9, <1>10 DEF Next

-----------------------------------------------------------------------------
(* The invariant, and the properties.                                        *)

LEMMA InitInductive == Init => Inductive
<1>. SUFFICES ASSUME Init PROVE Inductive
  OBVIOUS
<1>1. /\ cases = <<>> /\ awards = <<>> /\ bans = <<>> /\ appeals = <<>> /\ people = {}
      /\ timeline = [c \in 1..MaxCases |-> [k \in Kinds |-> 0]] /\ logged = [a \in Actions |-> 0]
      /\ request = [w \in Web |-> Idle]
  BY DEF Init
<1>2. Tables /\ Blank
  BY <1>1, BoundsType DEF Tables, Blank
<1>3. TimelineComplete
  BY <1>1 DEF TimelineComplete
<1>4. LogComplete
  <2>1. Closed = {} /\ Revoked = {} /\ Lifted = {} /\ Accepted = {} /\ Rejected = {}
    BY <1>1 DEF Closed, Revoked, Lifted, Accepted, Rejected
  <2>2. Count({}) = 0
    BY FS_EmptySet DEF Count
  <2>. QED BY <1>1, <2>1, <2>2 DEF LogComplete, Actions
<1>5. Others
  BY DEF Init, Others
<1>6. request \in [Web -> Requests] /\ Refers /\ LockHolds /\ Tells
  BY <1>1 DEF Requests, Refers, LockHolds, Tells, Idle
<1>7. OneBan /\ OneAppeal /\ AppealsHonoured
  BY <1>1 DEF OneBan, OneAppeal, AppealsHonoured, Accepted
<1>8. Taking
  BY <1>1, FS_EmptySet DEF Taking, PeopleComplete
<1>9. ReviewsLogged
  <2>1. Reviewed = {} /\ Count({}) = 0
    BY FS_EmptySet DEF Init, Reviewed, Count
  <2>. QED BY <1>1, <2>1 DEF ReviewsLogged, Actions
<1>. QED BY <1>2, <1>3, <1>4, <1>5, <1>6, <1>7, <1>8, <1>9 DEF Inductive, Records

\* Tables, timelines, staff log, requests and the case's lock, in every state.
THEOREM Invariance == Spec => []Inductive
<1>1. Inductive /\ [Next]_vars => Inductive'
  <2>. SUFFICES ASSUME Inductive, [Next]_vars PROVE Inductive'
    OBVIOUS
  <2>1. Records' /\ Others'
    BY RecordsStep, OthersStep
  <2>2. request' \in [Web -> Requests] /\ Refers' /\ Tells'
    BY RequestStep
  <2>3. LockHolds' /\ OneBan' /\ OneAppeal' /\ AppealsHonoured'
    BY LockHoldsStep, OneBanStep, AppealsStep
  <2>4. Taking' /\ ReviewsLogged'
    BY TakingStep, ReviewsStep
  <2>. QED BY <2>1, <2>2, <2>3, <2>4 DEF Inductive
<1>. QED BY <1>1, InitInductive, PTL DEF Spec

\* cases.go, bans.go, flags.go: points and bans given and taken back and
\* appeals decided have one entry each in the staff log, and one in the timeline of their
\* case, if they have a case; both tell how many cases were opened and which are closed.
\* Appeals handed in and participants are in the timeline only, reviews of flags in the
\* log only, and notes are entries of the timeline themselves: "Every write also goes to
\* staff_log" (cases.go) does not hold.
THEOREM EverythingRecorded == Spec => []RecordComplete
<1>1. Inductive => RecordComplete
  <2>. SUFFICES ASSUME Inductive PROVE RecordComplete
    OBVIOUS
  <2>1. TypeOK
    BY DEF TypeOK, Inductive, Records, Tables, Others, CaseRow, AwardRow, BanRow, AppealRow
  <2>. QED BY <2>1 DEF RecordComplete, Inductive, Records, Taking
<1>. QED BY <1>1, Invariance, PTL

\* What holds of two also holds of the count: at most one.
LEMMA AtMostOne ==
    ASSUME NEW S, NEW s \in Seq(S), NEW R \in SUBSET DOMAIN s, \A a, b \in R : a = b
    PROVE  Count(R) <= 1
<1>1. CASE R = {}
  BY <1>1, FS_EmptySet DEF Count
<1>2. CASE R # {}
  <2>1. PICK a \in R : TRUE
    BY <1>2
  <2>2. R = {a}
    BY <2>1
  <2>3. Cardinality({a}) = 1
    BY FS_Singleton
  <2>4. Count(R) = 1
    BY <2>2, <2>3 DEF Count
  <2>. QED BY <2>4
<1>. QED BY <1>1, <1>2

LEMMA OneOfEach == Inductive => OneFromEachCase
<1>. SUFFICES ASSUME Inductive PROVE OneFromEachCase
  OBVIOUS
<1>. USE DEF Inductive, Records
<1>1. ASSUME NEW c \in DOMAIN cases, NEW p \in Players PROVE Count(BansOf(c) \cap ActiveBans(p)) <= 1
  <2>1. BansOf(c) \cap ActiveBans(p) \in SUBSET DOMAIN bans /\ bans \in Seq(BanRow(DOMAIN cases))
    BY DEF BansOf, Tables
  <2>2. c # None
    BY Columns, NoneIsNoNumber
  <2>3. \A b, d \in BansOf(c) \cap ActiveBans(p) : b = d
    BY <2>2 DEF BansOf, ActiveBans, OneBan
  <2>. QED BY <2>1, <2>3, AtMostOne
<1>2. ASSUME NEW b \in DOMAIN bans PROVE Count(OpenAppeal(b)) <= 1
  <2>1. OpenAppeal(b) \in SUBSET DOMAIN appeals /\ appeals \in Seq(AppealRow(DOMAIN bans))
    BY DEF OpenAppeal, Appealed, Tables
  <2>2. \A a, e \in OpenAppeal(b) : a = e
    BY DEF OpenAppeal, Appealed, OneAppeal
  <2>. QED BY <2>1, <2>2, AtMostOne
<1>. QED BY <1>1, <1>2 DEF OneFromEachCase

\* Points are given in an open case only.
LEMMA AwardsStep ==
    ASSUME Inductive, [Next]_vars, NEW c \in DOMAIN cases, cases[c].status # "open"
    PROVE  AwardsOf(c)' = AwardsOf(c)
<1>. USE DEF Inductive, Records
<1>1. ASSUME NEW s \in Staff,
             CaseCreate(s) \/ CaseAddEntry(s) \/ CaseSetStatus(s) \/ CaseAddParticipant(s) \/ FlagReview(s)
      PROVE  awards' = awards
  BY <1>1 DEF CaseCreate, CaseAddEntry, CaseSetStatus, CaseAddParticipant, FlagReview,
     Open, AddNote, SetStatus, AddParticipant, ReviewFlag
<1>2. ASSUME NEW s \in Staff, CaseIssuePoints(s) PROVE AwardsOf(c)' = AwardsOf(c)
  <2>1. PICK d \in DOMAIN cases, p \in Players : IssuePoints(d, p)
    BY <1>2 DEF CaseIssuePoints
  <2>. DEFINE n == Len(awards) + 1
              row == [case |-> d, player |-> p, revoked |-> FALSE]
  <2>2. cases[d].status = "open" /\ awards' = Append(awards, row)
    BY <2>1 DEF IssuePoints
  <2>3. row \in AwardRow(DOMAIN cases) /\ row.case = d /\ awards \in Seq(AwardRow(DOMAIN cases))
    BY DEF AwardRow, Tables
  <2>. HIDE DEF row
  <2>4. DOMAIN awards' = DOMAIN awards \cup {n} /\ awards'[n] = row /\ \A a \in DOMAIN awards : awards'[a] = awards[a]
    BY <2>2, <2>3, AddRow
  <2>. HIDE DEF n
  <2>5. d # c
    BY <2>2
  <2>. QED BY <2>3, <2>4, <2>5 DEF AwardsOf
<1>3. ASSUME NEW s \in Staff, PointsRevoke(s) PROVE AwardsOf(c)' = AwardsOf(c)
  <2>1. PICK a \in DOMAIN awards : awards' = [awards EXCEPT ![a].revoked = TRUE]
    BY <1>3 DEF PointsRevoke, RevokePoints
  <2>2. awards' = [awards EXCEPT ![a] = [awards[a] EXCEPT !.revoked = TRUE]]
    BY <2>1
  <2>3. awards[a] \in AwardRow(DOMAIN cases)
    BY Elements DEF Tables
  <2>4. DOMAIN awards' = DOMAIN awards /\ \A e \in DOMAIN awards : awards'[e].case = awards[e].case
    BY <2>2, <2>3 DEF AwardRow
  <2>. QED BY <2>4 DEF AwardsOf
<1>4. ASSUME NEW w \in Web, NEW s \in Staff, BanIssue(w, s) \/ BanIssueNew(w, s) \/ BanLift(w, s) \/ AppealDecide(w, s)
      PROVE  awards' = awards
  BY <1>4 DEF BanIssue, BanIssueNew, BanLift, AppealDecide, Open, tables
<1>5. ASSUME NEW w \in Web, LockCase(w) \/ InsertBan(w) \/ DiscordBan(w) \/ SubmitAppeal(w) \/ LookUpBan(w)
      PROVE  awards' = awards
  BY <1>5 DEF LockCase, InsertBan, DiscordBan, SubmitAppeal, LookUpBan, tables
<1>6. ASSUME AdminBanCheck \/ AdminBan \/ RunOut \/ Restart \/ UNCHANGED vars PROVE awards' = awards
  BY <1>6 DEF AdminBanCheck, AdminBan, RunOut, Restart, vars, tables
<1>7. awards' = awards => AwardsOf(c)' = AwardsOf(c)
  BY DEF AwardsOf
<1>. QED BY <1>1, <1>2, <1>3, <1>4, <1>5, <1>6, <1>7 DEF Next

\* Bans are issued from an open case only: the request holds its lock.
LEMMA BansStep ==
    ASSUME Inductive, [Next]_vars, NEW c \in DOMAIN cases, cases[c].status # "open"
    PROVE  BansOf(c)' = BansOf(c)
<1>. USE DEF Inductive, Records
<1>1. CASE bans' = bans
  BY <1>1 DEF BansOf
<1>2. ASSUME NEW b \in DOMAIN bans, NEW state \in {"lifted", "ended"}, bans' = [bans EXCEPT ![b].state = state]
      PROVE  BansOf(c)' = BansOf(c)
  BY <1>2, StateOfBan
<1>3. ASSUME NEW row \in BanRow(DOMAIN cases), bans' = Append(bans, row),
             \/ row.case = None
             \/ \E w \in Web : InsertBan(w) /\ row.case = request[w].case /\ row.player = request[w].player
      PROVE  BansOf(c)' = BansOf(c)
  <2>. DEFINE n == Len(bans) + 1
  <2>1. bans \in Seq(BanRow(DOMAIN cases))
    BY DEF Tables
  <2>2. DOMAIN bans' = DOMAIN bans \cup {n} /\ bans'[n] = row /\ \A b \in DOMAIN bans : bans'[b] = bans[b]
    BY <1>3, <2>1, AddRow
  <2>. HIDE DEF n
  <2>3. row.case # c
    <3>1. CASE row.case = None
      BY <3>1, Columns, NoneIsNoNumber
    <3>2. ASSUME NEW w \in Web, InsertBan(w), row.case = request[w].case PROVE row.case # c
      <4>1. request[w].at = "banning"
        BY <3>2 DEF InsertBan
      <4>2. cases[request[w].case].status = "open"
        BY <4>1 DEF LockHolds
      <4>. QED BY <3>2, <4>2
    <3>. QED BY <1>3, <3>1, <3>2
  <2>. QED BY <2>2, <2>3 DEF BansOf
<1>. QED BY <1>1, <1>2, <1>3, BansChange

LEMMA PunishedStep ==
    ASSUME Inductive, Inductive', [Next]_vars, NEW c \in DOMAIN cases,
           \/ timeline'[c]["points"] > timeline[c]["points"]
           \/ timeline'[c]["ban"] > timeline[c]["ban"]
    PROVE  cases[c].status = "open"
<1>. SUFFICES ASSUME cases[c].status # "open" PROVE FALSE
  OBVIOUS
<1>1. c \in DOMAIN cases'
  BY CasesStay
<1>2. timeline[c]["points"] = Count(AwardsOf(c)) /\ timeline[c]["ban"] = Count(BansOf(c))
  BY DEF Inductive, Records, TimelineComplete
<1>3. timeline'[c]["points"] = Count(AwardsOf(c)') /\ timeline'[c]["ban"] = Count(BansOf(c)')
  BY <1>1 DEF Inductive, Records, TimelineComplete, Count
<1>4. timeline'[c]["points"] = timeline[c]["points"] /\ timeline'[c]["ban"] = timeline[c]["ban"]
  BY <1>2, <1>3, AwardsStep, BansStep
<1>5. c \in 1..MaxCases
  BY Columns, BoundsType DEF Inductive, Records
<1>6. timeline[c]["points"] \in Nat /\ timeline[c]["ban"] \in Nat
  BY <1>5 DEF Inductive, Records, Tables, Kinds
<1>. QED BY <1>4, <1>6

\* Discord is only told what the request holds.
LEMMA DiscordStep ==
    ASSUME Inductive, [Next]_vars, NEW p \in Players
    PROVE  /\ p \in discord' \ discord => DiscordBans(p) # {}
           /\ p \in discord \ discord' => DiscordBans(p) \cap Lifted # {}
<1>. USE DEF Inductive
<1>1. ASSUME NEW s \in Staff,
             \/ CaseCreate(s) \/ CaseAddEntry(s) \/ CaseSetStatus(s) \/ CaseAddParticipant(s) \/ CaseIssuePoints(s)
             \/ PointsRevoke(s) \/ FlagReview(s)
      PROVE  discord' = discord
  BY <1>1 DEF CaseCreate, CaseAddEntry, CaseSetStatus, CaseAddParticipant, CaseIssuePoints, PointsRevoke, FlagReview
<1>2. ASSUME NEW w \in Web, NEW s \in Staff, BanIssue(w, s) \/ BanIssueNew(w, s) \/ BanLift(w, s) \/ AppealDecide(w, s)
      PROVE  discord' = discord
  BY <1>2 DEF BanIssue, BanIssueNew, BanLift, AppealDecide
<1>3. ASSUME NEW w \in Web, LockCase(w) \/ InsertBan(w) \/ SubmitAppeal(w) \/ LookUpBan(w)
      PROVE  discord' = discord
  BY <1>3 DEF LockCase, InsertBan, SubmitAppeal, LookUpBan
<1>4. ASSUME AdminBanCheck \/ AdminBan \/ RunOut \/ Restart \/ UNCHANGED vars PROVE discord' = discord
  BY <1>4 DEF AdminBanCheck, AdminBan, RunOut, Restart, vars
<1>5. ASSUME NEW w \in Web, DiscordBan(w)
      PROVE  /\ p \in discord' \ discord => DiscordBans(p) # {}
             /\ p \in discord \ discord' => DiscordBans(p) \cap Lifted # {}
  <2>1. /\ request[w].at = "telling"
        /\ \/ request[w].lift /\ discord' = discord \ {request[w].player}
           \/ discord' = discord \cup {request[w].player}
           \/ discord' = discord
    BY <1>5 DEF DiscordBan, BanMember, UnbanMember
  <2>2. PICK b \in DiscordBans(request[w].player) : request[w].lift => bans[b].state = "lifted"
    BY <2>1 DEF Tells
  <2>3. b \in DOMAIN bans
    BY <2>2 DEF DiscordBans
  <2>4. request[w].lift => b \in Lifted
    BY <2>2, <2>3 DEF Lifted
  <2>5. p \in discord' \ discord => p = request[w].player
    BY <2>1
  <2>6. p \in discord \ discord' => p = request[w].player /\ request[w].lift
    BY <2>1
  <2>. QED BY <2>2, <2>4, <2>5, <2>6
<1>6. discord' = discord \/ \E w \in Web : DiscordBan(w)
  BY <1>1, <1>2, <1>3, <1>4 DEF Next
<1>. QED BY <1>5, <1>6

\* IssueBan, IssuePoints, DecideAppeal, discordBan: through every interleaving a player
\* has one running ban from a case and a ban one open appeal, what is accepted is
\* lifted, nobody is punished from a closed case, and Discord follows the bans.
THEOREM BansAlwaysHold == Spec => BansHold
<1>1. Inductive => OneFromEachCase
  BY OneOfEach
<1>2. Inductive => AppealsHonoured
  BY DEF Inductive
<1>3. Inductive /\ Inductive' /\ [Next]_vars => [\A c \in DOMAIN cases :
         \/ timeline'[c]["points"] > timeline[c]["points"]
         \/ timeline'[c]["ban"] > timeline[c]["ban"]
         => cases[c].status = "open"]_vars
  BY PunishedStep
<1>4. Inductive /\ [Next]_vars => [\A p \in Players :
         /\ p \in discord' \ discord => DiscordBans(p) # {}
         /\ p \in discord \ discord' => DiscordBans(p) \cap Lifted # {}]_vars
  BY DiscordStep
<1>. QED BY <1>1, <1>2, <1>3, <1>4, Invariance, PTL DEF Spec, BansHold, PunishedWhileOpen, DiscordFollows
====
