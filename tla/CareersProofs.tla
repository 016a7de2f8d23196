---------------------------- MODULE CareersProofs ----------------------------
(***************************************************************************)
(* Proofs about Careers and Delivery, for any people, ranks, permissions   *)
(* that leave whoever decides a rank to hire at, numbers of requests,      *)
(* letters, applications and faults: applications are one at a time and    *)
(* accepting one hires, the staff is changed from above only, and the      *)
(* outbox and the poster are mailboxes.                                    *)
(***************************************************************************)
EXTENDS Careers, FiniteSetTheorems, SequenceTheorems, WellFoundedInduction, TLAPS

-----------------------------------------------------------------------------
(* The inductive invariants.                                                 *)

Distinct(s) == \A i, j \in DOMAIN s : s[i] = s[j] => i = j

\* No two letters have the same key.
OneEach == \A i, j \in DOMAIN outbox : outbox[i].key = outbox[j].key => i = j

\* What the worker has in hand is queued, once; what it is about to mark as sent was heard.
InSending ==
    /\ Distinct(worker.batch)
    /\ \A k \in DOMAIN worker.batch : outbox[worker.batch[k]].state = "queued"
    /\ worker.at = "mark" /\ worker.answer = "sent" => outbox[Head(worker.batch)].heard > 0

\* What the poster has in hand is not posted; what it is about to mark was heard.
InPosting ==
    /\ Distinct(poster.batch)
    /\ \A k \in DOMAIN poster.batch : ~staffLog[poster.batch[k]].posted
    /\ poster.at = "mark" => staffLog[Head(poster.batch)].heard > 0

Sending ==
    /\ outbox \in Seq(LetterRow)
    /\ worker \in [at : {"rest", "send", "mark"}, batch : Seq(DOMAIN outbox),
                   answer : {"none", "sent", "failed", "permanent"}]
    /\ worker.at = "rest" <=> worker.batch = <<>>
    /\ OneEach /\ InSending

Posting ==
    /\ staffLog \in Seq(LogRow)
    /\ poster \in [at : {"rest", "post", "mark"}, batch : Seq(DOMAIN staffLog)]
    /\ poster.at = "rest" <=> poster.batch = <<>>
    /\ InPosting

Carried == Sending /\ Posting /\ faults \in 0..MaxFaults

\* Whoever may decide on applications is offered a rank to hire at.
DecidersHaveRanks ==
    \A rank \in 1..TopRank :
        {"applications.view", "applications.decide"} \subseteq Grants[rank] =>
            rank > 1 \/ rank >= HeadAdminLevel

StaffRow == [rank : 0..TopRank, status : {"active", "loa", "suspended"},
             ends : {"never", "later", "past"}, team : Teams \cup {None}]
AppRow == [player : People, cooling : BOOLEAN,
           status : {"pending", "interview", "accepted", "rejected", "withdrawn"}]

StaffOK ==
    /\ staff \in [People -> StaffRow]
    /\ \A p \in People : staff[p].rank = 0 => staff[p] = Outsider
    /\ hired \subseteq People

\* Who applies, or did, had no rank then: one they have they were hired to.
Hired(p) == Level(p) > 0 => p \in hired

AppsOK ==
    /\ apps \in Seq(AppRow) /\ Len(apps) <= MaxApps
    /\ \A a \in DOMAIN apps : Hired(apps[a].player)
    /\ OneOpenApplication /\ (DecidersHaveRanks => AcceptedWereHired)

\* A request that accepts an application is about its applicant, gives them a rank, and
\* has given it after its first transaction.
Accepts(r) == r.at \in {"rank", "team", "accept"} /\ r.app # None
AcceptHires(r) ==
    /\ r.app \in DOMAIN apps
    /\ r.who = apps[r.app].player
    /\ DecidersHaveRanks => r.rank > 0 /\ (r.at # "rank" => r.who \in hired)

RequestOK(r) ==
    /\ r.at = "apply" => Hired(r.who)
    /\ r.at = "accept" => r.app # None
    /\ Accepts(r) => AcceptHires(r)
RequestsOK == request \in [Web -> Requests] /\ \A w \in Web : RequestOK(request[w])

PapersOK ==
    /\ interviews \in [1..MaxApps -> {"none", "open", "pass", "fail"}]
    /\ notes \subseteq People \X People
    /\ offered \in Scenarios

Inductive == Carried /\ StaffOK /\ AppsOK /\ RequestsOK /\ PapersOK

-----------------------------------------------------------------------------
(* Sequences and batches.                                                    *)

LEMMA LeastNumber ==
    ASSUME NEW T, T \subseteq Nat, T # {}
    PROVE  \E n \in T : \A m \in T : n <= m
<1>1. PICK n \in T : \A m \in T : ~ (<<m, n>> \in OpToRel(<, Nat))
  BY WFMin, NatLessThanWellFounded, Zenon
<1>2. \A m \in T : ~ (m < n)
  BY <1>1, Zenon DEF OpToRel
<1>3. \A m \in T : n <= m
  BY <1>2
<1>. QED BY <1>3, Zenon

UpTo(S, i) == {j \in S : j <= i}

LEMMA UpToFinite ==
    ASSUME NEW S, S \subseteq Nat, IsFiniteSet(S), NEW i \in S
    PROVE  IsFiniteSet(UpTo(S, i)) /\ Cardinality(UpTo(S, i)) \in Nat /\ i \in UpTo(S, i)
<1>1. UpTo(S, i) \in SUBSET S /\ i \in UpTo(S, i)
  BY DEF UpTo
<1>. QED BY <1>1, FS_Subset, FS_CardinalityType

\* Numbers are told apart by how many there are up to them.
LEMMA CountsDiffer ==
    ASSUME NEW S, S \subseteq Nat, IsFiniteSet(S), NEW i \in S, NEW j \in S, i < j
    PROVE  Cardinality(UpTo(S, i)) < Cardinality(UpTo(S, j))
<1>. i \in Nat /\ j \in Nat
  OBVIOUS
<1>1. UpTo(S, i) \in SUBSET UpTo(S, j) /\ j \notin UpTo(S, i) /\ j \in UpTo(S, j)
  <2>1. (\A m \in S : m \in Nat /\ (m <= i => m <= j)) /\ ~(j <= i) /\ j <= j
    OBVIOUS
  <2>. QED BY <2>1 DEF UpTo
<1>2. Cardinality(UpTo(S, i)) <= Cardinality(UpTo(S, j))
      /\ Cardinality(UpTo(S, i)) # Cardinality(UpTo(S, j))
  BY <1>1, UpToFinite, FS_Subset
<1>3. Cardinality(UpTo(S, i)) \in Nat /\ Cardinality(UpTo(S, j)) \in Nat
  BY UpToFinite
<1>. QED BY <1>2, <1>3

\* A batch is of rows there are, each once, and is not empty.
LEMMA FirstIdsAre ==
    ASSUME NEW ids, ids \subseteq Nat, IsFiniteSet(ids), ids # {}, NEW n \in Nat \ {0}
    PROVE  /\ FirstIds(ids, n) \in Seq(ids)
           /\ FirstIds(ids, n) # <<>>
           /\ Distinct(FirstIds(ids, n))
<1>. DEFINE count == [i \in ids |-> Cardinality(UpTo(ids, i))]
            taken == {i \in ids : count[i] <= n}
            N == Cardinality(taken)
            id(k) == CHOOSE i \in taken : count[i] = k
<1>1. FirstIds(ids, n) = [k \in 1..N |-> id(k)]
  <2>1. \A i \in ids : count[i] = Cardinality({j \in ids : j <= i})
    BY DEF UpTo
  <2>2. taken = {i \in ids : Cardinality({j \in ids : j <= i}) <= n}
    BY <2>1
  <2>3. \A k : id(k) = CHOOSE i \in taken : Cardinality({j \in ids : j <= i}) = k
    BY <2>1
  <2>. HIDE DEF taken, id
  <2>4. FirstIds(ids, n) =
            LET t == {i \in ids : Cardinality({j \in ids : j <= i}) <= n}
            IN  [k \in 1..Cardinality(t) |->
                    CHOOSE i \in t : Cardinality({j \in ids : j <= i}) = k]
    BY Zenon DEF FirstIds
  <2>5. FirstIds(ids, n) = [k \in 1..Cardinality(taken) |->
                    CHOOSE i \in taken : Cardinality({j \in ids : j <= i}) = k]
    BY <2>2, <2>4, Zenon
  <2>. QED BY <2>3, <2>5, Zenon
<1>2. \A i \in ids : count[i] \in Nat \ {0}
  <2>. SUFFICES ASSUME NEW i \in ids PROVE count[i] \in Nat \ {0}
    OBVIOUS
  <2>1. IsFiniteSet(UpTo(ids, i)) /\ Cardinality(UpTo(ids, i)) \in Nat /\ UpTo(ids, i) # {}
    BY UpToFinite
  <2>2. Cardinality(UpTo(ids, i)) # 0
    BY <2>1, FS_EmptySet
  <2>. QED BY <2>1, <2>2
<1>3. \A i, j \in ids : i # j => count[i] # count[j]
  <2>. SUFFICES ASSUME NEW i \in ids, NEW j \in ids, i < j PROVE count[i] # count[j]
    OBVIOUS
  <2>1. Cardinality(UpTo(ids, i)) < Cardinality(UpTo(ids, j))
    BY CountsDiffer
  <2>2. count[i] \in Nat /\ count[j] \in Nat
    BY <1>2
  <2>. QED BY <2>1, <2>2
<1>4. IsFiniteSet(taken) /\ N \in Nat /\ taken \subseteq ids
  <2>1. taken \in SUBSET ids
    OBVIOUS
  <2>. QED BY <2>1, FS_Subset, FS_CardinalityType
<1>5. \A i \in taken : count[i] \in 1..N
  <2>. SUFFICES ASSUME NEW i \in taken PROVE count[i] \in 1..N
    OBVIOUS
  <2>1. UpTo(ids, i) \in SUBSET taken
    <3>. SUFFICES ASSUME NEW j \in ids, j <= i PROVE count[j] <= n
      BY DEF UpTo
    <3>1. CASE j = i
      BY <3>1
    <3>2. CASE j # i
      <4>. j < i
        BY <3>2
      <4>1. Cardinality(UpTo(ids, j)) < Cardinality(UpTo(ids, i))
        BY CountsDiffer
      <4>2. count[j] < count[i] /\ count[i] <= n /\ count[i] \in Nat /\ count[j] \in Nat
        BY <4>1, <1>2
      <4>. QED BY <4>2
    <3>. QED BY <3>1, <3>2
  <2>2. Cardinality(UpTo(ids, i)) <= N
    BY <2>1, <1>4, FS_Subset
  <2>. QED BY <2>2, <1>2, <1>4
<1>6. taken # {}
  <2>1. PICK i \in ids : \A j \in ids : i <= j
    BY LeastNumber
  <2>2. UpTo(ids, i) = {i}
    <3>1. \A j \in ids : j <= i <=> j = i
      BY <2>1
    <3>. QED BY <3>1 DEF UpTo
  <2>3. count[i] = 1 /\ 1 <= n
    BY <2>2, FS_Singleton
  <2>4. i \in taken
    BY <2>3
  <2>. QED BY <2>4
<1>7. N # 0
  BY <1>4, <1>6, FS_EmptySet
<1>8. \A k \in 1..N : id(k) \in taken /\ count[id(k)] = k
  <2>. DEFINE rank == [i \in taken |-> count[i]]
  <2>1. rank \in Injection(taken, 1..N)
    <3>1. rank \in [taken -> 1..N]
      BY <1>5
    <3>2. \A i, j \in taken : rank[i] = rank[j] => i = j
      BY <1>3
    <3>. HIDE DEF rank, taken, N
    <3>. QED BY <3>1, <3>2 DEF Injection, IsInjective
  <2>2. IsFiniteSet(1..N) /\ Cardinality(1..N) = N
    <3>1. IsFiniteSet(1..N) /\ Cardinality(1..N) = IF 1 > N THEN 0 ELSE N - 1 + 1
      BY <1>4, FS_Interval
    <3>. QED BY <3>1, <1>4, <1>7
  <2>. HIDE DEF rank
  <2>3. rank \in Surjection(taken, 1..N)
    BY <2>1, <2>2, FS_Injection
  <2>4. \A k \in 1..N : \E i \in taken : rank[i] = k
    BY <2>3 DEF Surjection
  <2>5. \A k \in 1..N : \E i \in taken : count[i] = k
    BY <2>4 DEF rank
  <2>. QED BY <2>5
<1>. HIDE DEF id, count, taken, N
<1>9. [k \in 1..N |-> id(k)] \in Seq(ids)
  <2>. DEFINE f == [k \in 1..N |-> id(k)]
  <2>1. f \in [1..N -> ids]
    BY <1>4, <1>8
  <2>. HIDE DEF f
  <2>2. f \in UNION {[1..m -> ids] : m \in Nat}
    BY <2>1, <1>4
  <2>3. f \in Seq(ids)
    BY <2>2, SeqDef, Zenon
  <2>. QED BY <2>3 DEF f
<1>10. DOMAIN [k \in 1..N |-> id(k)] # {}
  BY <1>4, <1>7
<1>11. Distinct([k \in 1..N |-> id(k)])
  BY <1>8 DEF Distinct
<1>. QED BY <1>1, <1>9, <1>10, <1>11

-----------------------------------------------------------------------------
(* The outbox and its worker.                                                *)

\* A row of a table changes, the others stay.
LEMMA RowChanges ==
    ASSUME NEW R, NEW s \in Seq(R), NEW i \in DOMAIN s, NEW row \in R, NEW t,
           t = [s EXCEPT ![i] = row]
    PROVE  /\ t \in Seq(R) /\ DOMAIN t = DOMAIN s /\ t[i] = row
           /\ \A j \in DOMAIN s : j # i => t[j] = s[j]
OBVIOUS

\* A row is added at the end.
LEMMA RowAdded ==
    ASSUME NEW R, NEW s \in Seq(R), NEW row \in R, NEW t, t = Append(s, row)
    PROVE  /\ t \in Seq(R) /\ DOMAIN t = DOMAIN s \cup {Len(s) + 1}
           /\ Len(s) + 1 \notin DOMAIN s /\ t[Len(s) + 1] = row
           /\ \A j \in DOMAIN s : t[j] = s[j]
OBVIOUS

\* The first of a batch, and the rest of it.
LEMMA BatchGoesOn ==
    ASSUME NEW D, NEW b \in Seq(D), b # <<>>, Distinct(b)
    PROVE  /\ 1 \in DOMAIN b /\ Head(b) = b[1] /\ Head(b) \in D
           /\ Len(b) # 1 =>
                /\ Tail(b) \in Seq(D) /\ Tail(b) # <<>> /\ Distinct(Tail(b))
                /\ \A k \in DOMAIN Tail(b) :
                      k + 1 \in DOMAIN b /\ Tail(b)[k] = b[k + 1] /\ Tail(b)[k] # Head(b)
<1>1. 1 \in DOMAIN b /\ Head(b) = b[1] /\ Head(b) \in D
  OBVIOUS
<1>2. ASSUME Len(b) # 1
      PROVE  /\ Tail(b) \in Seq(D) /\ Tail(b) # <<>>
             /\ \A k \in DOMAIN Tail(b) : k \in Nat /\ k + 1 # 1 /\ k + 1 \in DOMAIN b
                  /\ Tail(b)[k] = b[k + 1]
  BY <1>2
<1>3. ASSUME Len(b) # 1
      PROVE  Distinct(Tail(b)) /\ \A k \in DOMAIN Tail(b) : Tail(b)[k] # Head(b)
  BY <1>1, <1>2, <1>3 DEF Distinct
<1>. QED BY <1>1, <1>2, <1>3

\* Ids of rows are numbers, and finitely many.
LEMMA IdsFinite ==
    ASSUME NEW R, NEW s \in Seq(R), NEW ids \in SUBSET DOMAIN s
    PROVE  ids \subseteq Nat /\ IsFiniteSet(ids)
<1>1. DOMAIN s = 1..Len(s) /\ Len(s) \in Nat
  OBVIOUS
<1>2. IsFiniteSet(1..Len(s))
  BY <1>1, FS_Interval
<1>3. IsFiniteSet(ids)
  BY <1>1, <1>2, FS_Subset
<1>. QED BY <1>1, <1>3

LEMMA SendingFrame == Sending /\ UNCHANGED workerVars => Sending'
BY DEF Sending, OneEach, InSending, Distinct, workerVars

LEMMA EnqueueSends ==
    ASSUME Sending, NEW key \in Keys, NEW text \in Texts, Enqueue(key, text), UNCHANGED worker
    PROVE  Sending'
<1>1. CASE Queued(key)
  BY <1>1, SendingFrame DEF Enqueue, workerVars
<1>2. CASE ~Queued(key)
  <2>. DEFINE row == [key |-> key, text |-> text, state |-> "queued",
                      due |-> TRUE, old |-> FALSE, heard |-> 0]
  <2>1. row \in LetterRow /\ row.key = key
    BY DEF LetterRow
  <2>2. outbox' = Append(outbox, row) /\ outbox \in Seq(LetterRow)
    BY <1>2 DEF Enqueue, Sending
  <2>. HIDE DEF row
  <2>3. /\ outbox' \in Seq(LetterRow) /\ DOMAIN outbox' = DOMAIN outbox \cup {Len(outbox) + 1}
        /\ Len(outbox) + 1 \notin DOMAIN outbox /\ outbox'[Len(outbox) + 1] = row
        /\ \A j \in DOMAIN outbox : outbox'[j] = outbox[j]
    BY <2>1, <2>2, RowAdded
  <2>4. worker' \in [at : {"rest", "send", "mark"}, batch : Seq(DOMAIN outbox'),
                     answer : {"none", "sent", "failed", "permanent"}]
    <3>1. worker.batch \in Seq(DOMAIN outbox')
      BY <2>3, SeqMonotonic DEF Sending
    <3>. QED BY <3>1 DEF Sending
  <2>5. OneEach'
    BY <1>2, <2>1, <2>3 DEF OneEach, Queued, Sending
  <2>6. InSending'
    <3>1. \A k \in DOMAIN worker.batch : worker.batch[k] \in DOMAIN outbox
      BY DEF Sending
    <3>2. worker.at = "mark" => Head(worker.batch) \in DOMAIN outbox
      BY DEF Sending
    <3>. QED BY <3>1, <3>2, <2>3 DEF InSending, Sending
  <2>. QED BY <2>3, <2>4, <2>5, <2>6 DEF Sending
<1>. QED BY <1>1, <1>2

LEMMA EnqueueNowSends == ASSUME Sending, EnqueueNow PROVE Sending'
<1>. DEFINE key == CHOOSE key \in Keys : ~Queued(key)
<1>1. key \in Keys /\ Enqueue(key, "post") /\ UNCHANGED worker
  BY DEF EnqueueNow
<1>. HIDE DEF key
<1>. QED BY <1>1, EnqueueSends DEF Texts

LEMMA TakeBatchSends == ASSUME Sending, TakeBatch PROVE Sending'
<1>. DEFINE due == {i \in DOMAIN outbox : outbox[i].state = "queued" /\ outbox[i].due}
            batch == FirstIds(due, OutboxBatch)
<1>1. /\ worker' = [at |-> "send", batch |-> batch, answer |-> "none"] /\ due # {}
      /\ outbox' = outbox
  BY DEF TakeBatch
<1>2. due \in SUBSET DOMAIN outbox
  OBVIOUS
<1>3. due \subseteq Nat /\ IsFiniteSet(due)
  BY <1>2, IdsFinite DEF Sending
<1>4. \A i \in due : outbox[i].state = "queued"
  OBVIOUS
<1>. HIDE DEF due
<1>5. batch \in Seq(due) /\ batch # <<>> /\ Distinct(batch)
  BY <1>1, <1>3, FirstIdsAre, DeliveryAssumption
<1>6. batch \in Seq(DOMAIN outbox)
  BY <1>2, <1>5, SeqMonotonic
<1>7. \A k \in DOMAIN batch : batch[k] \in due
  BY <1>5
<1>. HIDE DEF batch
<1>. QED BY <1>1, <1>4, <1>5, <1>6, <1>7 DEF Sending, OneEach, InSending

\* What the worker is at.
LEMMA AtHead ==
    ASSUME Sending, worker.at # "rest"
    PROVE  /\ worker.batch \in Seq(DOMAIN outbox) /\ worker.batch # <<>> /\ Distinct(worker.batch)
           /\ Head(worker.batch) \in DOMAIN outbox
           /\ outbox[Head(worker.batch)] \in LetterRow
           /\ outbox[Head(worker.batch)].state = "queued"
<1>1. worker.batch \in Seq(DOMAIN outbox) /\ worker.batch # <<>> /\ Distinct(worker.batch)
  BY DEF Sending, InSending
<1>2. Head(worker.batch) = worker.batch[1] /\ 1 \in DOMAIN worker.batch
      /\ Head(worker.batch) \in DOMAIN outbox
  BY <1>1, BatchGoesOn
<1>. QED BY <1>1, <1>2 DEF Sending, InSending

\* A row changes, and not its key: the letters stay apart.
LEMMA OneEachStays ==
    ASSUME OneEach, DOMAIN outbox' = DOMAIN outbox,
           \A j \in DOMAIN outbox : outbox'[j].key = outbox[j].key
    PROVE  OneEach'
BY DEF OneEach

\* A row the worker has not in hand, or whose state stays, changes.
LEMMA RowStays ==
    ASSUME Sending, NEW i \in DOMAIN outbox, NEW row \in LetterRow,
           row.key = outbox[i].key, row.state = outbox[i].state, row.heard >= outbox[i].heard,
           outbox' = [outbox EXCEPT ![i] = row], UNCHANGED worker
    PROVE  Sending'
<1>1. /\ outbox' \in Seq(LetterRow) /\ DOMAIN outbox' = DOMAIN outbox /\ outbox'[i] = row
      /\ \A j \in DOMAIN outbox : j # i => outbox'[j] = outbox[j]
  BY RowChanges DEF Sending
<1>2. \A j \in DOMAIN outbox :
         outbox'[j].key = outbox[j].key /\ outbox'[j].state = outbox[j].state
  BY <1>1
<1>3. OneEach'
  BY <1>1, <1>2, OneEachStays DEF Sending
<1>4. \A j \in DOMAIN outbox : outbox[j].heard > 0 => outbox'[j].heard > 0
  <2>1. outbox[i] \in LetterRow
    BY DEF Sending
  <2>2. outbox[i].heard \in Nat /\ row.heard \in Nat
    BY <2>1 DEF LetterRow
  <2>3. outbox[i].heard > 0 => row.heard > 0
    BY <2>2
  <2>. QED BY <1>1, <2>3
<1>5. InSending'
  <2>1. \A k \in DOMAIN worker.batch : worker.batch[k] \in DOMAIN outbox
    BY DEF Sending
  <2>2. worker.at = "mark" => Head(worker.batch) \in DOMAIN outbox
    BY AtHead
  <2>. QED BY <2>1, <2>2, <1>2, <1>4 DEF InSending, Sending
<1>. QED BY <1>1, <1>3, <1>5 DEF Sending

\* The answer to a call is known; one that was sent was heard.
LEMMA ClassifySends ==
    ASSUME Sending, worker.at = "send", NEW answer \in {"sent", "failed", "permanent"},
           Classify(answer), answer = "sent" => outbox[Head(worker.batch)].heard > 0,
           UNCHANGED outbox
    PROVE  Sending'
<1>1. worker' = [at |-> "mark", batch |-> worker.batch, answer |-> answer]
  BY DEF Classify, Sending
<1>. QED BY <1>1 DEF Sending, InSending, OneEach

LEMMA SendSends == ASSUME Sending, Send PROVE Sending'
<1>. DEFINE i == Head(worker.batch)
            row == [outbox[i] EXCEPT !.heard = @ + 1]
            heard == [outbox EXCEPT ![i] = row]
<1>1. worker.at = "send"
  BY DEF Send
<1>2. i \in DOMAIN outbox /\ outbox[i] \in LetterRow
  BY <1>1, AtHead
<1>3. /\ row \in LetterRow /\ row.key = outbox[i].key /\ row.state = outbox[i].state
      /\ row.heard > 0
  <2>1. /\ outbox[i].heard \in Nat /\ row.key = outbox[i].key /\ row.state = outbox[i].state
        /\ row.heard = outbox[i].heard + 1
    BY <1>2 DEF LetterRow
  <2>2. row \in LetterRow
    <3>. DEFINE said == outbox[i].heard + 1
    <3>1. said \in Nat /\ row = [outbox[i] EXCEPT !.heard = said]
      BY <2>1
    <3>. HIDE DEF said, row
    <3>. QED BY <1>2, <3>1 DEF LetterRow
  <2>. QED BY <2>1, <2>2
<1>4. CASE outbox' = heard /\ \E answer \in {"sent", "failed"} : Classify(answer)
  <2>1. PICK answer \in {"sent", "failed"} : Classify(answer)
    BY <1>4
  <2>2. worker' = [at |-> "mark", batch |-> worker.batch, answer |-> answer]
    BY <1>1, <2>1 DEF Classify, Sending
  <2>3. /\ outbox' \in Seq(LetterRow) /\ DOMAIN outbox' = DOMAIN outbox /\ outbox'[i] = row
        /\ \A j \in DOMAIN outbox : j # i => outbox'[j] = outbox[j]
    <3>. HIDE DEF i, row
    <3>. QED BY <1>2, <1>3, <1>4, RowChanges DEF Sending
  <2>. HIDE DEF row
  <2>4. \A j \in DOMAIN outbox :
           outbox'[j].key = outbox[j].key /\ outbox'[j].state = outbox[j].state
    BY <1>3, <2>3
  <2>5. OneEach'
    BY <2>3, <2>4, OneEachStays DEF Sending
  <2>6. outbox'[i].heard > 0
    BY <1>3, <2>3
  <2>7. InSending'
    <3>1. \A k \in DOMAIN worker.batch : worker.batch[k] \in DOMAIN outbox
      BY DEF Sending
    <3>. QED BY <3>1, <2>2, <2>4, <2>6 DEF InSending, Sending
  <2>8. worker.batch \in Seq(DOMAIN outbox) /\ worker.batch # <<>>
    BY <1>1, AtHead
  <2>. QED BY <2>2, <2>3, <2>5, <2>7, <2>8 DEF Sending
<1>5. CASE outbox' = outbox /\ \E answer \in {"failed", "permanent"} : Classify(answer)
  BY <1>1, <1>5, ClassifySends
<1>. QED BY <1>4, <1>5 DEF Send

LEMMA MarkSends == ASSUME Sending, Mark PROVE Sending'
<1>. DEFINE i == Head(worker.batch)
            b == worker.batch
<1>1. worker.at = "mark" /\ NextRow
  BY DEF Mark
<1>2. /\ b \in Seq(DOMAIN outbox) /\ b # <<>> /\ Distinct(b)
      /\ i \in DOMAIN outbox /\ outbox[i] \in LetterRow /\ outbox[i].state = "queued"
  BY <1>1, AtHead
<1>3. /\ outbox' \in Seq(LetterRow) /\ DOMAIN outbox' = DOMAIN outbox /\ OneEach'
      /\ \A j \in DOMAIN outbox : j # i => outbox'[j] = outbox[j]
  <2>1. CASE UNCHANGED outbox
    BY <2>1 DEF Sending, OneEach
  <2>2. CASE outbox' = [outbox EXCEPT ![i] = Verdict(outbox[i])]
    <3>. DEFINE row == Verdict(outbox[i])
    <3>1. row \in LetterRow /\ row.key = outbox[i].key
      BY <1>2 DEF Verdict, LetterRow
    <3>. HIDE DEF i, row
    <3>2. /\ outbox' \in Seq(LetterRow) /\ DOMAIN outbox' = DOMAIN outbox /\ outbox'[i] = row
          /\ \A j \in DOMAIN outbox : j # i => outbox'[j] = outbox[j]
      BY <1>2, <2>2, <3>1, RowChanges DEF Sending, row
    <3>3. \A j \in DOMAIN outbox : outbox'[j].key = outbox[j].key
      BY <3>1, <3>2
    <3>4. OneEach'
      BY <3>2, <3>3, OneEachStays DEF Sending
    <3>. QED BY <3>2, <3>4
  <2>. QED BY <2>1, <2>2 DEF Mark
<1>4. CASE Len(b) = 1
  <2>1. worker' = AtRest
    BY <1>1, <1>4 DEF NextRow
  <2>. QED BY <2>1, <1>3 DEF Sending, InSending, AtRest, Distinct
<1>5. CASE Len(b) # 1
  <2>1. worker' = [at |-> "send", batch |-> Tail(b), answer |-> "none"]
    BY <1>1, <1>5 DEF NextRow
  <2>2. /\ Tail(b) \in Seq(DOMAIN outbox) /\ Tail(b) # <<>> /\ Distinct(Tail(b))
        /\ \A k \in DOMAIN Tail(b) :
              k + 1 \in DOMAIN b /\ Tail(b)[k] = b[k + 1] /\ Tail(b)[k] # i
    BY <1>2, <1>5, BatchGoesOn
  <2>. DEFINE rest == Tail(b)
  <2>4. \A k \in DOMAIN rest : outbox[rest[k]].state = "queued" /\ rest[k] # i
    BY <2>2 DEF Sending, InSending
  <2>5. rest \in Seq(DOMAIN outbox)
    BY <2>2
  <2>. HIDE DEF rest
  <2>3. \A k \in DOMAIN rest : rest[k] \in DOMAIN outbox
    BY <2>5
  <2>6. InSending'
    <3>1. Distinct(rest) /\ worker'.batch = rest /\ worker'.at = "send"
      BY <2>1, <2>2 DEF rest
    <3>. QED BY <1>3, <2>3, <2>4, <3>1 DEF InSending
  <2>. QED BY <1>3, <2>1, <2>2, <2>6 DEF Sending
<1>. QED BY <1>4, <1>5

LEMMA BackoffSends == ASSUME Sending, BackoffOver PROVE Sending'
<1>1. PICK i \in DOMAIN outbox : outbox' = [outbox EXCEPT ![i].due = TRUE]
  BY DEF BackoffOver
<1>. DEFINE row == [outbox[i] EXCEPT !.due = TRUE]
<1>2. outbox[i] \in LetterRow
  BY DEF Sending
<1>3. /\ row \in LetterRow /\ row.key = outbox[i].key /\ row.state = outbox[i].state
      /\ row.heard >= outbox[i].heard
  <2>1. row \in LetterRow
    BY <1>2 DEF LetterRow
  <2>2. /\ row.key = outbox[i].key /\ row.state = outbox[i].state
        /\ row.heard = outbox[i].heard /\ outbox[i].heard \in Nat
    BY <1>2 DEF LetterRow
  <2>. QED BY <2>1, <2>2
<1>4. outbox' = [outbox EXCEPT ![i] = row] /\ UNCHANGED worker
  BY <1>1 DEF BackoffOver
<1>. HIDE DEF row
<1>. QED BY <1>3, <1>4, RowStays

LEMMA DaySends == ASSUME Sending, DayPasses PROVE Sending'
<1>1. CASE UNCHANGED outbox
  BY <1>1, SendingFrame DEF DayPasses, workerVars
<1>2. CASE \E i \in DOMAIN outbox : outbox' = [outbox EXCEPT ![i].old = TRUE]
  <2>1. PICK i \in DOMAIN outbox : outbox' = [outbox EXCEPT ![i].old = TRUE]
    BY <1>2
  <2>. DEFINE row == [outbox[i] EXCEPT !.old = TRUE]
  <2>2. outbox[i] \in LetterRow
    BY DEF Sending
  <2>3. /\ row \in LetterRow /\ row.key = outbox[i].key /\ row.state = outbox[i].state
        /\ row.heard >= outbox[i].heard
    <3>1. row \in LetterRow
      BY <2>2 DEF LetterRow
    <3>2. /\ row.key = outbox[i].key /\ row.state = outbox[i].state
          /\ row.heard = outbox[i].heard /\ outbox[i].heard \in Nat
      BY <2>2 DEF LetterRow
    <3>. QED BY <3>1, <3>2
  <2>4. outbox' = [outbox EXCEPT ![i] = row] /\ UNCHANGED worker
    BY <2>1 DEF DayPasses
  <2>. HIDE DEF row
  <2>. QED BY <2>3, <2>4, RowStays
<1>. QED BY <1>1, <1>2 DEF DayPasses

LEMMA RestartSends == ASSUME Sending, BotRestart PROVE Sending'
<1>1. worker' = AtRest /\ UNCHANGED outbox
  BY DEF BotRestart
<1>. QED BY <1>1 DEF Sending, InSending, OneEach, AtRest, Distinct

-----------------------------------------------------------------------------
(* The staff log and its poster.                                             *)

LEMMA PostingFrame == Posting /\ UNCHANGED posterVars => Posting'
BY DEF Posting, InPosting, Distinct, posterVars

LEMMA LogStaffActionPosts == ASSUME Posting, LogStaffAction PROVE Posting'
<1>. DEFINE row == [posted |-> FALSE, old |-> FALSE, heard |-> 0]
<1>1. row \in LogRow
  BY DEF LogRow
<1>2. staffLog' = Append(staffLog, row) /\ staffLog \in Seq(LogRow) /\ UNCHANGED poster
  BY DEF LogStaffAction, Posting
<1>. HIDE DEF row
<1>3. /\ staffLog' \in Seq(LogRow) /\ DOMAIN staffLog' = DOMAIN staffLog \cup {Len(staffLog) + 1}
      /\ \A j \in DOMAIN staffLog : staffLog'[j] = staffLog[j]
  BY <1>1, <1>2, RowAdded
<1>4. poster' \in [at : {"rest", "post", "mark"}, batch : Seq(DOMAIN staffLog')]
  <2>1. poster.batch \in Seq(DOMAIN staffLog')
    BY <1>3, SeqMonotonic DEF Posting
  <2>. QED BY <2>1, <1>2 DEF Posting
<1>5. InPosting'
  <2>1. \A k \in DOMAIN poster.batch : poster.batch[k] \in DOMAIN staffLog
    BY DEF Posting
  <2>2. poster.at = "mark" => Head(poster.batch) \in DOMAIN staffLog
    BY DEF Posting
  <2>. QED BY <2>1, <2>2, <1>2, <1>3 DEF InPosting, Posting
<1>. QED BY <1>2, <1>3, <1>4, <1>5 DEF Posting

LEMMA TakePendingPosts == ASSUME Posting, TakePending PROVE Posting'
<1>. DEFINE batch == FirstIds(Pending, LogBatch)
<1>1. poster' = [at |-> "post", batch |-> batch] /\ Pending # {} /\ staffLog' = staffLog
  BY DEF TakePending
<1>2. Pending \in SUBSET DOMAIN staffLog /\ \A i \in Pending : ~staffLog[i].posted
  BY DEF Pending
<1>3. Pending \subseteq Nat /\ IsFiniteSet(Pending)
  BY <1>2, IdsFinite DEF Posting
<1>5. batch \in Seq(Pending) /\ batch # <<>> /\ Distinct(batch)
  BY <1>1, <1>3, FirstIdsAre, DeliveryAssumption
<1>6. batch \in Seq(DOMAIN staffLog)
  BY <1>2, <1>5, SeqMonotonic
<1>7. \A k \in DOMAIN batch : batch[k] \in Pending
  BY <1>5
<1>. HIDE DEF batch
<1>. QED BY <1>1, <1>2, <1>5, <1>6, <1>7 DEF Posting, InPosting

\* What the poster is at.
LEMMA PosterAt ==
    ASSUME Posting, poster.at # "rest"
    PROVE  /\ poster.batch \in Seq(DOMAIN staffLog) /\ poster.batch # <<>> /\ Distinct(poster.batch)
           /\ Head(poster.batch) \in DOMAIN staffLog
           /\ staffLog[Head(poster.batch)] \in LogRow
           /\ ~staffLog[Head(poster.batch)].posted
<1>1. poster.batch \in Seq(DOMAIN staffLog) /\ poster.batch # <<>> /\ Distinct(poster.batch)
  BY DEF Posting, InPosting
<1>2. Head(poster.batch) = poster.batch[1] /\ 1 \in DOMAIN poster.batch
      /\ Head(poster.batch) \in DOMAIN staffLog
  BY <1>1, BatchGoesOn
<1>. QED BY <1>1, <1>2 DEF Posting, InPosting

\* The poster rests, whatever it had in hand.
LEMMA RestingPosts ==
    ASSUME Posting, staffLog' \in Seq(LogRow), poster' = Waits
    PROVE  Posting'
BY DEF Posting, InPosting, Waits, Distinct

LEMMA PostRowPosts == ASSUME Posting, PostRow PROVE Posting'
<1>. DEFINE i == Head(poster.batch)
            row == [staffLog[i] EXCEPT !.heard = @ + 1]
            heard == [staffLog EXCEPT ![i] = row]
<1>1. poster.at = "post"
  BY DEF PostRow
<1>2. i \in DOMAIN staffLog /\ staffLog[i] \in LogRow
  BY <1>1, PosterAt
<1>3. row \in LogRow /\ row.posted = staffLog[i].posted /\ row.heard > 0
  <2>. DEFINE said == staffLog[i].heard + 1
  <2>1. said \in Nat /\ said > 0 /\ row = [staffLog[i] EXCEPT !.heard = said]
    BY <1>2 DEF LogRow
  <2>. HIDE DEF said, row
  <2>. QED BY <1>2, <2>1 DEF LogRow
<1>4. ASSUME staffLog' = heard
      PROVE  /\ staffLog' \in Seq(LogRow) /\ DOMAIN staffLog' = DOMAIN staffLog
             /\ staffLog'[i] = row /\ \A j \in DOMAIN staffLog : j # i => staffLog'[j] = staffLog[j]
  <2>. HIDE DEF i, row
  <2>. QED BY <1>2, <1>3, <1>4, RowChanges DEF Posting
<1>5. CASE staffLog' = heard /\ poster' = [poster EXCEPT !.at = "mark"]
  <2>1. poster' = [at |-> "mark", batch |-> poster.batch]
    BY <1>5 DEF Posting
  <2>. HIDE DEF row
  <2>2. \A k \in DOMAIN poster.batch : poster.batch[k] \in DOMAIN staffLog
    BY DEF Posting
  <2>3. \A j \in DOMAIN staffLog : staffLog'[j].posted = staffLog[j].posted
    BY <1>3, <1>4, <1>5
  <2>4. staffLog'[i].heard > 0
    BY <1>3, <1>4, <1>5
  <2>5. InPosting'
    BY <2>1, <2>2, <2>3, <2>4 DEF InPosting, Posting
  <2>6. poster.batch # <<>>
    BY <1>1, PosterAt
  <2>. QED BY <1>4, <1>5, <2>1, <2>5, <2>6 DEF Posting
<1>6. CASE staffLog' = heard /\ poster' = Waits
  BY <1>4, <1>6, RestingPosts
<1>7. CASE staffLog' = staffLog /\ poster' = Waits
  BY <1>7, RestingPosts DEF Posting
<1>. QED BY <1>5, <1>6, <1>7 DEF PostRow

LEMMA MarkPostedPosts == ASSUME Posting, MarkPosted PROVE Posting'
<1>. DEFINE i == Head(poster.batch)
            b == poster.batch
            row == [staffLog[i] EXCEPT !.posted = TRUE]
<1>1. poster.at = "mark"
  BY DEF MarkPosted
<1>2. /\ b \in Seq(DOMAIN staffLog) /\ b # <<>> /\ Distinct(b)
      /\ i \in DOMAIN staffLog /\ staffLog[i] \in LogRow
  BY <1>1, PosterAt
<1>3. CASE staffLog' = staffLog /\ poster' = Waits
  BY <1>3, RestingPosts DEF Posting
<1>4. CASE /\ staffLog' = [staffLog EXCEPT ![i].posted = TRUE]
           /\ poster' = IF Len(b) = 1 THEN Waits ELSE [at |-> "post", batch |-> Tail(b)]
  <2>1. row \in LogRow
    BY <1>2 DEF LogRow
  <2>2. staffLog' = [staffLog EXCEPT ![i] = row]
    BY <1>4
  <2>3. /\ staffLog' \in Seq(LogRow) /\ DOMAIN staffLog' = DOMAIN staffLog
        /\ \A j \in DOMAIN staffLog : j # i => staffLog'[j] = staffLog[j]
    <3>. HIDE DEF i, row
    <3>. QED BY <1>2, <2>1, <2>2, RowChanges DEF Posting
  <2>4. CASE Len(b) = 1
    BY <1>4, <2>3, <2>4, RestingPosts
  <2>5. CASE Len(b) # 1
    <3>. DEFINE rest == Tail(b)
    <3>1. /\ rest \in Seq(DOMAIN staffLog) /\ rest # <<>> /\ Distinct(rest)
          /\ \A k \in DOMAIN rest : k + 1 \in DOMAIN b /\ rest[k] = b[k + 1] /\ rest[k] # i
      BY <1>2, <2>5, BatchGoesOn
    <3>2. \A k \in DOMAIN rest : ~staffLog[rest[k]].posted /\ rest[k] # i
      BY <3>1 DEF Posting, InPosting
    <3>3. poster' = [at |-> "post", batch |-> rest]
      BY <1>4, <2>5
    <3>. HIDE DEF rest
    <3>4. \A k \in DOMAIN rest : rest[k] \in DOMAIN staffLog
      BY <3>1
    <3>5. InPosting'
      BY <2>3, <3>1, <3>2, <3>3, <3>4 DEF InPosting
    <3>. QED BY <2>3, <3>1, <3>3, <3>5 DEF Posting
  <2>. QED BY <2>4, <2>5
<1>. QED BY <1>3, <1>4 DEF MarkPosted

LEMMA DayPosts == ASSUME Posting, DayPasses PROVE Posting'
<1>1. CASE UNCHANGED staffLog
  BY <1>1, PostingFrame DEF DayPasses, posterVars
<1>2. CASE \E i \in Pending : staffLog' = [staffLog EXCEPT ![i].old = TRUE]
  <2>1. PICK i \in DOMAIN staffLog : staffLog' = [staffLog EXCEPT ![i].old = TRUE]
    BY <1>2 DEF Pending
  <2>. DEFINE row == [staffLog[i] EXCEPT !.old = TRUE]
  <2>2. staffLog[i] \in LogRow
    BY DEF Posting
  <2>3. row \in LogRow
    BY <2>2 DEF LogRow
  <2>4. row.posted = staffLog[i].posted /\ row.heard = staffLog[i].heard
    BY <2>2 DEF LogRow
  <2>5. staffLog' = [staffLog EXCEPT ![i] = row] /\ UNCHANGED poster
    BY <2>1 DEF DayPasses
  <2>. HIDE DEF row
  <2>6. /\ staffLog' \in Seq(LogRow) /\ DOMAIN staffLog' = DOMAIN staffLog /\ staffLog'[i] = row
        /\ \A j \in DOMAIN staffLog : j # i => staffLog'[j] = staffLog[j]
    BY <2>3, <2>5, RowChanges DEF Posting
  <2>7. \A j \in DOMAIN staffLog :
           staffLog'[j].posted = staffLog[j].posted /\ staffLog'[j].heard = staffLog[j].heard
    BY <2>4, <2>6
  <2>8. InPosting'
    <3>1. \A k \in DOMAIN poster.batch : poster.batch[k] \in DOMAIN staffLog
      BY DEF Posting
    <3>2. poster.at = "mark" => Head(poster.batch) \in DOMAIN staffLog
      BY PosterAt
    <3>. QED BY <2>5, <2>7, <3>1, <3>2 DEF InPosting, Posting
  <2>. QED BY <2>5, <2>6, <2>8 DEF Posting
<1>. QED BY <1>1, <1>2 DEF DayPasses

LEMMA RestartPosts == ASSUME Posting, BotRestart PROVE Posting'
BY RestingPosts DEF BotRestart, Posting

-----------------------------------------------------------------------------
(* The outbox is a mailbox.                                                  *)

HeardRows == {i \in DOMAIN outbox : outbox[i].heard > 0}
SentRows == {i \in DOMAIN outbox : outbox[i].state = "sent"}
GivenUpRows == {i \in DOMAIN outbox : outbox[i].state = "gave up"}

\* A column of a row changes.
LEMMA ColumnChanges ==
    ASSUME NEW r \in LetterRow, NEW x
    PROVE  /\ [r EXCEPT !.heard = x].key = r.key /\ [r EXCEPT !.heard = x].state = r.state
           /\ [r EXCEPT !.heard = x].heard = x
           /\ [r EXCEPT !.due = x].key = r.key /\ [r EXCEPT !.due = x].state = r.state
           /\ [r EXCEPT !.due = x].heard = r.heard
           /\ [r EXCEPT !.old = x].key = r.key /\ [r EXCEPT !.old = x].state = r.state
           /\ [r EXCEPT !.old = x].heard = r.heard
<1>1. DOMAIN r = {"key", "text", "state", "due", "old", "heard"}
  BY DEF LetterRow
<1>. QED BY <1>1

\* A row in the sets of the abstract mailbox: the keys of rows stay.
LEMMA KeysStay ==
    ASSUME DOMAIN outbox' = DOMAIN outbox,
           \A j \in DOMAIN outbox : outbox'[j].key = outbox[j].key,
           NEW R, R \subseteq DOMAIN outbox, NEW i
    PROVE  /\ {outbox'[j].key : j \in R} = {outbox[j].key : j \in R}
           /\ i \in DOMAIN outbox =>
                {outbox'[j].key : j \in R \cup {i}} = {outbox[j].key : j \in R} \cup {outbox[i].key}
<1>1. \A j \in R : outbox'[j].key = outbox[j].key
  OBVIOUS
<1>2. {outbox'[j].key : j \in R} = {outbox[j].key : j \in R}
  BY <1>1
<1>3. ASSUME i \in DOMAIN outbox
      PROVE  {outbox'[j].key : j \in R \cup {i}} = {outbox[j].key : j \in R} \cup {outbox[i].key}
  BY <1>1, <1>3
<1>. QED BY <1>2, <1>3

\* Letters that wait: the rows in hand.
LEMMA QueuedWaits ==
    ASSUME Sending, NEW i \in DOMAIN outbox, outbox[i].state = "queued"
    PROVE  /\ outbox[i].key \in KeysIn(DOMAIN outbox)
           /\ outbox[i].key \notin KeysIn(SentRows)
           /\ outbox[i].key \notin KeysIn(GivenUpRows)
<1>1. outbox[i].key \in KeysIn(DOMAIN outbox)
  BY DEF KeysIn
<1>2. ASSUME NEW j \in DOMAIN outbox, outbox[j].key = outbox[i].key
      PROVE  outbox[j].state = "queued"
  BY <1>2 DEF Sending, OneEach
<1>. QED BY <1>1, <1>2 DEF KeysIn, SentRows, GivenUpRows

\* The steps of the mailbox, told by the rows.
LEMMA LettersStutter ==
    ASSUME DOMAIN outbox' = DOMAIN outbox,
           \A j \in DOMAIN outbox : outbox'[j].key = outbox[j].key,
           HeardRows' = HeardRows, SentRows' = SentRows, GivenUpRows' = GivenUpRows
    PROVE  UNCHANGED Letters!vars
<1>1. HeardRows \subseteq DOMAIN outbox /\ SentRows \subseteq DOMAIN outbox
      /\ GivenUpRows \subseteq DOMAIN outbox
  BY DEF HeardRows, SentRows, GivenUpRows
<1>2. /\ KeysIn(DOMAIN outbox)' = KeysIn(DOMAIN outbox)
      /\ KeysIn(HeardRows)' = KeysIn(HeardRows)
      /\ KeysIn(SentRows)' = KeysIn(SentRows)
      /\ KeysIn(GivenUpRows)' = KeysIn(GivenUpRows)
  BY <1>1, KeysStay DEF KeysIn
<1>. QED BY <1>2 DEF Letters!vars, HeardRows, SentRows, GivenUpRows

LEMMA EnqueueLetters ==
    ASSUME Sending, NEW key \in Keys, NEW text \in Texts, Enqueue(key, text)
    PROVE  [Letters!Next]_(Letters!vars)
<1>1. CASE UNCHANGED outbox
  BY <1>1, LettersStutter DEF HeardRows, SentRows, GivenUpRows
<1>2. CASE ~Queued(key)
  <2>. DEFINE row == [key |-> key, text |-> text, state |-> "queued",
                      due |-> TRUE, old |-> FALSE, heard |-> 0]
  <2>1. row \in LetterRow /\ row.key = key /\ row.state = "queued" /\ row.heard = 0
    BY DEF LetterRow
  <2>2. outbox' = Append(outbox, row) /\ outbox \in Seq(LetterRow)
    BY <1>2 DEF Enqueue, Sending
  <2>. DEFINE new == Len(outbox) + 1
  <2>. HIDE DEF row
  <2>3. /\ DOMAIN outbox' = DOMAIN outbox \cup {new}
        /\ new \notin DOMAIN outbox /\ outbox'[new] = row
        /\ \A j \in DOMAIN outbox : outbox'[j] = outbox[j]
    BY <2>1, <2>2, RowAdded
  <2>. HIDE DEF new
  <2>4. HeardRows' = HeardRows /\ SentRows' = SentRows /\ GivenUpRows' = GivenUpRows
    <3>1. outbox'[new].state = "queued" /\ ~(outbox'[new].heard > 0)
      BY <2>1, <2>3
    <3>2. HeardRows' = HeardRows
      BY <2>3, <3>1 DEF HeardRows
    <3>3. SentRows' = SentRows
      BY <2>3, <3>1 DEF SentRows
    <3>4. GivenUpRows' = GivenUpRows
      BY <2>3, <3>1 DEF GivenUpRows
    <3>. QED BY <3>2, <3>3, <3>4
  <2>5. \A j \in HeardRows \cup SentRows \cup GivenUpRows : outbox'[j] = outbox[j]
    BY <2>3 DEF HeardRows, SentRows, GivenUpRows
  <2>6. /\ KeysIn(HeardRows)' = KeysIn(HeardRows)
        /\ KeysIn(SentRows)' = KeysIn(SentRows)
        /\ KeysIn(GivenUpRows)' = KeysIn(GivenUpRows)
    BY <2>4, <2>5 DEF KeysIn
  <2>7. KeysIn(DOMAIN outbox)' = KeysIn(DOMAIN outbox) \cup {key}
    BY <2>1, <2>3 DEF KeysIn
  <2>8. key \in Keys \ KeysIn(DOMAIN outbox)
    BY <1>2 DEF KeysIn, Queued
  <2>9. Letters!Post
    BY <2>6, <2>7, <2>8 DEF Letters!Post, HeardRows, SentRows, GivenUpRows
  <2>. QED BY <2>9 DEF Letters!Next
<1>. QED BY <1>1, <1>2 DEF Enqueue

LEMMA SendLetters == ASSUME Sending, Send PROVE [Letters!Next]_(Letters!vars)
<1>. DEFINE i == Head(worker.batch)
            heard == outbox' = [outbox EXCEPT ![i].heard = @ + 1]
<1>1. CASE UNCHANGED outbox
  BY <1>1, LettersStutter DEF HeardRows, SentRows, GivenUpRows
<1>2. CASE heard
  <2>1. worker.at = "send"
    BY DEF Send
  <2>2. i \in DOMAIN outbox /\ outbox[i] \in LetterRow /\ outbox[i].state = "queued"
    BY <2>1, AtHead
  <2>. DEFINE said == outbox[i].heard + 1
              row == [outbox[i] EXCEPT !.heard = said]
  <2>3. said \in Nat /\ said > 0
    <3>1. outbox[i].heard \in Nat
      BY <2>2 DEF LetterRow
    <3>. QED BY <3>1
  <2>4. outbox' = [outbox EXCEPT ![i] = row]
    BY <1>2
  <2>. HIDE DEF said, i
  <2>5. /\ row.key = outbox[i].key /\ row.state = outbox[i].state /\ row.heard > 0
        /\ row \in LetterRow
    <3>1. row \in LetterRow
      BY <2>2, <2>3 DEF LetterRow
    <3>2. row.key = outbox[i].key /\ row.state = outbox[i].state /\ row.heard = said
      BY <2>2, ColumnChanges
    <3>. QED BY <2>3, <3>1, <3>2
  <2>. HIDE DEF row
  <2>6. /\ DOMAIN outbox' = DOMAIN outbox /\ outbox'[i] = row
        /\ \A j \in DOMAIN outbox : j # i => outbox'[j] = outbox[j]
    BY <2>2, <2>4, <2>5, RowChanges DEF Sending
  <2>7. \A j \in DOMAIN outbox : outbox'[j].key = outbox[j].key
    BY <2>5, <2>6
  <2>8. HeardRows' = HeardRows \cup {i} /\ SentRows' = SentRows /\ GivenUpRows' = GivenUpRows
    BY <2>2, <2>5, <2>6 DEF HeardRows, SentRows, GivenUpRows
  <2>9. HeardRows \subseteq DOMAIN outbox /\ SentRows \subseteq DOMAIN outbox
        /\ GivenUpRows \subseteq DOMAIN outbox
    BY DEF HeardRows, SentRows, GivenUpRows
  <2>10. /\ KeysIn(DOMAIN outbox)' = KeysIn(DOMAIN outbox)
         /\ KeysIn(HeardRows)' = KeysIn(HeardRows) \cup {outbox[i].key}
         /\ KeysIn(SentRows)' = KeysIn(SentRows)
         /\ KeysIn(GivenUpRows)' = KeysIn(GivenUpRows)
    BY <2>2, <2>6, <2>7, <2>8, <2>9, KeysStay DEF KeysIn
  <2>11. /\ outbox[i].key \in KeysIn(DOMAIN outbox) \ (KeysIn(SentRows) \cup KeysIn(GivenUpRows))
         /\ KeysIn(GivenUpRows)' = KeysIn(GivenUpRows) \cup {}
    BY <2>2, <2>10, QueuedWaits
  <2>12. Letters!Say
    BY <2>10, <2>11 DEF Letters!Say, Letters!Waiting, HeardRows, SentRows, GivenUpRows
  <2>. QED BY <2>12 DEF Letters!Next
<1>. QED BY <1>1, <1>2 DEF Send

LEMMA MarkLetters == ASSUME Sending, Mark PROVE [Letters!Next]_(Letters!vars)
<1>. DEFINE i == Head(worker.batch)
            row == Verdict(outbox[i])
<1>1. CASE UNCHANGED outbox
  BY <1>1, LettersStutter DEF HeardRows, SentRows, GivenUpRows
<1>2. CASE outbox' = [outbox EXCEPT ![i] = row]
  <2>1. worker.at = "mark"
    BY DEF Mark
  <2>2. i \in DOMAIN outbox /\ outbox[i] \in LetterRow /\ outbox[i].state = "queued"
    BY <2>1, AtHead
  <2>3. worker.answer = "sent" => outbox[i].heard > 0
    BY <2>1 DEF Sending, InSending
  <2>. HIDE DEF i
  <2>4. /\ row \in LetterRow /\ row.key = outbox[i].key /\ row.heard = outbox[i].heard
        /\ row.state \in {"queued", "sent", "gave up"}
        /\ row.state = "sent" => worker.answer = "sent"
    <3>1. CASE worker.answer = "sent"
      <4>1. row = [outbox[i] EXCEPT !.state = "sent"]
        BY <3>1 DEF Verdict
      <4>. QED BY <2>2, <3>1, <4>1 DEF LetterRow
    <3>2. CASE worker.answer # "sent"
      <4>1. \/ row = [outbox[i] EXCEPT !.state = "gave up"]
            \/ row = [outbox[i] EXCEPT !.due = FALSE]
        BY <3>2 DEF Verdict
      <4>. QED BY <2>2, <4>1 DEF LetterRow
    <3>. QED BY <3>1, <3>2
  <2>. HIDE DEF row
  <2>5. /\ DOMAIN outbox' = DOMAIN outbox /\ outbox'[i] = row
        /\ \A j \in DOMAIN outbox : j # i => outbox'[j] = outbox[j]
    BY <1>2, <2>2, <2>4, RowChanges DEF Sending
  <2>6. \A j \in DOMAIN outbox : outbox'[j].key = outbox[j].key
    BY <2>4, <2>5
  <2>7. HeardRows \subseteq DOMAIN outbox /\ SentRows \subseteq DOMAIN outbox
        /\ GivenUpRows \subseteq DOMAIN outbox
    BY DEF HeardRows, SentRows, GivenUpRows
  <2>8. HeardRows' = HeardRows
    BY <2>4, <2>5 DEF HeardRows
  <2>9. outbox[i].key \in KeysIn(DOMAIN outbox) \ (KeysIn(SentRows) \cup KeysIn(GivenUpRows))
    BY <2>2, QueuedWaits
  <2>10. CASE row.state = "queued"
    <3>1. SentRows' = SentRows /\ GivenUpRows' = GivenUpRows
      BY <2>2, <2>5, <2>10 DEF SentRows, GivenUpRows
    <3>. QED BY <2>5, <2>6, <2>8, <3>1, LettersStutter
  <2>11. CASE row.state = "sent"
    <3>1. SentRows' = SentRows \cup {i} /\ GivenUpRows' = GivenUpRows
      BY <2>2, <2>5, <2>11 DEF SentRows, GivenUpRows
    <3>2. /\ KeysIn(DOMAIN outbox)' = KeysIn(DOMAIN outbox)
          /\ KeysIn(HeardRows)' = KeysIn(HeardRows)
          /\ KeysIn(SentRows)' = KeysIn(SentRows) \cup {outbox[i].key}
          /\ KeysIn(GivenUpRows)' = KeysIn(GivenUpRows)
      BY <2>2, <2>5, <2>6, <2>7, <2>8, <3>1, KeysStay DEF KeysIn
    <3>3. outbox[i].key \in KeysIn(HeardRows)
      BY <2>2, <2>3, <2>4, <2>11 DEF KeysIn, HeardRows
    <3>4. Letters!Confirm
      BY <2>9, <3>2, <3>3 DEF Letters!Confirm, Letters!Waiting, HeardRows, SentRows, GivenUpRows
    <3>. QED BY <3>4 DEF Letters!Next
  <2>12. CASE row.state = "gave up"
    <3>1. GivenUpRows' = GivenUpRows \cup {i} /\ SentRows' = SentRows
      BY <2>2, <2>5, <2>12 DEF SentRows, GivenUpRows
    <3>2. /\ KeysIn(DOMAIN outbox)' = KeysIn(DOMAIN outbox)
          /\ KeysIn(HeardRows)' = KeysIn(HeardRows)
          /\ KeysIn(SentRows)' = KeysIn(SentRows)
          /\ KeysIn(GivenUpRows)' = KeysIn(GivenUpRows) \cup {outbox[i].key}
      BY <2>2, <2>5, <2>6, <2>7, <2>8, <3>1, KeysStay DEF KeysIn
    <3>3. Letters!Drop
      BY <2>9, <3>2 DEF Letters!Drop, Letters!Waiting, HeardRows, SentRows, GivenUpRows
    <3>. QED BY <3>3 DEF Letters!Next
  <2>. QED BY <2>4, <2>10, <2>11, <2>12
<1>. QED BY <1>1, <1>2 DEF Mark

\* A backoff is over or a day passes: not a step of the mailbox.
LEMMA TimeLetters ==
    ASSUME Sending,
           \/ \E i \in DOMAIN outbox : outbox' = [outbox EXCEPT ![i].due = TRUE]
           \/ \E i \in DOMAIN outbox : outbox' = [outbox EXCEPT ![i].old = TRUE]
    PROVE  UNCHANGED Letters!vars
<1>1. \A j \in DOMAIN outbox : outbox[j] \in LetterRow
  BY DEF Sending
<1>2. /\ DOMAIN outbox' = DOMAIN outbox
      /\ \A j \in DOMAIN outbox : outbox'[j].key = outbox[j].key
            /\ outbox'[j].state = outbox[j].state /\ outbox'[j].heard = outbox[j].heard
  <2>1. ASSUME NEW i \in DOMAIN outbox,
               \/ outbox' = [outbox EXCEPT ![i] = [outbox[i] EXCEPT !.due = TRUE]]
               \/ outbox' = [outbox EXCEPT ![i] = [outbox[i] EXCEPT !.old = TRUE]],
               NEW j \in DOMAIN outbox
        PROVE  /\ DOMAIN outbox' = DOMAIN outbox /\ outbox'[j].key = outbox[j].key
               /\ outbox'[j].state = outbox[j].state /\ outbox'[j].heard = outbox[j].heard
    <3>1. CASE j = i
      <4>1. \/ outbox'[j] = [outbox[j] EXCEPT !.due = TRUE]
            \/ outbox'[j] = [outbox[j] EXCEPT !.old = TRUE]
        BY <2>1, <3>1
      <4>2. DOMAIN outbox' = DOMAIN outbox
        BY <2>1
      <4>3. outbox[j] \in LetterRow
        BY <1>1
      <4>4. CASE outbox'[j] = [outbox[j] EXCEPT !.due = TRUE]
        <5>. DEFINE row == [outbox[j] EXCEPT !.due = TRUE]
        <5>1. row.key = outbox[j].key /\ row.state = outbox[j].state /\ row.heard = outbox[j].heard
          BY <4>3, ColumnChanges
        <5>2. outbox'[j] = row
          BY <4>4
        <5>. HIDE DEF row
        <5>. QED BY <4>2, <5>1, <5>2
      <4>5. CASE outbox'[j] = [outbox[j] EXCEPT !.old = TRUE]
        <5>. DEFINE row == [outbox[j] EXCEPT !.old = TRUE]
        <5>1. row.key = outbox[j].key /\ row.state = outbox[j].state /\ row.heard = outbox[j].heard
          BY <4>3, ColumnChanges
        <5>2. outbox'[j] = row
          BY <4>5
        <5>. HIDE DEF row
        <5>. QED BY <4>2, <5>1, <5>2
      <4>. QED BY <4>1, <4>4, <4>5
    <3>2. CASE j # i
      BY <2>1, <3>2
    <3>. QED BY <3>1, <3>2
  <2>. QED BY <2>1
<1>3. HeardRows' = HeardRows /\ SentRows' = SentRows /\ GivenUpRows' = GivenUpRows
  BY <1>2 DEF HeardRows, SentRows, GivenUpRows
<1>. QED BY <1>2, <1>3, LettersStutter

-----------------------------------------------------------------------------
(* The poster's channel is a mailbox.                                        *)

ToldRows == {i \in DOMAIN staffLog : staffLog[i].heard > 0}
PostedRows == {i \in DOMAIN staffLog : staffLog[i].posted}
OldRows == {i \in DOMAIN staffLog : staffLog[i].old /\ ~staffLog[i].posted}
LeftRows == OldRows \ InHand

\* What the poster posts next waits, and is in hand.
LEMMA InHandWaits ==
    ASSUME Posting, poster.at # "rest"
    PROVE  /\ Head(poster.batch) \in InHand
           /\ Head(poster.batch) \in DOMAIN staffLog \ (PostedRows \cup LeftRows)
<1>1. poster.batch \in Seq(DOMAIN staffLog) /\ poster.batch # <<>> /\ Distinct(poster.batch)
  BY PosterAt
<1>2. 1 \in DOMAIN poster.batch /\ Head(poster.batch) = poster.batch[1]
  BY <1>1, BatchGoesOn
<1>3. Head(poster.batch) \in InHand
  BY <1>2 DEF InHand
<1>. QED BY <1>3, PosterAt DEF PostedRows, LeftRows

\* The mailbox, told by the rows.
NoticesAre(posted, heard, confirmed, dropped) ==
    /\ (DOMAIN staffLog)' = posted /\ ToldRows' = heard
    /\ PostedRows' = confirmed /\ LeftRows' = dropped

LEMMA NoticesStutter ==
    ASSUME NoticesAre(DOMAIN staffLog, ToldRows, PostedRows, LeftRows)
    PROVE  UNCHANGED Notices!vars
BY DEF NoticesAre, Notices!vars, ToldRows, PostedRows, OldRows, LeftRows

LEMMA NoticesPost ==
    ASSUME NEW m \in (1..MaxLog) \ DOMAIN staffLog,
           NoticesAre(DOMAIN staffLog \cup {m}, ToldRows, PostedRows, LeftRows)
    PROVE  Notices!Next
<1>1. Notices!Post
  BY DEF NoticesAre, Notices!Post, ToldRows, PostedRows, OldRows, LeftRows
<1>. QED BY <1>1 DEF Notices!Next

LEMMA NoticesSay ==
    ASSUME NEW m \in DOMAIN staffLog \ (PostedRows \cup LeftRows),
           NEW some \in SUBSET (DOMAIN staffLog \ (PostedRows \cup LeftRows)),
           NoticesAre(DOMAIN staffLog, ToldRows \cup {m}, PostedRows, LeftRows \cup some)
    PROVE  Notices!Next
<1>1. Notices!Say
  BY DEF NoticesAre, Notices!Say, Notices!Waiting, ToldRows, PostedRows, OldRows, LeftRows
<1>. QED BY <1>1 DEF Notices!Next

LEMMA NoticesConfirm ==
    ASSUME NEW m \in DOMAIN staffLog \ (PostedRows \cup LeftRows), m \in ToldRows,
           NoticesAre(DOMAIN staffLog, ToldRows, PostedRows \cup {m}, LeftRows)
    PROVE  Notices!Next
<1>1. Notices!Confirm
  BY DEF NoticesAre, Notices!Confirm, Notices!Waiting, ToldRows, PostedRows, OldRows, LeftRows
<1>. QED BY <1>1 DEF Notices!Next

LEMMA NoticesDrop ==
    ASSUME NEW some \in SUBSET (DOMAIN staffLog \ (PostedRows \cup LeftRows)),
           NoticesAre(DOMAIN staffLog, ToldRows, PostedRows, LeftRows \cup some)
    PROVE  [Notices!Next]_(Notices!vars)
<1>1. CASE some = {}
  BY <1>1, NoticesStutter DEF NoticesAre
<1>2. CASE some # {}
  <2>1. Notices!Drop
    BY <1>2 DEF NoticesAre, Notices!Drop, Notices!Waiting, ToldRows, PostedRows, OldRows, LeftRows
  <2>. QED BY <2>1 DEF Notices!Next
<1>. QED BY <1>1, <1>2

LEMMA WaitsInHand == poster' = Waits => InHand' = {}
BY DEF InHand, Waits

\* The poster lets go of what it has in hand: what is too old of it is dropped.
LEMMA LetGo ==
    ASSUME Posting, poster' = Waits, UNCHANGED staffLog
    PROVE  [Notices!Next]_(Notices!vars)
<1>. DEFINE some == OldRows \cap InHand
<1>1. LeftRows' = LeftRows \cup some
  BY WaitsInHand DEF LeftRows, OldRows
<1>2. some \in SUBSET (DOMAIN staffLog \ (PostedRows \cup LeftRows))
  BY DEF LeftRows, OldRows, PostedRows
<1>. HIDE DEF some
<1>3. NoticesAre(DOMAIN staffLog, ToldRows, PostedRows, LeftRows \cup some)
  BY <1>1 DEF NoticesAre, ToldRows, PostedRows
<1>. QED BY <1>2, <1>3, NoticesDrop

LEMMA LogStaffActionNotices ==
    ASSUME Posting, LogStaffAction PROVE [Notices!Next]_(Notices!vars)
<1>. DEFINE row == [posted |-> FALSE, old |-> FALSE, heard |-> 0]
            new == Len(staffLog) + 1
<1>1. row \in LogRow /\ ~row.posted /\ ~row.old /\ ~(row.heard > 0)
  BY DEF LogRow
<1>2. staffLog' = Append(staffLog, row) /\ staffLog \in Seq(LogRow) /\ UNCHANGED poster
  BY DEF LogStaffAction, Posting
<1>3. new \in 1..MaxLog
  BY <1>2, DeliveryAssumption DEF LogStaffAction
<1>. HIDE DEF row
<1>4. /\ DOMAIN staffLog' = DOMAIN staffLog \cup {new}
      /\ new \notin DOMAIN staffLog /\ staffLog'[new] = row
      /\ \A j \in DOMAIN staffLog : staffLog'[j] = staffLog[j]
  BY <1>1, <1>2, RowAdded
<1>. HIDE DEF new
<1>5. ToldRows' = ToldRows
  BY <1>1, <1>4 DEF ToldRows
<1>6. PostedRows' = PostedRows
  BY <1>1, <1>4 DEF PostedRows
<1>7. OldRows' = OldRows
  BY <1>1, <1>4 DEF OldRows
<1>8. InHand' = InHand
  BY <1>2 DEF InHand
<1>9. NoticesAre(DOMAIN staffLog \cup {new}, ToldRows, PostedRows, LeftRows)
  BY <1>4, <1>5, <1>6, <1>7, <1>8 DEF NoticesAre, LeftRows
<1>. QED BY <1>3, <1>4, <1>9, NoticesPost

LEMMA TakePendingNotices ==
    ASSUME Posting, TakePending PROVE UNCHANGED Notices!vars
<1>. DEFINE batch == FirstIds(Pending, LogBatch)
<1>1. poster' = [at |-> "post", batch |-> batch] /\ Pending # {} /\ staffLog' = staffLog
      /\ poster.at = "rest"
  BY DEF TakePending
<1>2. Pending \in SUBSET DOMAIN staffLog /\ Pending \cap OldRows = {}
  BY DEF Pending, OldRows
<1>3. Pending \subseteq Nat /\ IsFiniteSet(Pending)
  BY <1>2, IdsFinite DEF Posting
<1>4. batch \in Seq(Pending)
  BY <1>1, <1>3, FirstIdsAre, DeliveryAssumption
<1>. HIDE DEF batch
<1>5. InHand' \subseteq Pending
  <2>1. \A k \in DOMAIN batch : batch[k] \in Pending
    BY <1>4
  <2>. QED BY <1>1, <2>1 DEF InHand
<1>6. InHand = {}
  BY <1>1 DEF Posting, InHand
<1>7. OldRows' = OldRows
  BY <1>1 DEF OldRows
<1>8. LeftRows' = LeftRows
  BY <1>2, <1>5, <1>6, <1>7 DEF LeftRows
<1>. QED BY <1>1, <1>8, NoticesStutter DEF NoticesAre, ToldRows, PostedRows

LEMMA PostRowNotices == ASSUME Posting, PostRow PROVE [Notices!Next]_(Notices!vars)
<1>. DEFINE i == Head(poster.batch)
            said == staffLog[i].heard + 1
            row == [staffLog[i] EXCEPT !.heard = said]
            heard == staffLog' = [staffLog EXCEPT ![i].heard = @ + 1]
<1>1. poster.at = "post"
  BY DEF PostRow
<1>2. /\ i \in DOMAIN staffLog /\ staffLog[i] \in LogRow /\ i \in InHand
      /\ i \in DOMAIN staffLog \ (PostedRows \cup LeftRows)
  BY <1>1, PosterAt, InHandWaits
<1>3. said \in Nat /\ said > 0
  <2>1. staffLog[i].heard \in Nat
    BY <1>2 DEF LogRow
  <2>. QED BY <2>1
<1>4. CASE UNCHANGED staffLog /\ poster' = Waits
  BY <1>4, LetGo
<1>5. CASE heard /\ (poster' = [poster EXCEPT !.at = "mark"] \/ poster' = Waits)
  <2>1. staffLog' = [staffLog EXCEPT ![i] = row]
    BY <1>5
  <2>. HIDE DEF i, said
  <2>2. row \in LogRow
    BY <1>2, <1>3 DEF LogRow
  <2>3. row.posted = staffLog[i].posted /\ row.old = staffLog[i].old /\ row.heard > 0
    <3>1. DOMAIN staffLog[i] = {"posted", "old", "heard"}
      BY <1>2 DEF LogRow
    <3>. QED BY <1>3, <3>1
  <2>. HIDE DEF row
  <2>4. /\ DOMAIN staffLog' = DOMAIN staffLog /\ staffLog'[i] = row
        /\ \A j \in DOMAIN staffLog : j # i => staffLog'[j] = staffLog[j]
    BY <1>2, <2>1, <2>2, RowChanges DEF Posting
  <2>5. ToldRows' = ToldRows \cup {i}
    BY <1>2, <2>3, <2>4 DEF ToldRows
  <2>6. PostedRows' = PostedRows
    BY <1>2, <2>3, <2>4 DEF PostedRows
  <2>7. OldRows' = OldRows
    BY <1>2, <2>3, <2>4 DEF OldRows
  <2>8. CASE poster' = Waits
    <3>. DEFINE some == OldRows \cap InHand
    <3>1. LeftRows' = LeftRows \cup some
      BY <2>7, <2>8, WaitsInHand DEF LeftRows
    <3>2. some \in SUBSET (DOMAIN staffLog \ (PostedRows \cup LeftRows))
      BY DEF LeftRows, OldRows, PostedRows
    <3>. HIDE DEF some
    <3>3. NoticesAre(DOMAIN staffLog, ToldRows \cup {i}, PostedRows, LeftRows \cup some)
      BY <2>4, <2>5, <2>6, <3>1 DEF NoticesAre
    <3>4. Notices!Next
      BY <1>2, <3>2, <3>3, NoticesSay
    <3>. QED BY <3>4
  <2>9. CASE poster' = [poster EXCEPT !.at = "mark"]
    <3>1. poster'.batch = poster.batch
      BY <2>9 DEF Posting
    <3>2. LeftRows' = LeftRows \cup {}
      BY <2>7, <3>1 DEF LeftRows, InHand
    <3>. DEFINE some == {}
    <3>3. NoticesAre(DOMAIN staffLog, ToldRows \cup {i}, PostedRows, LeftRows \cup some)
      BY <2>4, <2>5, <2>6, <3>2 DEF NoticesAre
    <3>5. some \in SUBSET (DOMAIN staffLog \ (PostedRows \cup LeftRows))
      OBVIOUS
    <3>. HIDE DEF some
    <3>4. Notices!Next
      BY <1>2, <3>3, <3>5, NoticesSay
    <3>. QED BY <3>4
  <2>. QED BY <1>5, <2>8, <2>9
<1>. QED BY <1>4, <1>5 DEF PostRow

LEMMA MarkPostedNotices == ASSUME Posting, MarkPosted PROVE [Notices!Next]_(Notices!vars)
<1>. DEFINE i == Head(poster.batch)
            b == poster.batch
            row == [staffLog[i] EXCEPT !.posted = TRUE]
<1>1. poster.at = "mark"
  BY DEF MarkPosted
<1>2. /\ i \in DOMAIN staffLog /\ staffLog[i] \in LogRow /\ i \in InHand
      /\ i \in DOMAIN staffLog \ (PostedRows \cup LeftRows)
      /\ b \in Seq(DOMAIN staffLog) /\ b # <<>> /\ Distinct(b)
  BY <1>1, PosterAt, InHandWaits
<1>3. i \in ToldRows
  BY <1>1, <1>2 DEF Posting, InPosting, ToldRows
<1>4. CASE UNCHANGED staffLog /\ poster' = Waits
  BY <1>4, LetGo
<1>5. CASE /\ staffLog' = [staffLog EXCEPT ![i].posted = TRUE]
           /\ poster' = IF Len(b) = 1 THEN Waits ELSE [at |-> "post", batch |-> Tail(b)]
  <2>1. staffLog' = [staffLog EXCEPT ![i] = row]
    BY <1>5
  <2>2. InHand' = InHand \ {i}
    <3>1. CASE Len(b) = 1
      <4>1. DOMAIN b = {1} /\ i = b[1]
        BY <1>2, <3>1
      <4>2. InHand = {i}
        BY <4>1 DEF InHand
      <4>. QED BY <1>5, <3>1, <4>2, WaitsInHand
    <3>2. CASE Len(b) # 1
      <4>. DEFINE rest == Tail(b)
      <4>1. /\ i = b[1]
            /\ \A k \in DOMAIN rest : k + 1 \in DOMAIN b /\ rest[k] = b[k + 1] /\ rest[k] # i
        BY <1>2, <3>2, BatchGoesOn
      <4>2. \A k \in DOMAIN b : k # 1 => \E l \in DOMAIN rest : rest[l] = b[k]
        <5>. SUFFICES ASSUME NEW k \in DOMAIN b, k # 1 PROVE k - 1 \in DOMAIN rest /\ rest[k - 1] = b[k]
          OBVIOUS
        <5>. QED BY <1>2
      <4>3. poster' = [at |-> "post", batch |-> rest]
        BY <1>5, <3>2
      <4>. HIDE DEF rest
      <4>4. InHand' = {rest[k] : k \in DOMAIN rest}
        BY <4>3 DEF InHand
      <4>5. b[1] = i /\ InHand = {b[k] : k \in DOMAIN b}
        BY <4>1 DEF InHand
      <4>6. \A x \in InHand : x = i \/ \E l \in DOMAIN rest : rest[l] = x
        BY <4>2, <4>5
      <4>7. \A l \in DOMAIN rest : rest[l] \in InHand /\ rest[l] # i
        BY <4>1, <4>5
      <4>. QED BY <4>4, <4>6, <4>7
    <3>. QED BY <3>1, <3>2
  <2>. HIDE DEF i
  <2>3. row \in LogRow
    BY <1>2 DEF LogRow
  <2>4. row.posted /\ row.heard = staffLog[i].heard
    <3>1. DOMAIN staffLog[i] = {"posted", "old", "heard"}
      BY <1>2 DEF LogRow
    <3>. QED BY <3>1
  <2>. HIDE DEF row
  <2>5. /\ DOMAIN staffLog' = DOMAIN staffLog /\ staffLog'[i] = row
        /\ \A j \in DOMAIN staffLog : j # i => staffLog'[j] = staffLog[j]
    BY <1>2, <2>1, <2>3, RowChanges DEF Posting
  <2>6. ToldRows' = ToldRows
    BY <1>2, <2>4, <2>5 DEF ToldRows
  <2>7. PostedRows' = PostedRows \cup {i}
    BY <1>2, <2>4, <2>5 DEF PostedRows
  <2>8. OldRows' = OldRows \ {i}
    BY <1>2, <2>4, <2>5 DEF OldRows
  <2>9. LeftRows' = LeftRows
    BY <1>2, <2>2, <2>8 DEF LeftRows
  <2>10. NoticesAre(DOMAIN staffLog, ToldRows, PostedRows \cup {i}, LeftRows)
    BY <2>5, <2>6, <2>7, <2>9 DEF NoticesAre
  <2>11. Notices!Next
    BY <1>2, <1>3, <2>10, NoticesConfirm
  <2>. QED BY <2>11
<1>. QED BY <1>4, <1>5 DEF MarkPosted

LEMMA DayNotices ==
    ASSUME Posting, UNCHANGED poster,
           NEW i \in Pending, staffLog' = [staffLog EXCEPT ![i].old = TRUE]
    PROVE  [Notices!Next]_(Notices!vars)
<1>. DEFINE row == [staffLog[i] EXCEPT !.old = TRUE]
            some == {i} \ InHand
<1>1. i \in DOMAIN staffLog /\ ~staffLog[i].posted /\ ~staffLog[i].old /\ staffLog[i] \in LogRow
  BY DEF Pending, Posting
<1>2. row \in LogRow
  BY <1>1 DEF LogRow
<1>3. row.posted = staffLog[i].posted /\ row.old /\ row.heard = staffLog[i].heard
  <2>1. DOMAIN staffLog[i] = {"posted", "old", "heard"}
    BY <1>1 DEF LogRow
  <2>. QED BY <2>1
<1>4. staffLog' = [staffLog EXCEPT ![i] = row]
  OBVIOUS
<1>. HIDE DEF row
<1>5. /\ DOMAIN staffLog' = DOMAIN staffLog /\ staffLog'[i] = row
      /\ \A j \in DOMAIN staffLog : j # i => staffLog'[j] = staffLog[j]
  BY <1>1, <1>2, <1>4, RowChanges DEF Posting
<1>6. ToldRows' = ToldRows
  BY <1>1, <1>3, <1>5 DEF ToldRows
<1>7. PostedRows' = PostedRows
  BY <1>1, <1>3, <1>5 DEF PostedRows
<1>8. OldRows' = OldRows \cup {i}
  BY <1>1, <1>3, <1>5 DEF OldRows
<1>9. LeftRows' = LeftRows \cup some
  BY <1>8 DEF LeftRows, InHand
<1>10. some \in SUBSET (DOMAIN staffLog \ (PostedRows \cup LeftRows))
  BY <1>1 DEF LeftRows, OldRows, PostedRows
<1>. HIDE DEF some
<1>11. NoticesAre(DOMAIN staffLog, ToldRows, PostedRows, LeftRows \cup some)
  BY <1>5, <1>6, <1>7, <1>9 DEF NoticesAre
<1>. QED BY <1>10, <1>11, NoticesDrop

-----------------------------------------------------------------------------
(* The staff, the applications and the requests.                             *)

\* Nobody loses what they were hired to.
HiredStays == hired \subseteq hired' /\ \A p \in People : Hired(p) => Hired(p)'

LEMMA RanksStay ==
    ASSUME \A p \in People : staff'[p].rank = staff[p].rank, UNCHANGED hired
    PROVE  HiredStays
BY DEF HiredStays, Hired, Level

LEMMA AppsFrame == AppsOK /\ HiredStays /\ UNCHANGED apps => AppsOK'
<1>. SUFFICES ASSUME AppsOK, HiredStays, UNCHANGED apps PROVE AppsOK'
  OBVIOUS
<1>1. \A a \in DOMAIN apps : apps[a].player \in People
  <2>1. \A a \in DOMAIN apps : apps[a] \in AppRow
    BY DEF AppsOK
  <2>. QED BY <2>1 DEF AppRow
<1>. QED BY <1>1 DEF AppsOK, HiredStays, OneOpenApplication, AcceptedWereHired, Open

\* The requests do not see what the applications become.
PlayersStay == DOMAIN apps \subseteq DOMAIN apps'
  /\ \A a \in DOMAIN apps : apps'[a].player = apps[a].player

LEMMA RequestStands ==
    ASSUME AppsOK, HiredStays, PlayersStay, NEW r \in Requests, RequestOK(r)
    PROVE  RequestOK(r)'
<1>1. r.at = "apply" => r.who \in People
  BY DEF Requests, Idle
<1>. QED BY <1>1 DEF RequestOK, HiredStays, PlayersStay, AcceptHires, Accepts

LEMMA RequestsFrame ==
    ASSUME AppsOK, RequestsOK, HiredStays, PlayersStay, UNCHANGED request
    PROVE  RequestsOK'
<1>1. \A w \in Web : request[w] \in Requests /\ RequestOK(request[w])
  BY DEF RequestsOK
<1>2. \A r \in Requests : RequestOK(r) => RequestOK(r)'
  BY RequestStands
<1>3. \A w \in Web : RequestOK(request[w])'
  BY <1>1, <1>2 DEF RequestOK, Accepts, AcceptHires, Hired, Level
<1>. QED BY <1>1, <1>3 DEF RequestsOK

LEMMA RequestMoves ==
    ASSUME AppsOK, RequestsOK, HiredStays, PlayersStay,
           NEW w \in Web, NEW r \in Requests, request' = [request EXCEPT ![w] = r],
           RequestOK(r)'
    PROVE  RequestsOK'
<1>1. \A v \in Web : request[v] \in Requests /\ RequestOK(request[v])
  BY DEF RequestsOK
<1>2. \A q \in Requests : RequestOK(q) => RequestOK(q)'
  BY RequestStands
<1>3. request' \in [Web -> Requests] /\ \A v \in Web : request'[v] = IF v = w THEN r ELSE request[v]
  BY DEF RequestsOK
<1>4. \A v \in Web : RequestOK(request[v])'
  BY <1>1, <1>2, <1>3 DEF RequestOK, Accepts, AcceptHires, Hired, Level
<1>. QED BY <1>3, <1>4 DEF RequestsOK

LEMMA IdleOK == Idle \in Requests /\ RequestOK(Idle)'
BY DEF Idle, Requests, RequestOK, Accepts

LEMMA RequestEnds ==
    ASSUME AppsOK, RequestsOK, HiredStays, PlayersStay,
           NEW w \in Web, request' = [request EXCEPT ![w] = Idle]
    PROVE  RequestsOK'
BY RequestMoves, IdleOK

LEMMA NoneChanges == UNCHANGED <<staff, hired, apps>> => HiredStays /\ PlayersStay
BY DEF HiredStays, PlayersStay, Hired, Level

\* An application changes, and not to be open again; if it is accepted its applicant was hired.
LEMMA ApplicationChanges ==
    ASSUME AppsOK, NEW a \in DOMAIN apps, NEW row \in AppRow, row.player = apps[a].player,
           row.status \in {"pending", "interview"} => Open(a),
           DecidersHaveRanks /\ row.status = "accepted" => row.player \in hired,
           apps' = [apps EXCEPT ![a] = row], UNCHANGED <<staff, hired>>
    PROVE  AppsOK' /\ PlayersStay
<1>1. /\ apps' \in Seq(AppRow) /\ DOMAIN apps' = DOMAIN apps /\ apps'[a] = row
      /\ \A b \in DOMAIN apps : b # a => apps'[b] = apps[b]
  BY RowChanges DEF AppsOK
<1>2. Len(apps') = Len(apps)
  OBVIOUS
<1>3. PlayersStay
  BY <1>1 DEF PlayersStay
<1>4. \A b \in DOMAIN apps : Hired(apps[b].player)'
  BY <1>1, <1>3 DEF AppsOK, Hired, Level, PlayersStay
<1>5. \A b \in DOMAIN apps : Open(b)' => Open(b)
  BY <1>1 DEF Open
<1>6. OneOpenApplication'
  BY <1>1, <1>3, <1>5 DEF AppsOK, OneOpenApplication, PlayersStay
<1>7. DecidersHaveRanks => AcceptedWereHired'
  BY <1>1 DEF AppsOK, AcceptedWereHired
<1>. QED BY <1>1, <1>2, <1>3, <1>4, <1>6, <1>7 DEF AppsOK

-----------------------------------------------------------------------------
(* Each operation keeps applications, members and requests in order.         *)

Kept == StaffOK' /\ AppsOK' /\ RequestsOK' /\ PapersOK'

Ordered == StaffOK /\ AppsOK /\ RequestsOK /\ PapersOK

\* Nothing but the request of w changes.
LEMMA RequestOnly ==
    ASSUME Ordered, UNCHANGED <<office, offered>>,
           NEW w \in Web, NEW r \in Requests, request' = [request EXCEPT ![w] = r],
           RequestOK(r)
    PROVE  Kept
<1>1. HiredStays /\ PlayersStay
  BY NoneChanges DEF office
<1>2. RequestOK(r)'
  BY <1>1, RequestStands DEF Ordered
<1>3. RequestsOK'
  BY <1>1, <1>2, RequestMoves DEF Ordered
<1>4. AppsOK'
  BY <1>1, AppsFrame DEF Ordered, office
<1>5. StaffOK'
  BY DEF Ordered, StaffOK, office
<1>6. PapersOK'
  BY DEF Ordered, PapersOK, office
<1>. QED BY <1>3, <1>4, <1>5, <1>6 DEF Kept

LEMMA ApplyKeeps == ASSUME Ordered, NEW w \in Web, StaffApplySubmit(w) PROVE Kept
<1>1. PICK p \in People :
        /\ StaffEligibility(p) /\ request' = [request EXCEPT ![w] = [at |-> "apply", who |-> p]]
  BY DEF StaffApplySubmit
<1>. DEFINE r == [at |-> "apply", who |-> p]
<1>2. r \in Requests
  BY DEF Requests
<1>3. RequestOK(r)
  BY <1>1 DEF RequestOK, Accepts, Hired, StaffEligibility
<1>. QED BY <1>1, <1>2, <1>3, RequestOnly DEF StaffApplySubmit

\* A change of rank is a request.
LEMMA PlacingIs ==
    ASSUME NEW by \in People, NEW p \in People, NEW rank \in 0..TopRank,
           NEW team \in Teams \cup {None}, NEW a \in (1..MaxApps) \cup {None},
           NEW at \in {"rank", "team", "accept"}
    PROVE  [Placing(by, p, rank, team, a) EXCEPT !.at = at] \in Requests
BY DEF Placing, Requests

LEMMA NumbersAre == TopRank \in Nat /\ HeadAdminLevel \in Nat /\ MaxApps \in Nat /\ MaxNotes \in Nat
BY CareersAssumption

\* An application's number is one of those there may be.
LEMMA NumberOfApp == AppsOK => DOMAIN apps \subseteq 1..MaxApps
<1>. SUFFICES ASSUME AppsOK PROVE DOMAIN apps \subseteq 1..MaxApps
  OBVIOUS
<1>1. DOMAIN apps = 1..Len(apps) /\ Len(apps) \in Nat /\ Len(apps) <= MaxApps
  BY DEF AppsOK
<1>. QED BY <1>1, NumbersAre

\* Whoever decides is offered a rank, if their permissions leave one.
LEMMA EntryRanksAre ==
    ASSUME StaffOK, NEW x \in People, ApplicationAction(x)
    PROVE  /\ EntryRanks(x) \subseteq 0..TopRank
           /\ DecidersHaveRanks => EntryRanks(x) \subseteq 1..TopRank
<1>. DEFINE below == {rank \in 1..TopRank : rank < Level(x) \/ Level(x) >= HeadAdminLevel}
<1>1. Level(x) \in 0..TopRank /\ Level(x) > 0
      /\ {"applications.view", "applications.decide"} \subseteq Grants[Level(x)]
  BY DEF ApplicationAction, Can, Level, StaffOK, StaffRow
<1>2. DecidersHaveRanks => Level(x) > 1 \/ Level(x) >= HeadAdminLevel
  BY <1>1, NumbersAre DEF DecidersHaveRanks
<1>3. DecidersHaveRanks => 1 \in below
  BY <1>1, <1>2, NumbersAre
<1>4. EntryRanks(x) = {0} \/ EntryRanks(x) = below
  BY DEF EntryRanks
<1>5. EntryRanks(x) \subseteq 0..TopRank
  BY <1>4, NumbersAre
<1>. QED BY <1>3, <1>5 DEF EntryRanks

LEMMA AcceptKeeps ==
    ASSUME Ordered, NEW w \in Web, NEW x \in People, AcceptStaff(w, x)
    PROVE  Kept
<1>1. PICK a \in DOMAIN apps, rank \in EntryRanks(x), team \in Teams \cup {None} :
        request' = [request EXCEPT ![w] = Placing(x, apps[a].player, rank, team, a)]
  BY DEF AcceptStaff
<1>. DEFINE r == Placing(x, apps[a].player, rank, team, a)
<1>2. apps[a] \in AppRow
  BY DEF Ordered, AppsOK
<1>3. apps[a].player \in People /\ a \in 1..MaxApps
  BY <1>2, NumberOfApp DEF AppRow, Ordered
<1>4. rank \in 0..TopRank /\ (DecidersHaveRanks => rank \in 1..TopRank)
  BY EntryRanksAre DEF AcceptStaff, Ordered
<1>5. rank \in 0..TopRank /\ (DecidersHaveRanks => rank > 0)
  BY <1>4, NumbersAre
<1>6. r \in Requests
  BY <1>3, <1>5 DEF Placing, Requests
<1>7. RequestOK(r)
  BY <1>5 DEF RequestOK, AcceptHires, Placing
<1>. HIDE DEF r
<1>8. request' = [request EXCEPT ![w] = r]
  BY <1>1 DEF r
<1>. QED BY <1>6, <1>7, <1>8, RequestOnly DEF AcceptStaff

\* A change of rank that accepts nothing.
LEMMA PlacingKeeps ==
    ASSUME Ordered, UNCHANGED <<office, offered>>, NEW w \in Web,
           NEW x \in People, NEW p \in People, NEW rank \in 0..TopRank,
           NEW team \in Teams \cup {None}, NEW at \in {"rank", "team"},
           request' = [request EXCEPT ![w] = [Placing(x, p, rank, team, None) EXCEPT !.at = at]]
    PROVE  Kept
<1>. DEFINE r == [Placing(x, p, rank, team, None) EXCEPT !.at = at]
<1>1. r \in Requests
  BY PlacingIs
<1>2. RequestOK(r)
  BY DEF RequestOK, Accepts, Placing
<1>. HIDE DEF r
<1>3. request' = [request EXCEPT ![w] = r]
  BY DEF r
<1>. QED BY <1>1, <1>2, <1>3, RequestOnly

LEMMA SetRankAsked == ASSUME Ordered, NEW w \in Web, NEW x \in People, StaffSetRank(w, x) PROVE Kept
<1>1. PICK p \in People,
        rank \in Ranks : request' = [request EXCEPT ![w] = Placing(x, p, rank, None, None)]
  BY DEF StaffSetRank
<1>2. rank \in 0..TopRank
  BY NumbersAre DEF Ranks
<1>3. [Placing(x, p, rank, None, None) EXCEPT !.at = "rank"] = Placing(x, p, rank, None, None)
  BY DEF Placing
<1>. DEFINE at == "rank"
            team == None
<1>4. request' = [request EXCEPT ![w] = [Placing(x, p, rank, team, None) EXCEPT !.at = at]]
  BY <1>1, <1>3
<1>5. at \in {"rank", "team"} /\ team \in Teams \cup {None} /\ UNCHANGED <<office, offered>>
  BY DEF StaffSetRank
<1>. HIDE DEF at, team
<1>. QED BY <1>2, <1>4, <1>5, PlacingKeeps

LEMMA AddAsked == ASSUME Ordered, NEW w \in Web, NEW x \in People, StaffAdd(w, x) PROVE Kept
<1>1. PICK p \in People,
        rank \in 1..TopRank : request' = [request EXCEPT ![w] = Placing(x, p, rank, None, None)]
  BY DEF StaffAdd
<1>2. rank \in 0..TopRank
  BY NumbersAre
<1>3. [Placing(x, p, rank, None, None) EXCEPT !.at = "rank"] = Placing(x, p, rank, None, None)
  BY DEF Placing
<1>. DEFINE at == "rank"
            team == None
<1>4. request' = [request EXCEPT ![w] = [Placing(x, p, rank, team, None) EXCEPT !.at = at]]
  BY <1>1, <1>3
<1>5. at \in {"rank", "team"} /\ team \in Teams \cup {None} /\ UNCHANGED <<office, offered>>
  BY DEF StaffAdd
<1>. HIDE DEF at, team
<1>. QED BY <1>2, <1>4, <1>5, PlacingKeeps

LEMMA PlacementAsked ==
    ASSUME Ordered, NEW w \in Web, NEW x \in People, StaffSetPlacement(w, x) PROVE Kept
<1>1. PICK p \in People, team \in Teams :
        \E rank \in (Ranks \cup {Level(p)}) \ {0} :
             request' = [request EXCEPT ![w] =
                 [Placing(x, p, rank, team, None) EXCEPT !.at = IF rank = Level(p) THEN "team" ELSE @]]
  BY DEF StaffSetPlacement
<1>2. PICK rank \in (Ranks \cup {Level(p)}) \ {0} :
             request' = [request EXCEPT ![w] =
                 [Placing(x, p, rank, team, None) EXCEPT !.at = IF rank = Level(p) THEN "team" ELSE @]]
  BY <1>1
<1>. DEFINE at == IF rank = Level(p) THEN "team" ELSE "rank"
<1>3. rank \in 0..TopRank
  BY NumbersAre DEF Ranks, Level, Ordered, StaffOK, StaffRow
<1>4. [Placing(x, p, rank, team, None) EXCEPT !.at = IF rank = Level(p) THEN "team" ELSE @]
        = [Placing(x, p, rank, team, None) EXCEPT !.at = at]
  BY DEF Placing
<1>5. at \in {"rank", "team"}
  OBVIOUS
<1>. HIDE DEF at
<1>6. request' = [request EXCEPT ![w] = [Placing(x, p, rank, team, None) EXCEPT !.at = at]]
  BY <1>2, <1>4
<1>7. team \in Teams \cup {None} /\ UNCHANGED <<office, offered>>
  BY DEF StaffSetPlacement
<1>. QED BY <1>3, <1>5, <1>6, <1>7, PlacingKeeps

LEMMA StatusAsked ==
    ASSUME Ordered, NEW w \in Web, NEW x \in People, StaffSetStatus(w, x) PROVE Kept
<1>1. PICK p \in People, status \in {"active", "loa", "suspended"}, ends \in {"never", "later"} :
        request' = [request EXCEPT ![w] =
                [at |-> "status", by |-> x, who |-> p, status |-> status,
                 ends |-> IF status = "active" THEN "never" ELSE ends]]
  BY DEF StaffSetStatus
<1>. DEFINE r == [at |-> "status", by |-> x, who |-> p, status |-> status,
                  ends |-> IF status = "active" THEN "never" ELSE ends]
<1>2. r \in Requests
  BY DEF Requests
<1>3. RequestOK(r)
  BY DEF RequestOK, Accepts
<1>. HIDE DEF r
<1>4. request' = [request EXCEPT ![w] = r]
  BY <1>1 DEF r
<1>. QED BY <1>2, <1>3, <1>4, RequestOnly DEF StaffSetStatus

LEMMA GiveUpKeeps == ASSUME Ordered, NEW w \in Web, GiveUp(w) PROVE Kept
<1>1. HiredStays /\ PlayersStay
  BY NoneChanges DEF GiveUp, office
<1>2. RequestsOK'
  BY <1>1, RequestEnds DEF GiveUp, Ordered
<1>3. AppsOK'
  BY <1>1, AppsFrame DEF Ordered, office, GiveUp
<1>4. StaffOK'
  BY DEF Ordered, StaffOK, office, GiveUp
<1>5. PapersOK'
  BY DEF Ordered, PapersOK, office, GiveUp
<1>. QED BY <1>2, <1>3, <1>4, <1>5 DEF Kept

LEMMA SubmitKeeps == ASSUME Ordered, NEW w \in Web, SubmitStaff(w) PROVE Kept
<1>. PICK p : p = request[w].who
  OBVIOUS
<1>. DEFINE row == [player |-> p, status |-> "pending", cooling |-> FALSE]
<1>1. request[w].at = "apply" /\ request[w] \in Requests /\ Hired(p)
  BY DEF SubmitStaff, Ordered, RequestsOK, RequestOK
<1>2. p \in People
  BY <1>1 DEF Requests, Idle
<1>3. HiredStays
  BY DEF SubmitStaff, HiredStays, Hired, Level
<1>4. AppsOK' /\ PlayersStay
  <2>1. CASE UNCHANGED apps
    BY <2>1, <1>3, AppsFrame DEF Ordered, PlayersStay
  <2>2. CASE /\ \A a \in DOMAIN apps : ~(apps[a].player = p /\ Open(a))
             /\ apps' = Append(apps, row)
    <3>. DEFINE new == Len(apps) + 1
    <3>1. row \in AppRow
      BY <1>2 DEF AppRow
    <3>2. row.player = p /\ row.status = "pending"
      OBVIOUS
    <3>. HIDE DEF row
    <3>3. apps \in Seq(AppRow)
      BY DEF Ordered, AppsOK
    <3>4. Len(apps') = new /\ new <= MaxApps
      BY <2>2, <3>1, <3>3, NumbersAre DEF SubmitStaff
    <3>5. /\ apps' \in Seq(AppRow) /\ DOMAIN apps' = DOMAIN apps \cup {new}
          /\ new \notin DOMAIN apps /\ apps'[new] = row
          /\ \A b \in DOMAIN apps : apps'[b] = apps[b]
      BY <2>2, <3>1, <3>3, RowAdded
    <3>. HIDE DEF new
    <3>6. \A b \in DOMAIN apps' : Hired(apps[b].player)'
      <4>1. Hired(p)'
        BY <1>1 DEF SubmitStaff, Hired, Level
      <4>2. \A b \in DOMAIN apps : Hired(apps[b].player)'
        BY <3>5 DEF SubmitStaff, Ordered, AppsOK, Hired, Level
      <4>. QED BY <3>2, <3>5, <4>1, <4>2
    <3>7. OneOpenApplication'
      BY <2>2, <3>2, <3>5 DEF Ordered, AppsOK, OneOpenApplication, Open
    <3>8. DecidersHaveRanks => AcceptedWereHired'
      BY <3>2, <3>5 DEF SubmitStaff, Ordered, AppsOK, AcceptedWereHired
    <3>. QED BY <3>4, <3>5, <3>6, <3>7, <3>8 DEF AppsOK, PlayersStay
  <2>. QED BY <2>1, <2>2 DEF SubmitStaff
<1>5. RequestsOK'
  BY <1>3, <1>4, RequestEnds DEF SubmitStaff, Ordered
<1>6. StaffOK'
  BY DEF Ordered, StaffOK, SubmitStaff
<1>7. PapersOK'
  BY DEF Ordered, PapersOK, SubmitStaff
<1>. QED BY <1>4, <1>5, <1>6, <1>7 DEF Kept

\* An application changes under the hands of a reviewer, its applicant or time.
LEMMA ApplicationOnly ==
    ASSUME Ordered, NEW a \in DOMAIN apps, NEW row \in AppRow, row.player = apps[a].player,
           row.status \in {"pending", "interview"} => Open(a),
           DecidersHaveRanks /\ row.status = "accepted" => row.player \in hired,
           apps' = [apps EXCEPT ![a] = row],
           UNCHANGED <<staff, hired, notes, request, offered>>,
           interviews' \in [1..MaxApps -> {"none", "open", "pass", "fail"}]
    PROVE  Kept
<1>1. AppsOK' /\ PlayersStay
  BY ApplicationChanges DEF Ordered
<1>2. HiredStays
  BY DEF HiredStays, Hired, Level
<1>3. RequestsOK'
  BY <1>1, <1>2, RequestsFrame DEF Ordered
<1>4. StaffOK'
  BY DEF Ordered, StaffOK
<1>5. PapersOK'
  BY DEF Ordered, PapersOK
<1>. QED BY <1>1, <1>3, <1>4, <1>5 DEF Kept

LEMMA AppTyped ==
    ASSUME Ordered, NEW a \in DOMAIN apps
    PROVE  /\ apps[a] \in AppRow /\ apps[a].cooling \in BOOLEAN
           /\ apps[a].status \in {"pending", "interview", "accepted", "rejected", "withdrawn"}
<1>1. apps[a] \in AppRow
  BY DEF Ordered, AppsOK
<1>. QED BY <1>1 DEF AppRow

LEMMA WithdrawKeeps == ASSUME Ordered, StaffApplyWithdraw PROVE Kept
<1>1. PICK a \in DOMAIN apps : Open(a) /\ apps' = [apps EXCEPT ![a].status = "withdrawn"]
  BY DEF StaffApplyWithdraw, WithdrawStaff
<1>. DEFINE row == [apps[a] EXCEPT !.status = "withdrawn", !.cooling = apps[a].cooling]
<1>2. row \in AppRow /\ row.player = apps[a].player /\ row.status = "withdrawn"
      /\ [apps[a] EXCEPT !.status = "withdrawn"] = row
  BY AppTyped DEF AppRow
<1>3. apps' = [apps EXCEPT ![a] = row]
  BY <1>1, <1>2
<1>. HIDE DEF row
<1>. QED BY <1>2, <1>3, ApplicationOnly DEF StaffApplyWithdraw, Ordered, PapersOK

LEMMA InterviewKeeps ==
    ASSUME Ordered, NEW x \in People, NEW a \in DOMAIN apps, ToInterview(x, a) PROVE Kept
<1>. DEFINE row == [apps[a] EXCEPT !.status = "interview", !.cooling = apps[a].cooling]
<1>1. row \in AppRow /\ row.player = apps[a].player /\ row.status = "interview"
      /\ [apps[a] EXCEPT !.status = "interview"] = row
  BY AppTyped DEF AppRow
<1>2. apps' = [apps EXCEPT ![a] = row] /\ Open(a)
  BY <1>1 DEF ToInterview, LockOpenStaff
<1>3. interviews' \in [1..MaxApps -> {"none", "open", "pass", "fail"}]
  BY DEF ToInterview, Ordered, PapersOK
<1>. HIDE DEF row
<1>. QED BY <1>1, <1>2, <1>3, ApplicationOnly DEF ToInterview

LEMMA RejectKeeps ==
    ASSUME Ordered, NEW x \in People, NEW a \in DOMAIN apps, RejectStaff(x, a) PROVE Kept
<1>. DEFINE row == [apps[a] EXCEPT !.status = "rejected", !.cooling = TRUE]
<1>1. row \in AppRow /\ row.player = apps[a].player /\ row.status = "rejected"
  BY AppTyped DEF AppRow
<1>2. apps' = [apps EXCEPT ![a] = row]
  BY DEF RejectStaff
<1>. HIDE DEF row
<1>. QED BY <1>1, <1>2, ApplicationOnly DEF RejectStaff, Ordered, PapersOK

LEMMA CooldownKeeps == ASSUME Ordered, CooldownOver PROVE Kept
<1>1. PICK a \in DOMAIN apps : apps' = [apps EXCEPT ![a].cooling = FALSE]
  BY DEF CooldownOver
<1>. DEFINE row == [apps[a] EXCEPT !.status = apps[a].status, !.cooling = FALSE]
<1>2. apps[a].status \in {"pending", "interview", "accepted", "rejected", "withdrawn"}
  BY AppTyped
<1>3. row \in AppRow /\ row.player = apps[a].player /\ row.status = apps[a].status
      /\ [apps[a] EXCEPT !.cooling = FALSE] = row
  BY <1>2, AppTyped DEF AppRow
<1>4. apps' = [apps EXCEPT ![a] = row]
  BY <1>1, <1>3
<1>. HIDE DEF row
<1>5. DecidersHaveRanks /\ row.status = "accepted" => row.player \in hired
  BY <1>3 DEF Ordered, AppsOK, AcceptedWereHired
<1>. QED BY <1>3, <1>4, <1>5, ApplicationOnly DEF CooldownOver, Ordered, PapersOK, Open

LEMMA AcceptedKeeps == ASSUME Ordered, NEW w \in Web, Accepted(w) PROVE Kept
<1>. DEFINE a == request[w].app
            row == [apps[a] EXCEPT !.status = "accepted", !.cooling = FALSE]
<1>1. request[w] \in Requests /\ RequestOK(request[w]) /\ request[w].at = "accept"
  BY DEF Accepted, Ordered, RequestsOK
<1>2. CASE a # None
  <2>1. a \in DOMAIN apps /\ (DecidersHaveRanks => apps[a].player \in hired)
    BY <1>1, <1>2 DEF RequestOK, Accepts, AcceptHires
  <2>. HIDE DEF a
  <2>2. row \in AppRow /\ row.player = apps[a].player /\ row.status = "accepted"
    BY <2>1, AppTyped DEF AppRow
  <2>3. apps' = [apps EXCEPT ![a] = row]
    BY DEF Accepted, a
  <2>. HIDE DEF row
  <2>4. AppsOK' /\ PlayersStay
    BY <2>1, <2>2, <2>3, ApplicationChanges DEF Accepted, Ordered
  <2>5. HiredStays
    BY DEF Accepted, HiredStays, Hired, Level
  <2>6. RequestsOK'
    BY <2>4, <2>5, RequestEnds DEF Accepted, Ordered
  <2>7. StaffOK'
    BY DEF Ordered, StaffOK, Accepted
  <2>8. PapersOK'
    BY DEF Ordered, PapersOK, Accepted
  <2>. QED BY <2>4, <2>6, <2>7, <2>8 DEF Kept
<1>. QED BY <1>1, <1>2 DEF RequestOK

\* A change of rank, team or status is by one person of another.
LEMMA PlacingTyped ==
    ASSUME NEW r \in Requests, r.at \in {"rank", "team", "accept"}
    PROVE  /\ r.by \in People /\ r.who \in People /\ r.rank \in 0..TopRank
           /\ r.team \in Teams \cup {None} /\ r.app \in (1..MaxApps) \cup {None}
           /\ \A at \in {"team", "accept"} :
                 /\ [r EXCEPT !.at = at] \in Requests /\ [r EXCEPT !.at = at].at = at
                 /\ [r EXCEPT !.at = at].who = r.who /\ [r EXCEPT !.at = at].rank = r.rank
                 /\ [r EXCEPT !.at = at].app = r.app
<1>1. r \in [at : {"rank", "team", "accept"}, by : People, who : People, rank : 0..TopRank,
             team : Teams \cup {None}, app : (1..MaxApps) \cup {None}]
  BY DEF Requests, Idle
<1>2. /\ r.by \in People /\ r.who \in People /\ r.rank \in 0..TopRank
      /\ r.team \in Teams \cup {None} /\ r.app \in (1..MaxApps) \cup {None}
  BY <1>1
<1>3. ASSUME NEW at \in {"team", "accept"}
      PROVE  /\ [r EXCEPT !.at = at] \in Requests /\ [r EXCEPT !.at = at].at = at
             /\ [r EXCEPT !.at = at].who = r.who /\ [r EXCEPT !.at = at].rank = r.rank
             /\ [r EXCEPT !.at = at].app = r.app
  BY <1>1 DEF Requests
<1>. QED BY <1>2, <1>3

LEMMA StatusTyped ==
    ASSUME NEW r \in Requests, r.at = "status"
    PROVE  /\ r.by \in People /\ r.who \in People
           /\ r.status \in {"active", "loa", "suspended"} /\ r.ends \in {"never", "later"}
<1>1. r \in [at : {"status"}, by : People, who : People, status : {"active", "loa", "suspended"},
             ends : {"never", "later"}]
  BY DEF Requests, Idle
<1>. QED BY <1>1

\* The rank of a member changes: they stay hired.
LEMMA SetRankStaff ==
    ASSUME StaffOK, NEW p \in People, NEW rank \in 0..TopRank,
           staff' = [staff EXCEPT ![p] = Placed(p, rank)],
           hired' = IF Level(p) = 0 /\ rank > 0 THEN hired \cup {p} ELSE hired
    PROVE  StaffOK' /\ HiredStays /\ staff'[p].rank = rank
<1>1. staff[p] \in StaffRow /\ Level(p) \in Nat /\ 0 \in 0..TopRank /\ rank \in Nat
  BY NumbersAre DEF StaffOK, StaffRow, Level
<1>2. Placed(p, rank) \in StaffRow /\ Placed(p, rank).rank = rank
      /\ (rank = 0 => Placed(p, rank) = Outsider)
  <2>1. CASE rank = 0
    BY <1>1, <2>1 DEF Placed, Outsider, StaffRow
  <2>2. CASE rank # 0
    BY <1>1, <2>2 DEF Placed, StaffRow
  <2>. QED BY <2>1, <2>2
<1>. DEFINE row == Placed(p, rank)
<1>. HIDE DEF row
<1>3. staff' = [staff EXCEPT ![p] = row]
  BY DEF row
<1>4. staff' \in [People -> StaffRow] /\ staff'[p] = row
      /\ \A q \in People : q # p => staff'[q] = staff[q]
  BY <1>2, <1>3 DEF StaffOK, row
<1>5. StaffOK'
  BY <1>2, <1>4 DEF StaffOK, Outsider, row
<1>6. HiredStays
  <2>1. hired \subseteq hired'
    OBVIOUS
  <2>2. Hired(p) => Hired(p)'
    BY <1>1, <1>2, <1>4 DEF Hired, Level, row
  <2>3. \A q \in People : q # p /\ Hired(q) => Hired(q)'
    BY <1>4, <2>1 DEF Hired, Level
  <2>. QED BY <2>1, <2>2, <2>3 DEF HiredStays
<1>. QED BY <1>2, <1>4, <1>5, <1>6 DEF row

\* A request that changed a rank or a team goes on to the next of its steps.
LEMMA ContinueKeeps ==
    ASSUME Ordered, HiredStays, UNCHANGED apps, NEW w \in Web, NEW r, r = request[w],
           r.at \in {"rank", "team"}, DecidersHaveRanks /\ r.app # None => r.who \in hired',
           NEW at \in {"idle", "team", "accept"}, at = "accept" => r.app # None,
           Continue(w, at)
    PROVE  RequestsOK'
<1>1. PlayersStay
  BY DEF PlayersStay
<1>2. CASE at = "idle"
  <2>1. request' = [request EXCEPT ![w] = Idle]
    BY <1>2 DEF Continue
  <2>. QED BY <1>1, <2>1, RequestEnds DEF Ordered
<1>3. CASE at # "idle"
  <2>. DEFINE next == [r EXCEPT !.at = at]
  <2>1. r \in Requests /\ RequestOK(r)
    BY DEF Ordered, RequestsOK
  <2>2. /\ next \in Requests /\ next.at = at /\ next.who = r.who
        /\ next.rank = r.rank /\ next.app = r.app
    BY <1>3, <2>1, PlacingTyped
  <2>3. request' = [request EXCEPT ![w] = next]
    BY <1>3 DEF Continue
  <2>. HIDE DEF next
  <2>4. RequestOK(next)'
    <3>1. Accepts(r) <=> r.app # None
      BY DEF Accepts
    <3>. QED BY <1>3, <2>1, <2>2, <3>1 DEF RequestOK, Accepts, AcceptHires
  <2>. QED BY <1>1, <2>2, <2>3, <2>4, RequestMoves DEF Ordered
<1>. QED BY <1>2, <1>3

LEMMA SetRankKeeps == ASSUME Ordered, NEW w \in Web, SetRank(w) PROVE Kept
<1>. PICK r : r = request[w]
  OBVIOUS
<1>1. r \in Requests /\ RequestOK(r) /\ r.at = "rank"
  BY DEF SetRank, Ordered, RequestsOK
<1>2. /\ r.by \in People /\ r.who \in People /\ r.rank \in 0..TopRank
      /\ r.team \in Teams \cup {None} /\ r.app \in (1..MaxApps) \cup {None}
  BY <1>1, PlacingTyped
<1>3. PapersOK'
  BY DEF SetRank, Ordered, PapersOK
<1>4. CASE Continue(w, "idle") /\ UNCHANGED <<staff, hired>>
  <2>1. HiredStays
    BY <1>4 DEF HiredStays, Hired, Level
  <2>2. request' = [request EXCEPT ![w] = Idle]
    BY <1>4 DEF Continue
  <2>3. PlayersStay
    BY DEF PlayersStay, SetRank
  <2>4. RequestsOK'
    BY <2>1, <2>2, <2>3, RequestEnds DEF Ordered
  <2>5. AppsOK' /\ StaffOK'
    BY <1>4, <2>1, AppsFrame DEF Ordered, StaffOK, SetRank
  <2>. QED BY <1>3, <2>4, <2>5 DEF Kept
<1>5. CASE /\ staff' = [staff EXCEPT ![r.who] = Placed(r.who, r.rank)]
           /\ hired' = IF Level(r.who) = 0 /\ r.rank > 0 THEN hired \cup {r.who} ELSE hired
           /\ Continue(w, AfterRank(r))
  <2>1. StaffOK' /\ HiredStays
    BY <1>2, <1>5, SetRankStaff DEF Ordered
  <2>2. AppsOK'
    BY <2>1, AppsFrame DEF Ordered, SetRank
  <2>3. ASSUME DecidersHaveRanks, r.app # None PROVE r.who \in hired'
    <3>1. r.app \in DOMAIN apps /\ r.who = apps[r.app].player /\ r.rank > 0
      BY <1>1, <2>3 DEF RequestOK, Accepts, AcceptHires
    <3>2. Hired(r.who)
      BY <3>1 DEF Ordered, AppsOK
    <3>3. Level(r.who) \in Nat
      BY <1>2, NumbersAre DEF Level, Ordered, StaffOK, StaffRow
    <3>. QED BY <1>5, <3>1, <3>2, <3>3 DEF Hired
  <2>4. AfterRank(r) \in {"idle", "team", "accept"} /\ (AfterRank(r) = "accept" => r.app # None)
    BY DEF AfterRank, AfterTeam
  <2>5. UNCHANGED apps
    BY DEF SetRank
  <2>6. RequestsOK'
    <3>. DEFINE at == AfterRank(r)
    <3>1. Continue(w, at)
      BY <1>5
    <3>. HIDE DEF at
    <3>. QED BY <1>1, <2>1, <2>3, <2>4, <2>5, <3>1, ContinueKeeps DEF at
  <2>. QED BY <1>3, <2>1, <2>2, <2>6 DEF Kept
<1>. QED BY <1>4, <1>5 DEF SetRank

\* A member's row changes, and not their rank.
LEMMA MemberChanges ==
    ASSUME StaffOK, NEW p \in People, NEW row \in StaffRow, row.rank = Level(p),
           Level(p) = 0 => row = Outsider,
           staff' = [staff EXCEPT ![p] = row], UNCHANGED hired
    PROVE  StaffOK' /\ HiredStays
<1>1. staff' \in [People -> StaffRow] /\ staff'[p] = row
      /\ \A q \in People : q # p => staff'[q] = staff[q]
  BY DEF StaffOK
<1>2. StaffOK'
  BY <1>1 DEF StaffOK, Level, Outsider
<1>3. \A q \in People : staff'[q].rank = staff[q].rank
  BY <1>1 DEF Level
<1>. QED BY <1>2, <1>3, RanksStay

LEMMA SetTeamKeeps == ASSUME Ordered, NEW w \in Web, SetTeam(w) PROVE Kept
<1>. PICK r : r = request[w]
  OBVIOUS
<1>1. r \in Requests /\ RequestOK(r) /\ r.at = "team"
  BY DEF SetTeam, Ordered, RequestsOK
<1>2. /\ r.by \in People /\ r.who \in People /\ r.team \in Teams \cup {None}
  BY <1>1, PlacingTyped
<1>3. PapersOK'
  BY DEF SetTeam, Ordered, PapersOK
<1>4. CASE Continue(w, "idle") /\ UNCHANGED staff
  <2>1. HiredStays
    BY <1>4 DEF HiredStays, Hired, Level, SetTeam
  <2>2. request' = [request EXCEPT ![w] = Idle]
    BY <1>4 DEF Continue
  <2>3. PlayersStay
    BY DEF PlayersStay, SetTeam
  <2>4. RequestsOK'
    BY <2>1, <2>2, <2>3, RequestEnds DEF Ordered
  <2>5. AppsOK' /\ StaffOK'
    BY <1>4, <2>1, AppsFrame DEF Ordered, StaffOK, SetTeam
  <2>. QED BY <1>3, <2>4, <2>5 DEF Kept
<1>5. CASE /\ Level(r.who) > 0 /\ staff' = [staff EXCEPT ![r.who].team = r.team]
           /\ Continue(w, AfterTeam(r))
  <2>. DEFINE row == [staff[r.who] EXCEPT !.team = r.team]
  <2>1. staff[r.who] \in StaffRow
    BY <1>2 DEF Ordered, StaffOK
  <2>2. row \in StaffRow /\ row.rank = Level(r.who) /\ Level(r.who) # 0
    BY <1>2, <1>5, <2>1 DEF StaffRow, Level
  <2>3. staff' = [staff EXCEPT ![r.who] = row] /\ UNCHANGED hired
    BY <1>5 DEF SetTeam
  <2>. HIDE DEF row
  <2>4. StaffOK' /\ HiredStays
    BY <1>2, <2>2, <2>3, MemberChanges DEF Ordered
  <2>5. AppsOK'
    BY <2>4, AppsFrame DEF Ordered, SetTeam
  <2>6. DecidersHaveRanks /\ r.app # None => r.who \in hired'
    BY <1>1, <2>3 DEF RequestOK, Accepts, AcceptHires
  <2>7. AfterTeam(r) \in {"idle", "team", "accept"} /\ (AfterTeam(r) = "accept" => r.app # None)
    BY DEF AfterTeam
  <2>8. UNCHANGED apps
    BY DEF SetTeam
  <2>9. RequestsOK'
    <3>. DEFINE at == AfterTeam(r)
    <3>1. Continue(w, at)
      BY <1>5
    <3>. HIDE DEF at
    <3>. QED BY <1>1, <2>4, <2>6, <2>7, <2>8, <3>1, ContinueKeeps DEF at
  <2>. QED BY <1>3, <2>4, <2>5, <2>9 DEF Kept
<1>. QED BY <1>4, <1>5 DEF SetTeam

LEMMA SetStatusKeeps == ASSUME Ordered, NEW w \in Web, SetStatus(w) PROVE Kept
<1>. PICK r : r = request[w]
  OBVIOUS
<1>1. r \in Requests /\ r.at = "status"
  BY DEF SetStatus, Ordered, RequestsOK
<1>2. /\ r.by \in People /\ r.who \in People
      /\ r.status \in {"active", "loa", "suspended"} /\ r.ends \in {"never", "later"}
  BY <1>1, StatusTyped
<1>3. StaffOK' /\ HiredStays
  <2>1. CASE UNCHANGED staff
    BY <2>1 DEF SetStatus, Ordered, StaffOK, HiredStays, Hired, Level
  <2>2. CASE /\ Level(r.who) > 0
             /\ staff' = [staff EXCEPT ![r.who].status = r.status, ![r.who].ends = r.ends]
    <3>. DEFINE row == [staff[r.who] EXCEPT !.status = r.status, !.ends = r.ends]
    <3>1. staff[r.who] \in StaffRow /\ DOMAIN staff = People
      BY <1>2 DEF Ordered, StaffOK
    <3>4. row \in StaffRow
      BY <1>2, <3>1 DEF StaffRow
    <3>2. row.rank = Level(r.who) /\ Level(r.who) # 0
      BY <2>2, <3>1 DEF StaffRow, Level
    <3>3. staff' = [staff EXCEPT ![r.who] = row] /\ UNCHANGED hired
      BY <1>2, <2>2, <3>1 DEF SetStatus
    <3>. HIDE DEF row
    <3>. QED BY <1>2, <3>2, <3>3, <3>4, MemberChanges DEF Ordered
  <2>. QED BY <2>1, <2>2 DEF SetStatus
<1>4. AppsOK'
  BY <1>3, AppsFrame DEF Ordered, SetStatus
<1>5. RequestsOK'
  <2>1. PlayersStay
    BY DEF PlayersStay, SetStatus
  <2>. QED BY <1>3, <2>1, RequestEnds DEF Ordered, SetStatus
<1>6. PapersOK'
  BY DEF SetStatus, Ordered, PapersOK
<1>. QED BY <1>3, <1>4, <1>5, <1>6 DEF Kept

\* Members change, nobody's rank does, and the requests stay.
LEMMA MembersOnly ==
    ASSUME Ordered, StaffOK', HiredStays, UNCHANGED <<hired, apps, request>>, PapersOK'
    PROVE  Kept
<1>1. PlayersStay
  BY DEF PlayersStay
<1>. QED BY <1>1, AppsFrame, RequestsFrame DEF Kept, Ordered

LEMMA EndDateKeeps == ASSUME Ordered, EndDatePasses PROVE Kept
<1>1. PICK p \in People : staff[p].ends = "later" /\ staff' = [staff EXCEPT ![p].ends = "past"]
  BY DEF EndDatePasses
<1>. DEFINE row == [staff[p] EXCEPT !.ends = "past"]
<1>2. staff[p] \in StaffRow /\ staff[p] # Outsider
  BY <1>1 DEF Ordered, StaffOK, Outsider
<1>3. row \in StaffRow /\ row.rank = Level(p) /\ Level(p) # 0
  BY <1>2 DEF StaffRow, Level, Ordered, StaffOK
<1>4. staff' = [staff EXCEPT ![p] = row] /\ UNCHANGED hired
  BY <1>1 DEF EndDatePasses
<1>. HIDE DEF row
<1>5. StaffOK' /\ HiredStays
  BY <1>3, <1>4, MemberChanges DEF Ordered
<1>6. PapersOK'
  BY DEF EndDatePasses, Ordered, PapersOK
<1>. QED BY <1>5, <1>6, MembersOnly DEF EndDatePasses

\* Whose leave is over is back at work.
LEMMA Returns ==
    ASSUME StaffOK, NEW p \in People, EndExpiredLOAs
    PROVE  /\ staff'[p] = IF Expired(p) THEN [staff[p] EXCEPT !.status = "active", !.ends = "never"]
                          ELSE staff[p]
           /\ staff'[p] \in StaffRow /\ staff'[p].rank = staff[p].rank
           /\ staff'[p].rank = 0 => staff'[p] = Outsider
<1>1. staff'[p] = IF Expired(p) THEN [staff[p] EXCEPT !.status = "active", !.ends = "never"]
                          ELSE staff[p]
  BY DEF EndExpiredLOAs
<1>2. staff[p] \in StaffRow /\ (staff[p].rank = 0 => staff[p] = Outsider)
  BY DEF StaffOK
<1>3. CASE Expired(p)
  <2>1. staff[p] # Outsider
    BY <1>3 DEF Expired, Outsider
  <2>. QED BY <1>1, <1>2, <1>3, <2>1 DEF StaffRow
<1>4. CASE ~Expired(p)
  BY <1>1, <1>2, <1>4
<1>. QED BY <1>3, <1>4

LEMMA EndExpiredKeeps == ASSUME Ordered, EndExpiredLOAs PROVE Kept
<1>1. \A p \in People : /\ staff'[p] \in StaffRow /\ staff'[p].rank = staff[p].rank
                        /\ staff'[p].rank = 0 => staff'[p] = Outsider
  BY Returns DEF Ordered
<1>2. staff' \in [People -> StaffRow]
  <2>. DEFINE back(p) == IF Expired(p) THEN [staff[p] EXCEPT !.status = "active", !.ends = "never"]
                         ELSE staff[p]
  <2>1. staff' = [p \in People |-> back(p)]
    BY DEF EndExpiredLOAs
  <2>. HIDE DEF back
  <2>. QED BY <1>1, <2>1
<1>3. StaffOK'
  BY <1>1, <1>2 DEF EndExpiredLOAs, Ordered, StaffOK, Outsider
<1>4. HiredStays
  BY <1>1, RanksStay DEF EndExpiredLOAs
<1>5. PapersOK'
  BY DEF EndExpiredLOAs, Ordered, PapersOK
<1>. QED BY <1>3, <1>4, <1>5, MembersOnly DEF EndExpiredLOAs

\* Interviews and notes are about nobody's rank.
LEMMA PapersOnly ==
    ASSUME Ordered, UNCHANGED <<staff, hired, apps, request>>, PapersOK'
    PROVE  Kept
<1>1. HiredStays /\ StaffOK'
  BY DEF HiredStays, Hired, Level, Ordered, StaffOK
<1>. QED BY <1>1, MembersOnly

LEMMA SaveInterviewKeeps ==
    ASSUME Ordered, NEW x \in People, NEW a \in DOMAIN apps, SaveInterview(x, a) PROVE Kept
<1>1. PapersOK'
  BY CareersAssumption DEF SaveInterview, Ordered, PapersOK
<1>. QED BY <1>1, PapersOnly DEF SaveInterview

LEMMA AddNoteKeeps == ASSUME Ordered, NEW x \in People, StaffAddNote(x) PROVE Kept
<1>1. PapersOK'
  BY DEF StaffAddNote, Ordered, PapersOK
<1>. QED BY <1>1, PapersOnly DEF StaffAddNote

\* Letters and the two loops leave the staff alone.
LEMMA OfficeStays == ASSUME Ordered, UNCHANGED <<office, request, offered>> PROVE Kept
<1>1. PapersOK'
  BY DEF Ordered, PapersOK, office
<1>. QED BY <1>1, PapersOnly DEF office

LEMMA NextKeeps == ASSUME Ordered, [Next]_vars PROVE Kept
<1>1. ASSUME UNCHANGED vars PROVE Kept
  BY <1>1, OfficeStays DEF vars
<1>2. ASSUME NEW w \in Web, Recruiting(w) PROVE Kept
  BY <1>2, ApplyKeeps, SubmitKeeps, AcceptKeeps, AcceptedKeeps DEF Recruiting
<1>3. ASSUME NEW w \in Web, Managing(w) PROVE Kept
  <2>1. ASSUME NEW x \in People, StaffSetRank(w, x) PROVE Kept
    BY <2>1, SetRankAsked
  <2>2. ASSUME NEW x \in People, StaffAdd(w, x) PROVE Kept
    BY <2>2, AddAsked
  <2>3. ASSUME NEW x \in People, StaffSetPlacement(w, x) PROVE Kept
    BY <2>3, PlacementAsked
  <2>4. ASSUME NEW x \in People, StaffSetStatus(w, x) PROVE Kept
    BY <2>4, StatusAsked
  <2>5. SetRank(w) => Kept
    BY SetRankKeeps
  <2>6. SetTeam(w) => Kept
    BY SetTeamKeeps
  <2>7. SetStatus(w) => Kept
    BY SetStatusKeeps
  <2>. QED BY <1>3, <2>1, <2>2, <2>3, <2>4, <2>5, <2>6, <2>7 DEF Managing
<1>4. ASSUME NEW w \in Web, GiveUp(w) PROVE Kept
  BY <1>4, GiveUpKeeps
<1>5. ASSUME Reviewing PROVE Kept
  <2>1. StaffApplyWithdraw \/ CooldownOver => Kept
    BY WithdrawKeeps, CooldownKeeps
  <2>2. ASSUME NEW x \in People, NEW a \in DOMAIN apps,
               ToInterview(x, a) \/ SaveInterview(x, a) \/ RejectStaff(x, a)
        PROVE  Kept
    BY <2>2, InterviewKeeps, SaveInterviewKeeps, RejectKeeps
  <2>. QED BY <1>5, <2>1, <2>2 DEF Reviewing
<1>6. ASSUME NEW x \in People, StaffAddNote(x) PROVE Kept
  BY <1>6, AddNoteKeeps
<1>7. EndDatePasses \/ EndExpiredLOAs => Kept
  BY EndDateKeeps, EndExpiredKeeps
<1>8. UNCHANGED <<office, request, offered>> => Kept
  BY OfficeStays
<1>. QED BY <1>1, <1>2, <1>3, <1>4, <1>5, <1>6, <1>7, <1>8 DEF Next

-----------------------------------------------------------------------------
(* What each operation does to the outbox and the poster.                    *)

\* An operation queues one letter, or does not touch them, or is one of theirs.
Writes ==
    /\ \E a \in DOMAIN apps, what \in {"interview", "decision"}, text \in Texts :
          Letter(apps[a].player, <<a, what>>, text)
    /\ UNCHANGED <<worker, posterVars, faults>>

LEMMA NextDelivers ==
    ASSUME Ordered, [Next]_vars
    PROVE  UNCHANGED deliveryVars \/ Writes \/ Delivering
<1>1. UNCHANGED vars => UNCHANGED deliveryVars
  BY DEF vars
<1>2. ASSUME NEW w \in Web, Recruiting(w)
      PROVE  UNCHANGED deliveryVars \/ Writes
  <2>1. ASSUME Accepted(w) PROVE Writes
    <3>. PICK a : a = request[w].app
      OBVIOUS
    <3>1. RequestOK(request[w]) /\ request[w].at = "accept"
      BY <2>1 DEF Accepted, Ordered, RequestsOK
    <3>2. a \in DOMAIN apps
      BY <3>1 DEF RequestOK, Accepts, AcceptHires
    <3>3. Letter(apps[a].player, <<a, "decision">>, "accepted")
      BY <2>1 DEF Accepted
    <3>. QED BY <2>1, <3>2, <3>3 DEF Writes, Texts, Accepted
  <2>2. ASSUME NEW x \in People, AcceptStaff(w, x) PROVE UNCHANGED deliveryVars
    BY <2>2 DEF AcceptStaff
  <2>3. StaffApplySubmit(w) \/ SubmitStaff(w) => UNCHANGED deliveryVars
    BY DEF StaffApplySubmit, SubmitStaff
  <2>. QED BY <1>2, <2>1, <2>2, <2>3 DEF Recruiting
<1>3. ASSUME NEW w \in Web, Managing(w) PROVE UNCHANGED deliveryVars
  <2>1. ASSUME NEW x \in People,
               \/ StaffSetRank(w, x) \/ StaffAdd(w, x)
               \/ StaffSetPlacement(w, x) \/ StaffSetStatus(w, x)
        PROVE  UNCHANGED deliveryVars
    BY <2>1 DEF StaffSetRank, StaffAdd, StaffSetPlacement, StaffSetStatus
  <2>2. SetRank(w) \/ SetTeam(w) \/ SetStatus(w) => UNCHANGED deliveryVars
    BY DEF SetRank, SetTeam, SetStatus
  <2>. QED BY <1>3, <2>1, <2>2 DEF Managing
<1>4. ASSUME Reviewing PROVE UNCHANGED deliveryVars \/ Writes
  <2>1. ASSUME NEW x \in People, NEW a \in DOMAIN apps, ToInterview(x, a) PROVE Writes
    BY <2>1 DEF ToInterview, Writes, Texts
  <2>2. ASSUME NEW x \in People, NEW a \in DOMAIN apps, RejectStaff(x, a) PROVE Writes
    BY <2>2 DEF RejectStaff, Writes, Texts
  <2>3. ASSUME NEW x \in People, NEW a \in DOMAIN apps, SaveInterview(x, a)
        PROVE  UNCHANGED deliveryVars
    BY <2>3 DEF SaveInterview
  <2>4. StaffApplyWithdraw \/ CooldownOver => UNCHANGED deliveryVars
    BY DEF StaffApplyWithdraw, CooldownOver
  <2>. QED BY <1>4, <2>1, <2>2, <2>3, <2>4 DEF Reviewing
<1>5. ASSUME NEW w \in Web, GiveUp(w) PROVE UNCHANGED deliveryVars
  BY <1>5 DEF GiveUp
<1>6. ASSUME NEW x \in People, StaffAddNote(x) PROVE UNCHANGED deliveryVars
  BY <1>6 DEF StaffAddNote
<1>7. EndDatePasses \/ EndExpiredLOAs => UNCHANGED deliveryVars
  BY DEF EndDatePasses, EndExpiredLOAs
<1>. QED BY <1>1, <1>2, <1>3, <1>4, <1>5, <1>6, <1>7 DEF Next

LEMMA WritesSends == ASSUME Sending, AppsOK, Writes PROVE Sending' /\ [Letters!Next]_(Letters!vars)
<1>1. PICK a \in DOMAIN apps, what \in {"interview", "decision"}, text \in Texts :
         Letter(apps[a].player, <<a, what>>, text)
  BY DEF Writes
<1>. DEFINE key == <<a, what>>
<1>2. key \in Keys
  BY NumberOfApp, CareersAssumption
<1>. HIDE DEF key
<1>3. CASE UNCHANGED outbox
  <2>1. UNCHANGED workerVars
    BY <1>3 DEF Writes, workerVars
  <2>2. UNCHANGED Letters!vars
    BY <1>3, LettersStutter DEF HeardRows, SentRows, GivenUpRows
  <2>. QED BY <2>1, <2>2, SendingFrame
<1>4. CASE Enqueue(key, text)
  BY <1>2, <1>4, EnqueueSends, EnqueueLetters DEF Writes
<1>. QED BY <1>1, <1>3, <1>4 DEF Letter, key

MailboxSteps == [Letters!Next]_(Letters!vars) /\ [Notices!Next]_(Notices!vars)

LEMMA LettersStay == UNCHANGED outbox => UNCHANGED Letters!vars
BY LettersStutter DEF HeardRows, SentRows, GivenUpRows

LEMMA NoticesStay == UNCHANGED <<staffLog, poster>> => UNCHANGED Notices!vars
<1>. SUFFICES ASSUME UNCHANGED <<staffLog, poster>> PROVE UNCHANGED Notices!vars
  OBVIOUS
<1>1. NoticesAre(DOMAIN staffLog, ToldRows, PostedRows, LeftRows)
  BY DEF NoticesAre, ToldRows, PostedRows, OldRows, LeftRows, InHand
<1>. QED BY <1>1, NoticesStutter

\* A step of the worker.
LEMMA WorkerCarries ==
    ASSUME Carried, Sending', [Letters!Next]_(Letters!vars), UNCHANGED posterVars,
           UNCHANGED faults \/ Fault
    PROVE  Carried' /\ MailboxSteps
<1>1. UNCHANGED <<staffLog, poster>>
  BY DEF posterVars
<1>2. Posting' /\ [Notices!Next]_(Notices!vars)
  BY <1>1, PostingFrame, NoticesStay DEF Carried
<1>3. faults' \in 0..MaxFaults
  BY DeliveryAssumption DEF Carried, Fault
<1>. QED BY <1>2, <1>3 DEF Carried, MailboxSteps

\* A step of the poster.
LEMMA PosterCarries ==
    ASSUME Carried, Posting', [Notices!Next]_(Notices!vars), UNCHANGED workerVars,
           UNCHANGED faults \/ Fault
    PROVE  Carried' /\ MailboxSteps
<1>1. UNCHANGED outbox
  BY DEF workerVars
<1>2. Sending' /\ [Letters!Next]_(Letters!vars)
  BY <1>1, SendingFrame, LettersStay DEF Carried
<1>3. faults' \in 0..MaxFaults
  BY DeliveryAssumption DEF Carried, Fault
<1>. QED BY <1>2, <1>3 DEF Carried, MailboxSteps

LEMMA DeliveringCarries == ASSUME Carried, Delivering PROVE Carried' /\ MailboxSteps
<1>. Sending /\ Posting
  BY DEF Carried
<1>1. CASE EnqueueNow
  <2>. DEFINE key == CHOOSE key \in Keys : ~Queued(key)
  <2>1. key \in Keys /\ Enqueue(key, "post") /\ "post" \in Texts
    BY <1>1 DEF EnqueueNow, Texts
  <2>. HIDE DEF key
  <2>2. [Letters!Next]_(Letters!vars)
    BY <2>1, EnqueueLetters
  <2>. QED BY <1>1, <2>2, EnqueueNowSends, WorkerCarries DEF EnqueueNow
<1>2. CASE LogStaffAction
  BY <1>2, LogStaffActionPosts, LogStaffActionNotices, PosterCarries DEF LogStaffAction
<1>3. CASE TakeBatch
  <2>1. UNCHANGED Letters!vars
    BY <1>3, LettersStay DEF TakeBatch
  <2>. QED BY <1>3, <2>1, TakeBatchSends, WorkerCarries DEF TakeBatch
<1>4. CASE Send
  BY <1>4, SendSends, SendLetters, WorkerCarries DEF Send
<1>5. CASE Mark
  BY <1>5, MarkSends, MarkLetters, WorkerCarries DEF Mark
<1>6. CASE BackoffOver
  <2>1. UNCHANGED Letters!vars
    BY <1>6, TimeLetters DEF BackoffOver
  <2>. QED BY <1>6, <2>1, BackoffSends, WorkerCarries DEF BackoffOver
<1>7. CASE TakePending
  BY <1>7, TakePendingPosts, TakePendingNotices, PosterCarries DEF TakePending
<1>8. CASE PostRow
  BY <1>8, PostRowPosts, PostRowNotices, PosterCarries DEF PostRow
<1>9. CASE MarkPosted
  BY <1>9, MarkPostedPosts, MarkPostedNotices, PosterCarries DEF MarkPosted
<1>10. CASE DayPasses
  <2>1. Sending' /\ Posting'
    BY <1>10, DaySends, DayPosts
  <2>2. CASE UNCHANGED staffLog /\ \E i \in DOMAIN outbox : outbox' = [outbox EXCEPT ![i].old = TRUE]
    <3>1. UNCHANGED Letters!vars
      BY <2>2, TimeLetters
    <3>. QED BY <1>10, <2>1, <2>2, <3>1, WorkerCarries DEF DayPasses, posterVars
  <2>3. CASE UNCHANGED outbox /\ \E i \in Pending : staffLog' = [staffLog EXCEPT ![i].old = TRUE]
    <3>1. [Notices!Next]_(Notices!vars)
      BY <1>10, <2>3, DayNotices DEF DayPasses
    <3>. QED BY <1>10, <2>1, <2>3, <3>1, PosterCarries DEF DayPasses, workerVars
  <2>. QED BY <1>10, <2>2, <2>3 DEF DayPasses
<1>11. CASE BotRestart
  <2>1. Sending' /\ Posting'
    BY <1>11, RestartSends, RestartPosts
  <2>2. UNCHANGED Letters!vars
    BY <1>11, LettersStay DEF BotRestart
  <2>3. [Notices!Next]_(Notices!vars)
    BY <1>11, LetGo DEF BotRestart
  <2>4. faults' \in 0..MaxFaults
    BY <1>11, DeliveryAssumption DEF Carried, Fault, BotRestart
  <2>. QED BY <2>1, <2>2, <2>3, <2>4 DEF Carried, MailboxSteps
<1>. QED BY <1>1, <1>2, <1>3, <1>4, <1>5, <1>6, <1>7, <1>8, <1>9, <1>10, <1>11 DEF Delivering

LEMMA NextCarries == ASSUME Carried, Ordered, [Next]_vars PROVE Carried' /\ MailboxSteps
<1>1. CASE UNCHANGED deliveryVars
  <2>1. Sending' /\ UNCHANGED outbox /\ UNCHANGED posterVars /\ UNCHANGED faults
    BY <1>1, SendingFrame DEF deliveryVars, workerVars, Carried
  <2>2. UNCHANGED Letters!vars
    BY <2>1, LettersStay
  <2>. QED BY <2>1, <2>2, WorkerCarries
<1>2. CASE Writes
  BY <1>2, WritesSends, WorkerCarries DEF Carried, Ordered, Writes
<1>3. CASE Delivering
  BY <1>3, DeliveringCarries
<1>. QED BY <1>1, <1>2, <1>3, NextDelivers

-----------------------------------------------------------------------------
(* The theorems.                                                             *)

LEMMA InitInductive == Init => Inductive /\ Letters!Init /\ Notices!Init
<1>. SUFFICES ASSUME Init PROVE Inductive /\ Letters!Init /\ Notices!Init
  OBVIOUS
<1>1. outbox = <<>> /\ worker = AtRest /\ staffLog = <<>> /\ poster = Waits /\ faults = 0
  BY DEF Init, DeliveryInit
<1>2. Sending
  BY <1>1 DEF Sending, OneEach, InSending, Distinct, AtRest
<1>3. Posting
  BY <1>1 DEF Posting, InPosting, Distinct, Waits
<1>4. faults \in 0..MaxFaults
  BY <1>1, DeliveryAssumption
<1>5. StaffOK
  <2>1. \A p \in People : [Outsider EXCEPT !.rank = Founders[p]] \in StaffRow
           /\ (Founders[p] = 0 => [Outsider EXCEPT !.rank = Founders[p]] = Outsider)
           /\ [Outsider EXCEPT !.rank = Founders[p]].rank = Founders[p]
    BY CareersAssumption DEF Outsider, StaffRow
  <2>. DEFINE first(p) == [Outsider EXCEPT !.rank = Founders[p]]
  <2>2. staff = [p \in People |-> first(p)] /\ hired = {}
    BY DEF Init
  <2>3. \A p \in People : first(p) \in StaffRow /\ (first(p).rank = 0 => first(p) = Outsider)
    BY <2>1
  <2>. HIDE DEF first
  <2>. QED BY <2>2, <2>3 DEF StaffOK
<1>6. AppsOK
  BY NumbersAre DEF Init, AppsOK, OneOpenApplication, AcceptedWereHired
<1>7. RequestsOK
  <2>1. Idle \in Requests /\ RequestOK(Idle)
    BY DEF Idle, Requests, RequestOK, Accepts
  <2>2. request = [w \in Web |-> Idle]
    BY DEF Init
  <2>. HIDE DEF Idle
  <2>. QED BY <2>1, <2>2 DEF RequestsOK
<1>8. PapersOK
  BY DEF Init, PapersOK
<1>9. Letters!Init
  BY <1>1 DEF Letters!Init, KeysIn
<1>10. Notices!Init
  BY <1>1 DEF Notices!Init
<1>. QED BY <1>2, <1>3, <1>4, <1>5, <1>6, <1>7, <1>8, <1>9, <1>10 DEF Inductive, Carried

\* The invariant holds, of every behaviour.
THEOREM Invariance == Spec => []Inductive
<1>1. Inductive /\ [Next]_vars => Inductive'
  <2>. SUFFICES ASSUME Inductive, [Next]_vars PROVE Inductive'
    OBVIOUS
  <2>1. Carried /\ Ordered
    BY DEF Inductive, Ordered
  <2>. QED BY <2>1, NextKeeps, NextCarries DEF Inductive, Kept
<1>. QED BY <1>1, InitInductive, PTL DEF Spec

LEMMA TypeOKHolds == Inductive => TypeOK
BY DEF Inductive, TypeOK, DeliveryTypeOK, Carried, Sending, Posting, StaffOK, StaffRow, AppsOK,
       AppRow, RequestsOK, PapersOK

\* Every table of the staff's careers, the outbox and the poster hold rows of their kind,
\* and nobody outside the staff has a status or a team (SetRank, SetTeam, SetStatus).
THEOREM TypeCorrect == Spec => []TypeOK
BY Invariance, TypeOKHolds, PTL

\* Applications are one at a time; and if the permissions leave whoever decides on them
\* a rank below their own, whose application is accepted was given a rank (SubmitStaff's
\* index, AcceptStaff's three transactions).
THEOREM AcceptedInOrder ==
    ASSUME DecidersHaveRanks
    PROVE  Spec => []ApplicationsInOrder
<1>1. Inductive => ApplicationsInOrder
  BY TypeOKHolds DEF Inductive, AppsOK, ApplicationsInOrder
<1>. QED BY <1>1, Invariance, PTL

\* Whatever the permissions are, nobody has two applications in progress (SubmitStaff).
THEOREM OneApplication == Spec => []OneOpenApplication
<1>1. Inductive => OneOpenApplication
  BY DEF Inductive, AppsOK
<1>. QED BY <1>1, Invariance, PTL

\* The outbox and the poster are mailboxes: nothing is marked as sent that was not,
\* and nothing is sent again once it was marked or given up, through lost answers,
\* failed marks and restarts (deliverDue, postPending).
THEOREM Mailboxes == Spec => MailboxSpec
<1>1. Inductive /\ [Next]_vars => [Letters!Next]_(Letters!vars) /\ [Notices!Next]_(Notices!vars)
  BY NextCarries DEF Inductive, Ordered, MailboxSteps
<1>2. Spec => Letters!Spec
  BY <1>1, Invariance, InitInductive, PTL DEF Spec, Letters!Spec
<1>3. Spec => Notices!Spec
  BY <1>1, Invariance, InitInductive, PTL DEF Spec, Notices!Spec
<1>. QED BY <1>2, <1>3, PTL DEF MailboxSpec

-----------------------------------------------------------------------------
(* Who changes whom.                                                         *)

\* A step changes p's row only as time does, or on the request of someone above them.
FromAbove(p) ==
    \/ [staff'[p] EXCEPT !.ends = "never"] = [staff[p] EXCEPT !.ends = "never"]
    \/ staff[p].status = "loa" /\ staff'[p] = [staff[p] EXCEPT !.status = "active", !.ends = "never"]
    \/ \E x \in InChargeOf(p) :
         /\ \E w \in Web : request[w].at \in {"rank", "team", "status"} /\ request[w].by = x
                           /\ request[w].who = p
         /\ staff'[p].rank \in {0, staff[p].rank} \/ staff'[p].rank < Level(x)
              \/ Level(x) >= HeadAdminLevel

LEMMA Unchanged == UNCHANGED staff => \A p \in People : FromAbove(p)
BY DEF FromAbove

\* checkSeniority
LEMMA Senior ==
    ASSUME StaffOK, NEW by \in People, NEW p \in People, Outranks(by, p)
    PROVE  by \in InChargeOf(p)
BY NumbersAre DEF Outranks, InChargeOf, Level, StaffOK, StaffRow

\* A request of someone above p changes p, and nobody else.
LEMMA OneChanges ==
    ASSUME StaffOK, NEW w \in Web, NEW r, r = request[w], r.at \in {"rank", "team", "status"},
           r.by \in People, r.who \in People, Outranks(r.by, r.who),
           NEW row, staff' = [staff EXCEPT ![r.who] = row],
           row.rank \in {0, Level(r.who)} \/ row.rank < Level(r.by) \/ Level(r.by) >= HeadAdminLevel
    PROVE  \A p \in People : FromAbove(p)
<1>. TAKE p \in People
<1>1. staff'[r.who] = row /\ (p # r.who => staff'[p] = staff[p])
  BY DEF StaffOK
<1>2. CASE p # r.who
  BY <1>1, <1>2 DEF FromAbove
<1>3. CASE p = r.who
  <2>1. r.by \in InChargeOf(p)
    BY <1>3, Senior
  <2>. QED BY <1>1, <1>3, <2>1 DEF FromAbove, Level
<1>. QED BY <1>2, <1>3

LEMMA RankFromAbove ==
    ASSUME Ordered, NEW w \in Web, SetRank(w) PROVE \A p \in People : FromAbove(p)
<1>. PICK r : r = request[w]
  OBVIOUS
<1>1. r \in Requests /\ r.at = "rank"
  BY DEF SetRank, Ordered, RequestsOK
<1>2. r.by \in People /\ r.who \in People /\ r.rank \in 0..TopRank
  BY <1>1, PlacingTyped
<1>3. CASE UNCHANGED staff
  BY <1>3, Unchanged
<1>4. CASE /\ Outranks(r.by, r.who) /\ (r.rank < Level(r.by) \/ Level(r.by) >= HeadAdminLevel)
           /\ staff' = [staff EXCEPT ![r.who] = Placed(r.who, r.rank)]
  <2>. DEFINE row == Placed(r.who, r.rank)
  <2>1. staff[r.who] \in StaffRow
    BY <1>2 DEF Ordered, StaffOK
  <2>2. row.rank = r.rank
    BY <1>2, <2>1 DEF Placed, Outsider, StaffRow
  <2>3. row.rank \in {0, Level(r.who)} \/ row.rank < Level(r.by) \/ Level(r.by) >= HeadAdminLevel
    BY <1>4, <2>2
  <2>. HIDE DEF row
  <2>4. staff' = [staff EXCEPT ![r.who] = row]
    BY <1>4 DEF row
  <2>. QED BY <1>1, <1>2, <1>4, <2>3, <2>4, OneChanges DEF Ordered
<1>. QED BY <1>3, <1>4 DEF SetRank

LEMMA TeamFromAbove ==
    ASSUME Ordered, NEW w \in Web, SetTeam(w) PROVE \A p \in People : FromAbove(p)
<1>. PICK r : r = request[w]
  OBVIOUS
<1>1. r \in Requests /\ r.at = "team"
  BY DEF SetTeam, Ordered, RequestsOK
<1>2. r.by \in People /\ r.who \in People
  BY <1>1, PlacingTyped
<1>3. CASE UNCHANGED staff
  BY <1>3, Unchanged
<1>4. CASE Outranks(r.by, r.who) /\ staff' = [staff EXCEPT ![r.who].team = r.team]
  <2>. DEFINE row == [staff[r.who] EXCEPT !.team = r.team]
  <2>1. staff[r.who] \in StaffRow
    BY <1>2 DEF Ordered, StaffOK
  <2>2. row.rank \in {0, Level(r.who)}
    BY <2>1 DEF StaffRow, Level
  <2>3. staff' = [staff EXCEPT ![r.who] = row]
    BY <1>4
  <2>. HIDE DEF row
  <2>4. /\ row.rank \in {0, Level(r.who)} \/ row.rank < Level(r.by) \/ Level(r.by) >= HeadAdminLevel
        /\ Outranks(r.by, r.who) /\ r.at \in {"rank", "team", "status"} /\ StaffOK
    BY <1>1, <1>4, <2>2 DEF Ordered
  <2>. QED BY <1>2, <2>3, <2>4, OneChanges
<1>. QED BY <1>3, <1>4 DEF SetTeam

LEMMA StatusFromAbove ==
    ASSUME Ordered, NEW w \in Web, SetStatus(w) PROVE \A p \in People : FromAbove(p)
<1>. PICK r : r = request[w]
  OBVIOUS
<1>1. r \in Requests /\ r.at = "status"
  BY DEF SetStatus, Ordered, RequestsOK
<1>2. r.by \in People /\ r.who \in People
  BY <1>1, StatusTyped
<1>3. CASE UNCHANGED staff
  BY <1>3, Unchanged
<1>4. CASE /\ Outranks(r.by, r.who)
           /\ staff' = [staff EXCEPT ![r.who].status = r.status, ![r.who].ends = r.ends]
  <2>. DEFINE row == [staff[r.who] EXCEPT !.status = r.status, !.ends = r.ends]
  <2>1. staff[r.who] \in StaffRow /\ DOMAIN staff = People
    BY <1>2 DEF Ordered, StaffOK
  <2>2. row.rank \in {0, Level(r.who)}
    BY <2>1 DEF StaffRow, Level
  <2>3. staff' = [staff EXCEPT ![r.who] = row]
    BY <1>2, <1>4, <2>1
  <2>. HIDE DEF row
  <2>4. /\ row.rank \in {0, Level(r.who)} \/ row.rank < Level(r.by) \/ Level(r.by) >= HeadAdminLevel
        /\ Outranks(r.by, r.who) /\ r.at \in {"rank", "team", "status"} /\ StaffOK
    BY <1>1, <1>4, <2>2 DEF Ordered
  <2>. QED BY <1>2, <2>3, <2>4, OneChanges
<1>. QED BY <1>3, <1>4 DEF SetStatus

LEMMA TimeFromAbove ==
    ASSUME Ordered, EndDatePasses \/ EndExpiredLOAs PROVE \A p \in People : FromAbove(p)
<1>. TAKE p \in People
<1>1. staff[p] \in StaffRow /\ StaffOK
  BY DEF Ordered, StaffOK
<1>2. CASE EndExpiredLOAs
  <2>1. staff'[p] = IF Expired(p) THEN [staff[p] EXCEPT !.status = "active", !.ends = "never"]
                    ELSE staff[p]
    BY <1>1, <1>2, Returns
  <2>2. CASE Expired(p)
    BY <2>1, <2>2 DEF Expired, FromAbove
  <2>3. CASE ~Expired(p)
    <3>1. staff'[p] = staff[p]
      BY <2>1, <2>3
    <3>. QED BY <3>1 DEF FromAbove
  <2>. QED BY <2>2, <2>3
<1>3. CASE EndDatePasses
  <2>1. PICK q \in People : staff' = [staff EXCEPT ![q].ends = "past"]
    BY <1>3 DEF EndDatePasses
  <2>2. staff'[p] = staff[p] \/ staff'[p] = [staff[p] EXCEPT !.ends = "past"]
    BY <1>1, <2>1 DEF StaffOK
  <2>3. [staff'[p] EXCEPT !.ends = "never"] = [staff[p] EXCEPT !.ends = "never"]
    BY <1>1, <2>2 DEF StaffRow
  <2>. QED BY <2>3 DEF FromAbove
<1>. QED BY <1>2, <1>3

LEMMA NextFromAbove == ASSUME Ordered, [Next]_vars PROVE \A p \in People : FromAbove(p)
<1>1. UNCHANGED vars => UNCHANGED staff
  BY DEF vars, office
<1>2. ASSUME NEW w \in Web, Recruiting(w) PROVE UNCHANGED staff
  <2>1. ASSUME NEW x \in People, AcceptStaff(w, x) PROVE UNCHANGED staff
    BY <2>1 DEF AcceptStaff, office
  <2>2. StaffApplySubmit(w) \/ SubmitStaff(w) \/ Accepted(w) => UNCHANGED staff
    BY DEF StaffApplySubmit, SubmitStaff, Accepted, office
  <2>. QED BY <1>2, <2>1, <2>2 DEF Recruiting
<1>3. ASSUME NEW w \in Web, Managing(w) PROVE \A p \in People : FromAbove(p)
  <2>1. ASSUME NEW x \in People,
               \/ StaffSetRank(w, x) \/ StaffAdd(w, x)
               \/ StaffSetPlacement(w, x) \/ StaffSetStatus(w, x)
        PROVE  UNCHANGED staff
    BY <2>1 DEF StaffSetRank, StaffAdd, StaffSetPlacement, StaffSetStatus, office
  <2>2. SetRank(w) \/ SetTeam(w) \/ SetStatus(w) => \A p \in People : FromAbove(p)
    BY RankFromAbove, TeamFromAbove, StatusFromAbove
  <2>. QED BY <1>3, <2>1, <2>2, Unchanged DEF Managing
<1>4. ASSUME Reviewing PROVE UNCHANGED staff
  <2>1. ASSUME NEW x \in People, NEW a \in DOMAIN apps,
               ToInterview(x, a) \/ RejectStaff(x, a) \/ SaveInterview(x, a)
        PROVE  UNCHANGED staff
    BY <2>1 DEF ToInterview, RejectStaff, SaveInterview
  <2>2. StaffApplyWithdraw \/ CooldownOver => UNCHANGED staff
    BY DEF StaffApplyWithdraw, CooldownOver
  <2>. QED BY <1>4, <2>1, <2>2 DEF Reviewing
<1>5. ASSUME NEW w \in Web, GiveUp(w) PROVE UNCHANGED staff
  BY <1>5 DEF GiveUp, office
<1>6. ASSUME NEW x \in People, StaffAddNote(x) PROVE UNCHANGED staff
  BY <1>6 DEF StaffAddNote
<1>7. EndDatePasses \/ EndExpiredLOAs => \A p \in People : FromAbove(p)
  BY TimeFromAbove
<1>8. UNCHANGED <<office, request, offered>> => UNCHANGED staff
  BY DEF office
<1>. QED BY <1>1, <1>2, <1>3, <1>4, <1>5, <1>6, <1>7, <1>8, Unchanged DEF Next

\* A member of the staff is changed only by someone above them at that very moment, or a
\* head admin, never by themselves; nobody raises another to their own level; only leave
\* ends by itself (checkSeniority under both locks, SetRank, EndExpiredLOAs).
THEOREM ChangedFromAboveOnly == Spec => OnlyFromAbove
<1>. DEFINE Above == \A p \in People : FromAbove(p)
<1>1. Inductive /\ [Next]_vars => Above
  BY NextFromAbove DEF Inductive, Ordered
<1>2. Spec => [][Above]_vars
  BY <1>1, Invariance, PTL DEF Spec
<1>. QED BY <1>2, PTL DEF OnlyFromAbove, FromAbove
====
