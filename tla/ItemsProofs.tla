----------------------------- MODULE ItemsProofs -----------------------------
(***************************************************************************)
(* Proofs about Items, for any number of players, scripts and containers:  *)
(*   - a player's record, saved list and acknowledged changes are one list *)
(*     wherever no two changes overlapped and no answer misled;            *)
(*   - items and cash balance: no sequence of legs makes any, and none is  *)
(*     lost but by a refusal, a departure or a restart.  The sums move one *)
(*     player, container or script at a time (SumMoves), so each action    *)
(*     shows what leaves one goes to another, is made or is used up;       *)
(*   - cash in the row, in the record and in scripts yet to book it agree. *)
(* The balance rests on Sound: nothing is below zero, every script is on a *)
(* leg of its handler, a bag off the ground is empty.                      *)
(***************************************************************************)
EXTENDS Items, TLAPS, FiniteSetTheorems, WellFoundedInduction, NaturalsInduction

-----------------------------------------------------------------------------
(* Sums over finite sets.                                                    *)

\* What f comes to over a set.
Total(f, S) == MapThenSumSet(LAMBDA x : f[x], S)

\* A function that takes a set apart as the sum does.
Any(s) == CHOOSE x \in s : TRUE
Part(f, g, s) == IF s = {} THEN 0 ELSE f[Any(s)] + g[s \ {Any(s)}]
AddsBelow(f, S, n, g) == g = [s \in {t \in SUBSET S : Cardinality(t) < n} |-> Part(f, g, s)]
Adds(f, S, g) == g = [s \in SUBSET S |-> Part(f, g, s)]

LEMMA LeastNumber ==
    ASSUME NEW T, T \subseteq Nat, T # {}
    PROVE  \E n \in T : \A m \in T : n <= m
<1>1. PICK n \in T : \A m \in T : ~ (<<m, n>> \in OpToRel(<, Nat))
  BY WFMin, NatLessThanWellFounded, Zenon
<1>2. \A m \in T : ~ (m < n)
  BY <1>1, Zenon DEF OpToRel
<1>3. \A m \in T : n <= m
  BY <1>2
<1>. QED BY <1>3, Zenon

\* A set of finite sets has a smallest one.
LEMMA SmallestSet ==
    ASSUME NEW T, T # {}, \A s \in T : IsFiniteSet(s)
    PROVE  \E s \in T : \A t \in T : Cardinality(s) <= Cardinality(t)
<1>. DEFINE N == {Cardinality(s) : s \in T}
<1>1. N \subseteq Nat /\ N # {}
  BY FS_CardinalityType
<1>. HIDE DEF N
<1>2. PICK n \in N : \A m \in N : n <= m
  BY <1>1, LeastNumber
<1>. QED BY <1>2 DEF N

LEMMA AnyIsIn == ASSUME NEW s, s # {} PROVE Any(s) \in s
BY DEF Any

LEMMA TakenOut ==
    ASSUME NEW s, IsFiniteSet(s), NEW x \in s
    PROVE  /\ IsFiniteSet(s \ {x}) /\ Cardinality(s \ {x}) \in Nat /\ Cardinality(s) \in Nat
           /\ Cardinality(s) = Cardinality(s \ {x}) + 1
<1>1. IsFiniteSet(s \ {x}) /\ Cardinality(s \ {x}) = Cardinality(s) - 1
  BY FS_RemoveElement
<1>2. Cardinality(s) \in Nat /\ Cardinality(s \ {x}) \in Nat
  BY <1>1, FS_CardinalityType
<1>. QED BY <1>1, <1>2

\* There is one on the subsets smaller than n, for every n.
LEMMA AddsUpTo ==
    ASSUME NEW f, NEW S, IsFiniteSet(S), NEW n \in Nat
    PROVE  \E g : AddsBelow(f, S, n, g)
<1>. DEFINE Small(k) == {t \in SUBSET S : Cardinality(t) < k}
            Has(k) == \E g : g = [s \in Small(k) |-> Part(f, g, s)]
            Ill == {k \in Nat : ~Has(k)}
<1>1. \A t \in SUBSET S : IsFiniteSet(t) /\ Cardinality(t) \in Nat
  BY FS_Subset, FS_CardinalityType
<1>2. Has(0)
  <2>1. Small(0) = {}
    BY <1>1
  <2>. DEFINE g == [s \in {} |-> 0]
  <2>2. g = [s \in {} |-> Part(f, g, s)]
    OBVIOUS
  <2>. QED BY <2>1, <2>2
<1>3. ASSUME NEW k \in Nat, Has(k) PROVE Has(k + 1)
  <2>1. PICK g : g = [s \in Small(k) |-> Part(f, g, s)]
    BY <1>3
  <2>. DEFINE h == [s \in Small(k + 1) |-> Part(f, g, s)]
  <2>2. ASSUME NEW s \in Small(k + 1) PROVE h[s] = Part(f, h, s)
    <3>1. CASE s = {}
      BY <3>1 DEF Part
    <3>2. CASE s # {}
      <4>. DEFINE t == s \ {Any(s)}
      <4>1. t \in Small(k)
        <5>1. Any(s) \in s /\ IsFiniteSet(s) /\ s \subseteq S /\ Cardinality(s) < k + 1
          BY <1>1, <3>2, AnyIsIn
        <5>2. Cardinality(t) \in Nat /\ Cardinality(s) = Cardinality(t) + 1
          BY <5>1, TakenOut
        <5>3. Cardinality(t) < k /\ t \subseteq S
          BY <5>1, <5>2
        <5>. QED BY <5>3
      <4>2. t \in Small(k + 1)
        BY <1>1, <4>1
      <4>. HIDE DEF Small
      <4>3. g[t] = Part(f, g, t) /\ h[t] = Part(f, g, t)
        BY <2>1, <4>1, <4>2
      <4>. QED BY <3>2, <4>3 DEF Part
    <3>. QED BY <3>1, <3>2
  <2>3. h = [s \in Small(k + 1) |-> Part(f, h, s)]
    BY <2>2
  <2>. QED BY <2>3
<1>4. Ill = {}
  <2>1. SUFFICES ASSUME Ill # {} PROVE FALSE
    OBVIOUS
  <2>2. Ill \subseteq Nat
    OBVIOUS
  <2>. HIDE DEF Has
  <2>3. PICK k \in Ill : \A m \in Ill : k <= m
    <3>. HIDE DEF Ill
    <3>. QED BY <2>1, <2>2, LeastNumber
  <2>4. k # 0 /\ k \in Nat
    BY <1>2
  <2>5. k - 1 \in Nat /\ k - 1 \notin Ill
    BY <2>3, <2>4
  <2>6. Has((k - 1) + 1)
    BY <1>3, <2>5
  <2>7. (k - 1) + 1 = k
    BY <2>4
  <2>. QED BY <2>6, <2>7
<1>5. Has(n)
  BY <1>4
<1>. QED BY <1>5 DEF AddsBelow

LEMMA AddsExists ==
    ASSUME NEW f, NEW S, IsFiniteSet(S)
    PROVE  \E g : Adds(f, S, g)
<1>. DEFINE n == Cardinality(S) + 1
<1>1. n \in Nat
  BY FS_CardinalityType
<1>2. {t \in SUBSET S : Cardinality(t) < n} = SUBSET S
  <2>1. \A t \in SUBSET S : Cardinality(t) <= Cardinality(S) /\ Cardinality(t) \in Nat
          /\ Cardinality(S) \in Nat
    BY FS_Subset, FS_CardinalityType
  <2>. QED BY <2>1
<1>. HIDE DEF n
<1>3. PICK g : AddsBelow(f, S, n, g)
  BY <1>1, AddsUpTo
<1>4. g = [s \in SUBSET S |-> Part(f, g, s)]
  BY <1>2, <1>3 DEF AddsBelow
<1>. QED BY <1>4 DEF Adds

\* They agree where they overlap.
LEMMA AddsAgree ==
    ASSUME NEW f, NEW S, NEW g, NEW R, NEW h, IsFiniteSet(S), Adds(f, S, g), Adds(f, R, h)
    PROVE  \A s \in (SUBSET S) \cap (SUBSET R) : g[s] = h[s]
<1>. DEFINE Ill == {s \in (SUBSET S) \cap (SUBSET R) : g[s] # h[s]}
<1>1. \A s \in Ill : IsFiniteSet(s)
  BY FS_Subset
<1>2. SUFFICES ASSUME Ill # {} PROVE FALSE
  OBVIOUS
<1>3. PICK s \in Ill : \A t \in Ill : Cardinality(s) <= Cardinality(t)
  <2>. HIDE DEF Ill
  <2>. QED BY <1>1, <1>2, SmallestSet
<1>4. s \subseteq S /\ s \subseteq R /\ g[s] = Part(f, g, s) /\ h[s] = Part(f, h, s)
  BY DEF Adds
<1>5. s # {}
  BY <1>4 DEF Part
<1>. DEFINE t == s \ {Any(s)}
<1>6. Cardinality(t) \in Nat /\ Cardinality(s) = Cardinality(t) + 1
  BY <1>1, <1>5, AnyIsIn, TakenOut
<1>7. t \notin Ill
  <2>. HIDE DEF Ill, t
  <2>. QED BY <1>3, <1>6
<1>8. g[t] = h[t]
  BY <1>4, <1>7
<1>. QED BY <1>4, <1>5, <1>8 DEF Part

LEMMA TotalIs ==
    ASSUME NEW f, NEW S, IsFiniteSet(S), NEW g, Adds(f, S, g), NEW s \in SUBSET S
    PROVE  Total(f, s) = g[s]
<1>1. PICK h : h = CHOOSE k : Adds(f, s, k)
  OBVIOUS
<1>2. Total(f, s) = h[s]
  BY <1>1 DEF Total, MapThenSumSet, MapThenFoldSet, Adds, Any, Part
<1>3. IsFiniteSet(s)
  BY FS_Subset
<1>4. Adds(f, s, h)
  BY <1>1, <1>3, AddsExists
<1>5. s \in (SUBSET S) \cap (SUBSET s)
  OBVIOUS
<1>. QED BY <1>2, <1>4, <1>5, AddsAgree

LEMMA TotalEmpty == ASSUME NEW f PROVE Total(f, {}) = 0
<1>1. IsFiniteSet({})
  BY FS_EmptySet
<1>2. PICK g : Adds(f, {}, g)
  BY <1>1, AddsExists
<1>3. Total(f, {}) = g[{}]
  BY <1>1, <1>2, TotalIs
<1>4. g[{}] = 0
  BY <1>2 DEF Adds, Part
<1>. QED BY <1>3, <1>4

\* As the sum takes a set apart.
LEMMA TotalPart ==
    ASSUME NEW f, NEW S, IsFiniteSet(S), S # {}
    PROVE  Total(f, S) = f[Any(S)] + Total(f, S \ {Any(S)})
<1>1. PICK g : Adds(f, S, g)
  BY AddsExists
<1>2. S \in SUBSET S /\ S \ {Any(S)} \in SUBSET S
  OBVIOUS
<1>3. Total(f, S) = g[S] /\ Total(f, S \ {Any(S)}) = g[S \ {Any(S)}]
  BY <1>1, <1>2, TotalIs
<1>4. g[S] = Part(f, g, S)
  BY <1>1, <1>2 DEF Adds
<1>. QED BY <1>3, <1>4 DEF Part

LEMMA TotalInt ==
    ASSUME NEW f, NEW S, IsFiniteSet(S), \A x \in S : f[x] \in Int
    PROVE  Total(f, S) \in Int
<1>. DEFINE Ill == {s \in SUBSET S : Total(f, s) \notin Int}
<1>1. \A s \in Ill : IsFiniteSet(s)
  BY FS_Subset
<1>2. SUFFICES ASSUME Ill # {} PROVE FALSE
  OBVIOUS
<1>3. PICK s \in Ill : \A t \in Ill : Cardinality(s) <= Cardinality(t)
  <2>. HIDE DEF Ill
  <2>. QED BY <1>1, <1>2, SmallestSet
<1>4. s # {}
  BY TotalEmpty
<1>. DEFINE t == s \ {Any(s)}
<1>5. Any(s) \in s /\ IsFiniteSet(s) /\ s \subseteq S
  BY <1>1, <1>4, AnyIsIn
<1>6. Cardinality(t) \in Nat /\ Cardinality(s) = Cardinality(t) + 1
  BY <1>5, TakenOut
<1>7. Total(f, t) \in Int
  BY <1>3, <1>5, <1>6
<1>8. Total(f, s) = f[Any(s)] + Total(f, t)
  BY <1>4, <1>5, TotalPart
<1>9. f[Any(s)] \in Int
  BY <1>5
<1>. QED BY <1>7, <1>8, <1>9

\* In whatever order.
LEMMA TotalWithout ==
    ASSUME NEW f, NEW S, IsFiniteSet(S), \A x \in S : f[x] \in Int, NEW x \in S
    PROVE  Total(f, S) = f[x] + Total(f, S \ {x})
<1>. DEFINE Fine(s) == \A y \in s : Total(f, s) = f[y] + Total(f, s \ {y})
            Ill == {s \in SUBSET S : ~Fine(s)}
<1>1. \A s \in Ill : IsFiniteSet(s)
  BY FS_Subset
<1>2. SUFFICES ASSUME Ill # {} PROVE FALSE
  OBVIOUS
<1>3. PICK s \in Ill : \A t \in Ill : Cardinality(s) <= Cardinality(t)
  <2>. HIDE DEF Ill
  <2>. QED BY <1>1, <1>2, SmallestSet
<1>4. s \subseteq S /\ IsFiniteSet(s) /\ ~Fine(s)
  BY <1>1
<1>5. PICK y \in s : Total(f, s) # f[y] + Total(f, s \ {y})
  BY <1>4
<1>. DEFINE c == Any(s)
<1>6. c \in s /\ Total(f, s) = f[c] + Total(f, s \ {c})
  BY <1>4, AnyIsIn, TotalPart
<1>. HIDE DEF c
<1>7. y # c
  BY <1>5, <1>6
<1>8. ASSUME NEW z \in s PROVE Fine(s \ {z})
  <2>1. Cardinality(s \ {z}) \in Nat /\ Cardinality(s) = Cardinality(s \ {z}) + 1
    BY <1>4, TakenOut
  <2>2. s \ {z} \notin Ill
    <3>. HIDE DEF Ill
    <3>. QED BY <1>3, <2>1
  <2>. QED BY <1>4, <2>2
<1>9. Total(f, s \ {c}) = f[y] + Total(f, (s \ {c}) \ {y})
        /\ Total(f, s \ {y}) = f[c] + Total(f, (s \ {y}) \ {c})
  BY <1>6, <1>7, <1>8
<1>10. Total(f, (s \ {c}) \ {y}) = Total(f, (s \ {y}) \ {c})
  <2>1. (s \ {c}) \ {y} = (s \ {y}) \ {c}
    OBVIOUS
  <2>. QED BY <2>1
<1>11. f[y] \in Int /\ f[c] \in Int
  BY <1>4, <1>6
<1>12. Total(f, (s \ {c}) \ {y}) \in Int
  <2>1. IsFiniteSet((s \ {c}) \ {y}) /\ (s \ {c}) \ {y} \subseteq S
    BY <1>4, FS_Subset
  <2>. QED BY <2>1, TotalInt
<1>. QED BY <1>5, <1>6, <1>9, <1>10, <1>11, <1>12

LEMMA TotalSame ==
    ASSUME NEW f, NEW g, NEW S, IsFiniteSet(S), \A x \in S : f[x] = g[x]
    PROVE  Total(f, S) = Total(g, S)
<1>. DEFINE Ill == {s \in SUBSET S : Total(f, s) # Total(g, s)}
<1>1. \A s \in Ill : IsFiniteSet(s)
  BY FS_Subset
<1>2. SUFFICES ASSUME Ill # {} PROVE FALSE
  OBVIOUS
<1>3. PICK s \in Ill : \A t \in Ill : Cardinality(s) <= Cardinality(t)
  <2>. HIDE DEF Ill
  <2>. QED BY <1>1, <1>2, SmallestSet
<1>4. s # {}
  BY TotalEmpty
<1>. DEFINE t == s \ {Any(s)}
<1>5. Any(s) \in s /\ IsFiniteSet(s) /\ s \subseteq S
  BY <1>1, <1>4, AnyIsIn
<1>6. Cardinality(t) \in Nat /\ Cardinality(s) = Cardinality(t) + 1
  BY <1>5, TakenOut
<1>7. Total(f, t) = Total(g, t)
  <2>1. t \notin Ill
    <3>. HIDE DEF Ill, t
    <3>. QED BY <1>3, <1>6
  <2>. QED BY <1>5, <2>1
<1>8. Total(f, s) = f[Any(s)] + Total(f, t) /\ Total(g, s) = g[Any(s)] + Total(g, t)
  BY <1>4, <1>5, TotalPart
<1>. QED BY <1>5, <1>7, <1>8

\* One number changes.
LEMMA TotalMoves ==
    ASSUME NEW f, NEW g, NEW S, IsFiniteSet(S), \A y \in S : f[y] \in Int /\ g[y] \in Int, NEW x \in S,
           \A y \in S \ {x} : f[y] = g[y]
    PROVE  Total(g, S) = Total(f, S) + (g[x] - f[x])
<1>1. Total(f, S) = f[x] + Total(f, S \ {x}) /\ Total(g, S) = g[x] + Total(g, S \ {x})
  BY TotalWithout
<1>2. IsFiniteSet(S \ {x})
  BY FS_Subset
<1>3. Total(f, S \ {x}) = Total(g, S \ {x}) /\ Total(f, S \ {x}) \in Int
  BY <1>2, TotalSame, TotalInt
<1>. QED BY <1>1, <1>3

\* A sum of smaller numbers is smaller.
LEMMA TotalAtMost ==
    ASSUME NEW f, NEW g, NEW S, IsFiniteSet(S), \A x \in S : f[x] \in Int /\ g[x] \in Int
             /\ f[x] <= g[x]
    PROVE  Total(f, S) <= Total(g, S)
<1>. DEFINE Ill == {s \in SUBSET S : ~(Total(f, s) <= Total(g, s))}
<1>1. \A s \in Ill : IsFiniteSet(s)
  BY FS_Subset
<1>2. SUFFICES ASSUME Ill # {} PROVE FALSE
  OBVIOUS
<1>3. PICK s \in Ill : \A t \in Ill : Cardinality(s) <= Cardinality(t)
  <2>. HIDE DEF Ill
  <2>. QED BY <1>1, <1>2, SmallestSet
<1>4. s # {}
  <2>1. Total(f, {}) = 0 /\ Total(g, {}) = 0 /\ 0 <= 0
    BY TotalEmpty
  <2>. QED BY <2>1
<1>. DEFINE t == s \ {Any(s)}
<1>5. Any(s) \in s /\ IsFiniteSet(s) /\ s \subseteq S
  BY <1>1, <1>4, AnyIsIn
<1>6. Cardinality(t) \in Nat /\ Cardinality(s) = Cardinality(t) + 1
  BY <1>5, TakenOut
<1>7. Total(f, t) <= Total(g, t)
  <2>1. t \notin Ill
    <3>. HIDE DEF Ill, t
    <3>. QED BY <1>3, <1>6
  <2>. QED BY <1>5, <2>1
<1>8. Total(f, s) = f[Any(s)] + Total(f, t) /\ Total(g, s) = g[Any(s)] + Total(g, t)
  BY <1>4, <1>5, TotalPart
<1>9. Total(f, t) \in Int /\ Total(g, t) \in Int
  <2>1. IsFiniteSet(t) /\ \A x \in t : f[x] \in Int /\ g[x] \in Int
    BY <1>5, FS_Subset
  <2>. HIDE DEF t
  <2>. QED BY <2>1, TotalInt
<1>10. f[Any(s)] \in Int /\ g[Any(s)] \in Int /\ f[Any(s)] <= g[Any(s)]
  BY <1>5
<1>. HIDE DEF t
<1>11. Total(f, s) <= Total(g, s)
  BY <1>7, <1>8, <1>9, <1>10
<1>. QED BY <1>11

\* Numbers that are all the same.
LEMMA TotalEqual ==
    ASSUME NEW f, NEW S, IsFiniteSet(S), NEW n \in Nat, \A x \in S : f[x] = n
    PROVE  Total(f, S) = n * Cardinality(S)
<1>. DEFINE Ill == {s \in SUBSET S : Total(f, s) # n * Cardinality(s)}
<1>1. \A s \in Ill : IsFiniteSet(s)
  BY FS_Subset
<1>2. SUFFICES ASSUME Ill # {} PROVE FALSE
  OBVIOUS
<1>3. PICK s \in Ill : \A t \in Ill : Cardinality(s) <= Cardinality(t)
  <2>. HIDE DEF Ill
  <2>. QED BY <1>1, <1>2, SmallestSet
<1>4. s # {}
  <2>1. Total(f, {}) = 0 /\ Cardinality({}) = 0
    BY TotalEmpty, FS_EmptySet
  <2>2. n * 0 = 0
    OBVIOUS
  <2>. QED BY <2>1, <2>2
<1>. DEFINE t == s \ {Any(s)}
<1>5. Any(s) \in s /\ IsFiniteSet(s) /\ s \subseteq S
  BY <1>1, <1>4, AnyIsIn
<1>6. Cardinality(t) \in Nat /\ Cardinality(s) = Cardinality(t) + 1
  BY <1>5, TakenOut
<1>7. Total(f, t) = n * Cardinality(t)
  <2>1. t \notin Ill
    <3>. HIDE DEF Ill, t
    <3>. QED BY <1>3, <1>6
  <2>. QED BY <1>5, <2>1
<1>8. Total(f, s) = f[Any(s)] + Total(f, t) /\ f[Any(s)] = n
  BY <1>4, <1>5, TotalPart
<1>9. \A k \in Nat : n * (k + 1) = n + n * k
  OBVIOUS
<1>. HIDE DEF t
<1>10. Total(f, s) = n * Cardinality(s)
  BY <1>6, <1>7, <1>8, <1>9
<1>. QED BY <1>10

USE ItemsAssumption

\* What ListsAgree says of one player.
Agrees(p) ==
    /\ saved[p] = told[p]
    /\ Changing(p) = {} /\ p \in online => record[p] = saved[p]
    /\ \A s \in Changing(p) :
          /\ Changing(p) = {s}
          /\ scripts[s].gen = login[p]
          /\ scripts[s].list = Plus(record[p], What(scripts[s]), Delta(scripts[s]))
          /\ saved[p] = IF scripts[s].stage = "set" THEN scripts[s].list ELSE record[p]

LEMMA ListsAgreeIsAgrees == ListsAgree <=> \A p \in Players \ doubtful : Agrees(p)
BY DEF ListsAgree, Agrees

LEMMA NextListsAgree == (\A p \in Players \ doubtful' : Agrees(p)') => ListsAgree'
BY DEF ListsAgree, Agrees

-----------------------------------------------------------------------------
(* Types.                                                                    *)

LEMMA IdleJob == Idle \in Jobs
<1>1. NoRequest \in Requested
  BY DEF NoRequest, Requested
<1>. QED
  BY <1>1 DEF Idle, At, Jobs, Nothing

LEMMA AtJob ==
    ASSUME NEW r \in Requested, NEW leg \in ItemLegs \cup CashLegs \cup {"wait", "done"},
           NEW stage \in {"read", "save", "set", "book", "wait", "done", "none"},
           NEW list \in [Classes -> Int], NEW gen \in Nat
    PROVE  At(r, leg, stage, list, gen) \in Jobs
BY DEF At, Jobs

LEMMA StageType ==
    \A leg \in ItemLegs \cup CashLegs \cup {"wait", "done"} :
        Stage(leg) \in {"read", "save", "set", "book", "wait", "done", "none"}
BY DEF Stage, ItemLegs, CashLegs

LEMMA NothingType == Nothing \in [Classes -> Int]
BY DEF Nothing

LEMMA PlusType ==
    ASSUME NEW items \in [Classes -> Int], NEW c \in Classes, NEW n \in Int
    PROVE  Plus(items, c, n) \in [Classes -> Int]
BY DEF Plus

\* A script that moves on, or ends, is again a job.
LEMMA GotoType ==
    ASSUME scripts \in [Scripts -> Jobs], NEW s \in Scripts, NEW j, j.ask \in Requested,
           NEW leg \in ItemLegs \cup CashLegs \cup {"wait", "done"}, Goto(s, j, leg)
    PROVE  scripts' \in [Scripts -> Jobs]
<1>1. At(j.ask, leg, Stage(leg), Nothing, 0) \in Jobs
  BY AtJob, StageType, NothingType
<1>. QED
  BY <1>1, IdleJob DEF Goto

LEMMA AnsweredType ==
    ASSUME NEW a, NEW b, NEW c, faults \in 0..MaxFaults, Answered(a, b, c)
    PROVE  faults' \in 0..MaxFaults
BY DEF Answered, Bad

LEMMA JobFields ==
    ASSUME NEW j \in Jobs
    PROVE  /\ j.ask \in Requested /\ j.ask.n \in Nat /\ j.ask.class \in Classes
           /\ Whose(j) \in Players /\ What(j) \in Classes /\ Delta(j) \in Int
           /\ OnOk(j) \in ItemLegs \cup CashLegs \cup {"wait", "done"}
           /\ OnRefusal(j) \in ItemLegs \cup CashLegs \cup {"wait", "done"}
           /\ j.leg \in ItemLegs \cup CashLegs \cup {"wait", "done"}
           /\ j.list \in [Classes -> Int] /\ j.gen \in Nat
BY DEF Jobs, Requested, Whose, What, Delta, OnOk, OnRefusal, ItemLegs, CashLegs

\* The conjuncts of TypeOK that one group of variables makes up.
LEMMA InitTypes == Init => TypeOK
<1>. SUFFICES ASSUME Init PROVE TypeOK
  OBVIOUS
<1>1. Nothing \in [Classes -> Int]
  BY NothingType
<1>2. Cardinality(Players) \in Nat
  BY FS_CardinalityType
<1>3. /\ InitItems * Cardinality(Players) \in Int
      /\ InitCash * Cardinality(Players) \in Int
  BY <1>2
<1>4. /\ record \in Lists /\ saved \in Lists /\ told \in Lists
  BY DEF Init, Lists
<1>5. /\ purse \in [Players -> Int] /\ pocket \in [Players -> Int] /\ toldCash \in [Players -> Int]
  BY DEF Init
<1>6. /\ stock \in [Containers -> [Classes -> Int]] /\ boxCash \in [Containers -> Int]
      /\ trunkSaved \in [Trunks -> [items : [Classes -> Int], cash : Int]]
  BY <1>1 DEF Init
<1>7. scripts \in [Scripts -> Jobs]
  BY IdleJob DEF Init
<1>8. issued \in [Classes -> Int] /\ issuedCash \in Int
  BY <1>3 DEF Init
<1>9. /\ online \subseteq Players /\ login \in [Players -> Nat] /\ open \subseteq Bags
           /\ busy \subseteq Players
      /\ requests \in 0..MaxRequests /\ faults \in 0..MaxFaults
           /\ doubtful \subseteq Players \cup Trunks
  BY DEF Init
<1>. QED
  BY <1>4, <1>5, <1>6, <1>7, <1>8, <1>9 DEF TypeOK

LEMMA InitAgrees == Init => ListsAgree
<1>. SUFFICES ASSUME Init PROVE ListsAgree
  OBVIOUS
<1>1. \A s \in Scripts : scripts[s].stage = "none"
  BY DEF Init, Idle, At
<1>2. \A p \in Players : Changing(p) = {}
  BY <1>1 DEF Changing
<1>3. \A p \in Players : saved[p] = told[p] /\ record[p] = saved[p]
  BY DEF Init
<1>. QED
  BY <1>2, <1>3 DEF ListsAgree

-----------------------------------------------------------------------------
(* What a step leaves alone.                                                 *)

\* A step that touches nothing of p's leaves what ListsAgree says of p.
LEMMA Kept ==
    ASSUME NEW p \in Players, Agrees(p),
           Changing(p)' = Changing(p), \A t \in Changing(p) : scripts'[t] = scripts[t],
           record'[p] = record[p], saved'[p] = saved[p], told'[p] = told[p], login'[p] = login[p],
           p \in online' => p \in online
    PROVE  Agrees(p)'
<1>1. saved'[p] = told'[p]
  BY DEF Agrees
<1>2. Changing(p)' = {} /\ p \in online' => record'[p] = saved'[p]
  BY DEF Agrees
<1>3. ASSUME NEW t \in Changing(p)'
      PROVE  /\ Changing(p)' = {t}
             /\ scripts'[t].gen = login'[p]
             /\ scripts'[t].list = Plus(record[p], What(scripts[t]), Delta(scripts[t]))'
             /\ saved'[p] = IF scripts'[t].stage = "set" THEN scripts'[t].list ELSE record'[p]
  <2>1. /\ Changing(p) = {t} /\ scripts[t].gen = login[p]
        /\ scripts[t].list = Plus(record[p], What(scripts[t]), Delta(scripts[t]))
        /\ saved[p] = IF scripts[t].stage = "set" THEN scripts[t].list ELSE record[p]
    BY <1>3 DEF Agrees
  <2>2. scripts'[t] = scripts[t]
    BY <1>3
  <2>3. Plus(record[p], What(scripts[t]), Delta(scripts[t]))' = Plus(record[p], What(scripts[t]),
          Delta(scripts[t]))
    BY <2>2 DEF Plus, What, Delta
  <2>. QED
    BY <2>1, <2>2, <2>3
<1>. QED
  BY <1>1, <1>2, <1>3 DEF Agrees

\* A script that is moved to a leg where it holds no list changes nobody's.
LEMMA Quiet ==
    ASSUME scripts \in [Scripts -> Jobs], NEW s \in Scripts, NEW x,
           scripts' = [scripts EXCEPT ![s] = x],
           ~(x.leg \in ItemLegs /\ x.stage \in {"save", "set"})
    PROVE  /\ \A p \in Players : Changing(p)' = Changing(p) \ {s}
           /\ \A t \in Scripts \ {s} : scripts'[t] = scripts[t]
<1>1. \A t \in Scripts \ {s} : scripts'[t] = scripts[t]
  OBVIOUS
<1>2. scripts'[s] = x
  OBVIOUS
<1>3. ASSUME NEW p \in Players, NEW t \in Scripts
      PROVE  t \in Changing(p)' <=> t \in Changing(p) /\ t # s
  BY <1>1, <1>2 DEF Changing, Whose
<1>4. ASSUME NEW p \in Players
      PROVE  Changing(p)' \subseteq Scripts /\ Changing(p) \subseteq Scripts
  BY DEF Changing
<1>. QED
  BY <1>1, <1>3, <1>4

\* Goto leads to such a leg: a list is read first, a cash leg holds none.
LEMMA GotoQuiet ==
    ASSUME scripts \in [Scripts -> Jobs], NEW s \in Scripts, NEW j, NEW leg, Goto(s, j, leg)
    PROVE  /\ \A p \in Players : Changing(p)' = Changing(p) \ {s}
           /\ \A t \in Scripts \ {s} : scripts'[t] = scripts[t]
<1>. DEFINE x == IF leg = "done" THEN Idle ELSE At(j.ask, leg, Stage(leg), Nothing, 0)
<1>1. scripts' = [scripts EXCEPT ![s] = x]
  BY DEF Goto
<1>2. ~(x.leg \in ItemLegs /\ x.stage \in {"save", "set"})
  BY DEF Idle, At, Stage, ItemLegs, CashLegs
<1>. HIDE DEF x
<1>. QED
  BY <1>1, <1>2, Quiet

\* A script that held no list moves on, and no list or record is touched.
LEMMA QuietAgrees ==
    ASSUME ListsAgree, NEW s \in Scripts,
           ~(scripts[s].leg \in ItemLegs /\ scripts[s].stage \in {"save", "set"}),
           \A p \in Players : Changing(p)' = Changing(p) \ {s},
           \A t \in Scripts \ {s} : scripts'[t] = scripts[t],
           UNCHANGED <<online, login, record, saved, told>>, doubtful \subseteq doubtful'
    PROVE  ListsAgree'
<1>1. \A p \in Players : s \notin Changing(p)
  BY DEF Changing
<1>2. \A p \in Players : Changing(p)' = Changing(p)
  <2>1. \A S : s \notin S => S \ {s} = S
    OBVIOUS
  <2>. QED
    BY <1>1, <2>1
<1>3. ASSUME NEW p \in Players \ doubtful'
      PROVE  Agrees(p)'
  <2>1. Agrees(p)
    BY ListsAgreeIsAgrees
  <2>2. \A t \in Changing(p) : scripts'[t] = scripts[t]
    BY <1>1 DEF Changing
  <2>. QED
    BY <1>2, <2>1, <2>2, Kept
<1>. QED
  BY <1>3, NextListsAgree

\* A list changed at once, in no step of which another script was half way.
LEMMA ChangeListAgrees ==
    ASSUME TypeOK, ListsAgree, NEW q \in online, NEW c \in Classes, NEW d \in Int,
           NEW answer \in {"OK", "refused", "replyLost"},
           ChangeList(q, c, d, answer), UNCHANGED <<online, login, scripts>>,
           d = 0 => answer = "OK",
           doubtful \subseteq doubtful',
           d # 0 /\ Changing(q) # {} => q \in doubtful',
           answer = "replyLost" => q \in doubtful'
    PROVE  ListsAgree'
<1>1. record \in Lists /\ saved \in Lists /\ told \in Lists /\ q \in Players
  BY DEF TypeOK
<1>2. \A p \in Players : Changing(p)' = Changing(p)
  BY DEF Changing, Whose
<1>3. ASSUME NEW p \in Players \ doubtful', p # q
      PROVE  Agrees(p)'
  <2>1. Agrees(p)
    BY ListsAgreeIsAgrees
  <2>2. record'[p] = record[p] /\ saved'[p] = saved[p] /\ told'[p] = told[p]
    BY <1>1, <1>3 DEF ChangeList, Lists
  <2>. QED
    BY <1>2, <2>1, <2>2, Kept
<1>4. ASSUME q \notin doubtful', d = 0
      PROVE  Agrees(q)'
  <2>1. Agrees(q)
    BY <1>1, <1>4, ListsAgreeIsAgrees
  <2>2. \A l \in [Classes -> Int] : Plus(l, c, 0) = l
    BY DEF Plus
  <2>3. record'[q] = record[q] /\ saved'[q] = saved[q] /\ told'[q] = told[q]
    BY <1>1, <1>4, <2>2 DEF ChangeList, Lists
  <2>. QED
    BY <1>1, <1>2, <2>1, <2>3, Kept
<1>5. ASSUME q \notin doubtful', d # 0
      PROVE  Agrees(q)'
  <2>1. Agrees(q) /\ Changing(q) = {} /\ answer # "replyLost"
    BY <1>1, <1>5, ListsAgreeIsAgrees
  <2>2. record[q] = saved[q] /\ saved[q] = told[q]
    BY <2>1 DEF Agrees
  <2>3. record'[q] = saved'[q] /\ saved'[q] = told'[q]
    BY <1>1, <1>5, <2>1, <2>2 DEF ChangeList, Lists
  <2>. QED
    BY <1>1, <1>2, <2>1, <2>3 DEF Agrees
<1>. QED
  BY <1>3, <1>4, <1>5, NextListsAgree

-----------------------------------------------------------------------------
(* Each step keeps ListsAgree.                                               *)

LEMMA StartAgrees ==
    ASSUME TypeOK, ListsAgree, NEW s \in Scripts, NEW kind, NEW p \in Players, NEW q \in Players,
           NEW c \in Classes, NEW n \in Nat, Start(s, kind, p, q, c, n)
    PROVE  ListsAgree'
<1>. DEFINE x == At([kind |-> kind, who |-> p, other |-> q, class |-> c, n |-> n, seen |-> login],
                    FirstLeg(kind), Stage(FirstLeg(kind)), Nothing, 0)
<1>1. scripts' = [scripts EXCEPT ![s] = x] /\ scripts[s].stage = "none"
      /\ UNCHANGED <<online, login, record, saved, told, doubtful>>
  BY DEF Start, db, ghosts
<1>2. ~(x.leg \in ItemLegs /\ x.stage \in {"save", "set"})
  BY DEF At, Stage, ItemLegs, CashLegs
<1>3. scripts \in [Scripts -> Jobs]
  BY DEF TypeOK
<1>. HIDE DEF x
<1>4. /\ \A r \in Players : Changing(r)' = Changing(r) \ {s}
      /\ \A t \in Scripts \ {s} : scripts'[t] = scripts[t]
  BY <1>1, <1>2, <1>3, Quiet
<1>. QED
  BY <1>1, <1>4, QuietAgrees

LEMMA WaitOverAgrees ==
    ASSUME TypeOK, ListsAgree, NEW s \in Scripts, WaitOver(s)
    PROVE  ListsAgree'
<1>1. /\ scripts[s].stage = "wait"
      /\ UNCHANGED <<online, login, record, saved, told, doubtful>>
      /\ \E j, leg : Goto(s, j, leg)
  BY DEF WaitOver, db, ghosts
<1>2. scripts \in [Scripts -> Jobs]
  BY DEF TypeOK
<1>3. /\ \A p \in Players : Changing(p)' = Changing(p) \ {s}
      /\ \A t \in Scripts \ {s} : scripts'[t] = scripts[t]
  BY <1>1, <1>2, GotoQuiet
<1>. QED
  BY <1>1, <1>3, QuietAgrees

LEMMA BookAgrees ==
    ASSUME TypeOK, ListsAgree, NEW s \in Scripts, Book(s)
    PROVE  ListsAgree'
<1>1. /\ scripts[s].stage = "book"
      /\ UNCHANGED <<online, login, record, saved, told, doubtful>>
      /\ \E j, leg : Goto(s, j, leg)
  BY DEF Book, db, ghosts
<1>2. scripts \in [Scripts -> Jobs]
  BY DEF TypeOK
<1>3. /\ \A p \in Players : Changing(p)' = Changing(p) \ {s}
      /\ \A t \in Scripts \ {s} : scripts'[t] = scripts[t]
  BY <1>1, <1>2, GotoQuiet
<1>. QED
  BY <1>1, <1>3, QuietAgrees

LEMMA SaveCashAgrees ==
    ASSUME TypeOK, ListsAgree, NEW s \in Scripts, SaveCash(s)
    PROVE  ListsAgree'
<1>. DEFINE x == At(scripts[s].ask, scripts[s].leg, "book", Nothing, 0)
<1>1. /\ scripts[s].leg \in CashLegs
      /\ UNCHANGED <<online, login, record, saved, told>>
      /\ doubtful \subseteq doubtful'
      /\ scripts' = [scripts EXCEPT ![s] = x] \/ \E j, leg : Goto(s, j, leg)
  BY DEF SaveCash
<1>2. scripts \in [Scripts -> Jobs]
  BY DEF TypeOK
<1>3. ~(x.leg \in ItemLegs /\ x.stage \in {"save", "set"})
  BY DEF At
<1>4. scripts[s].leg \notin ItemLegs
  BY <1>1 DEF ItemLegs, CashLegs
<1>. HIDE DEF x
<1>5. /\ \A p \in Players : Changing(p)' = Changing(p) \ {s}
      /\ \A t \in Scripts \ {s} : scripts'[t] = scripts[t]
  BY <1>1, <1>2, <1>3, Quiet, GotoQuiet
<1>. QED
  BY <1>1, <1>4, <1>5, QuietAgrees

\* Players whose list the script is not changing keep what ListsAgree says.
LEMMA OthersAgree ==
    ASSUME TypeOK, ListsAgree, NEW s \in Scripts, NEW q \in Players, Whose(scripts[s]) = q,
           \A p \in Players \ {q} : Changing(p)' = Changing(p) \ {s},
           \A t \in Scripts \ {s} : scripts'[t] = scripts[t],
           \A p \in Players \ {q} : record'[p] = record[p] /\ saved'[p] = saved[p]
             /\ told'[p] = told[p],
           UNCHANGED <<online, login>>, doubtful \subseteq doubtful'
    PROVE  \A p \in Players \ (doubtful' \cup {q}) : Agrees(p)'
<1>. SUFFICES ASSUME NEW p \in Players, p \notin doubtful', p # q
              PROVE  Agrees(p)'
  OBVIOUS
<1>1. s \notin Changing(p)
  BY DEF Changing
<1>2. Changing(p)' = Changing(p)
  <2>1. \A S : s \notin S => S \ {s} = S
    OBVIOUS
  <2>. QED
    BY <1>1, <2>1
<1>3. Agrees(p)
  BY ListsAgreeIsAgrees
<1>4. \A t \in Changing(p) : scripts'[t] = scripts[t]
  BY <1>1 DEF Changing
<1>. QED
  BY <1>2, <1>3, <1>4, Kept

\* A list is read: nobody else was half way, so the record is what is saved.
LEMMA ReadListAgrees ==
    ASSUME TypeOK, ListsAgree, NEW s \in Scripts, ReadList(s)
    PROVE  ListsAgree'
<1>. DEFINE j == scripts[s]
<1>1. scripts \in [Scripts -> Jobs] /\ j \in Jobs
  BY DEF TypeOK
<1>2. PICK q \in Players : q = Whose(j)
  BY <1>1, JobFields
<1>. DEFINE x == At(j.ask, j.leg, "save", Plus(record[q], What(j), Delta(j)), login[q])
<1>3. /\ j.stage = "read"
      /\ UNCHANGED <<online, login, record, saved, told>>
      /\ doubtful \subseteq doubtful'
  BY DEF ReadList, db
<1>4. CASE \E i, leg : Goto(s, i, leg)
  <2>1. /\ \A p \in Players : Changing(p)' = Changing(p) \ {s}
        /\ \A t \in Scripts \ {s} : scripts'[t] = scripts[t]
    BY <1>1, <1>4, GotoQuiet
  <2>. QED
    BY <1>3, <2>1, QuietAgrees
<1>5. CASE q \in online /\ scripts' = [scripts EXCEPT ![s] = x]
             /\ doubtful' = doubtful \cup Overlapped({q})
  <2>1. \A t \in Scripts \ {s} : scripts'[t] = scripts[t]
    BY <1>1, <1>5
  <2>2. scripts'[s] = x
    BY <1>1, <1>5
  <2>3. x.ask = j.ask /\ x.leg = j.leg /\ x.stage = "save" /\ x.gen = login[q]
        /\ x.list = Plus(record[q], What(j), Delta(j))
    BY DEF At
  <2>4. Whose(x) = q /\ What(x) = What(j) /\ Delta(x) = Delta(j)
    BY <1>2, <2>3 DEF Whose, What, Delta
  <2>. HIDE DEF x, j
  <2>5. ASSUME NEW p \in Players \ {q}
        PROVE  Changing(p)' = Changing(p) \ {s}
    <3>1. \A t \in Scripts : t \in Changing(p)' <=> t \in Changing(p) /\ t # s
      BY <2>1, <2>2, <2>4 DEF Changing, Whose
    <3>2. Changing(p)' \subseteq Scripts /\ Changing(p) \subseteq Scripts
      BY DEF Changing
    <3>. QED
      BY <3>1, <3>2
  <2>6. \A p \in Players \ (doubtful' \cup {q}) : Agrees(p)'
    BY <1>2, <1>3, <2>1, <2>5, OthersAgree DEF j
  <2>7. ASSUME q \notin doubtful'
        PROVE  Agrees(q)'
    <3>1. Changing(q) = {} /\ Agrees(q)
      BY <1>2, <1>5, <2>7, ListsAgreeIsAgrees DEF Overlapped
    <3>2. saved[q] = told[q] /\ record[q] = saved[q]
      BY <1>5, <3>1 DEF Agrees
    <3>3. Changing(q)' \subseteq {s}
      <4>1. \A t \in Scripts \ {s} : t \notin Changing(q)'
        BY <2>1, <3>1 DEF Changing, Whose
      <4>. QED
        BY <4>1 DEF Changing
    <3>4. What(scripts[s])' = What(x) /\ Delta(scripts[s])' = Delta(x)
      BY <2>2 DEF What, Delta
    <3>5. Plus(record[q], What(scripts[s]), Delta(scripts[s]))' = Plus(record[q], What(j), Delta(j))
      BY <1>3, <2>4, <3>4 DEF Plus
    <3>. QED
      BY <1>3, <2>2, <2>3, <3>2, <3>3, <3>5 DEF Agrees
  <2>. QED
    BY <2>6, <2>7, NextListsAgree
<1>. QED
  BY <1>2, <1>4, <1>5 DEF ReadList

\* The list a script holds and what ListsAgree says of it.
LEMMA HeldList ==
    ASSUME NEW s \in Scripts, NEW q \in Players, q = Whose(scripts[s]), Agrees(q),
           scripts[s].leg \in ItemLegs, scripts[s].stage \in {"save", "set"}
    PROVE  /\ Changing(q) = {s} /\ saved[q] = told[q] /\ scripts[s].gen = login[q]
           /\ scripts[s].list = Plus(record[q], What(scripts[s]), Delta(scripts[s]))
           /\ saved[q] = IF scripts[s].stage = "set" THEN scripts[s].list ELSE record[q]
<1>1. s \in Changing(q)
  BY DEF Changing
<1>. QED
  BY <1>1 DEF Agrees

\* The list is saved; a refusal leaves record and database as they were.
LEMMA SaveListAgrees ==
    ASSUME TypeOK, ListsAgree, NEW s \in Scripts, SaveList(s)
    PROVE  ListsAgree'
<1>. DEFINE j == scripts[s]
<1>1. scripts \in [Scripts -> Jobs] /\ j \in Jobs /\ saved \in Lists /\ told \in Lists
  BY DEF TypeOK
<1>2. PICK q \in Players : q = Whose(j)
  BY <1>1, JobFields
<1>. DEFINE x == At(j.ask, j.leg, "set", j.list, j.gen)
<1>3. /\ j.leg \in ItemLegs /\ j.stage = "save"
      /\ UNCHANGED <<online, login, record>>
  BY DEF SaveList
<1>4. PICK answer \in {"OK", "refused", "replyLost"} :
        /\ saved' = IF answer = "refused" THEN saved ELSE [saved EXCEPT ![q] = j.list]
        /\ doubtful' = doubtful \cup (IF answer = "replyLost" THEN {q} ELSE {})
        /\ IF answer = "OK"
           THEN /\ scripts' = [scripts EXCEPT ![s] = x]
                /\ told' = [told EXCEPT ![q] = Plus(told[q], What(j), Delta(j))]
           ELSE Goto(s, j, OnRefusal(j)) /\ told' = told
  BY <1>2 DEF SaveList
<1>5. doubtful \subseteq doubtful'
  BY <1>4
<1>6. \A p \in Players \ {q} : record'[p] = record[p] /\ saved'[p] = saved[p] /\ told'[p] = told[p]
  BY <1>1, <1>3, <1>4 DEF Lists
<1>7. ASSUME q \notin doubtful
      PROVE  /\ Changing(q) = {s} /\ saved[q] = told[q] /\ j.gen = login[q]
             /\ j.list = Plus(record[q], What(j), Delta(j)) /\ saved[q] = record[q]
  <2>1. Agrees(q)
    BY <1>7, ListsAgreeIsAgrees
  <2>. QED
    BY <1>2, <1>3, <2>1, HeldList
<1>8. CASE answer # "OK"
  <2>1. /\ \A p \in Players : Changing(p)' = Changing(p) \ {s}
        /\ \A t \in Scripts \ {s} : scripts'[t] = scripts[t]
    BY <1>1, <1>4, <1>8, GotoQuiet
  <2>2. \A p \in Players \ (doubtful' \cup {q}) : Agrees(p)'
    BY <1>2, <1>3, <1>5, <1>6, <2>1, OthersAgree
  <2>3. ASSUME q \notin doubtful'
        PROVE  Agrees(q)'
    <3>1. answer = "refused" /\ saved' = saved /\ told' = told
      BY <1>4, <1>8, <2>3
    <3>2. q \notin doubtful
      BY <1>5, <2>3
    <3>3. Changing(q)' = {}
      BY <1>7, <2>1, <3>2
    <3>4. saved'[q] = told'[q] /\ record'[q] = saved'[q]
      BY <1>3, <1>7, <3>1, <3>2
    <3>. QED
      BY <3>3, <3>4 DEF Agrees
  <2>. QED
    BY <2>2, <2>3, NextListsAgree
<1>9. CASE answer = "OK"
  <2>1. \A t \in Scripts \ {s} : scripts'[t] = scripts[t]
    BY <1>1, <1>4, <1>9
  <2>2. scripts'[s] = x
    BY <1>1, <1>4, <1>9
  <2>3. x.ask = j.ask /\ x.leg = j.leg /\ x.stage = "set" /\ x.gen = j.gen /\ x.list = j.list
    BY DEF At
  <2>4. Whose(x) = q /\ What(x) = What(j) /\ Delta(x) = Delta(j)
    BY <1>2, <2>3 DEF Whose, What, Delta
  <2>. HIDE DEF x, j
  <2>5. ASSUME NEW p \in Players \ {q}
        PROVE  Changing(p)' = Changing(p) \ {s}
    <3>1. \A t \in Scripts : t \in Changing(p)' <=> t \in Changing(p) /\ t # s
      BY <1>2, <2>1, <2>2, <2>4 DEF Changing, Whose, j
    <3>2. Changing(p)' \subseteq Scripts /\ Changing(p) \subseteq Scripts
      BY DEF Changing
    <3>. QED
      BY <3>1, <3>2
  <2>6. \A p \in Players \ (doubtful' \cup {q}) : Agrees(p)'
    BY <1>2, <1>3, <1>5, <1>6, <2>1, <2>5, OthersAgree DEF j
  <2>7. ASSUME q \notin doubtful'
        PROVE  Agrees(q)'
    <3>1. q \notin doubtful
      BY <1>5, <2>7
    <3>2. saved'[q] = j.list /\ told'[q] = j.list
      BY <1>1, <1>4, <1>7, <1>9, <3>1 DEF Lists
    <3>3. Changing(q)' \subseteq {s} /\ s \in Changing(q)'
      <4>1. \A t \in Scripts \ {s} : t \notin Changing(q)
        BY <1>7, <3>1
      <4>2. \A t \in Scripts \ {s} : t \notin Changing(q)'
        BY <2>1, <4>1 DEF Changing, Whose
      <4>3. s \in Changing(q)'
        BY <1>3, <2>2, <2>3, <2>4 DEF Changing, Whose
      <4>. QED
        BY <4>2, <4>3 DEF Changing
    <3>4. What(scripts[s])' = What(x) /\ Delta(scripts[s])' = Delta(x)
      BY <2>2 DEF What, Delta
    <3>5. Plus(record[q], What(scripts[s]), Delta(scripts[s]))' = Plus(record[q], What(j), Delta(j))
      BY <1>3, <2>4, <3>4 DEF Plus
    <3>. QED
      BY <1>3, <1>7, <2>2, <2>3, <3>1, <3>2, <3>3, <3>5 DEF Agrees
  <2>. QED
    BY <2>6, <2>7, NextListsAgree
<1>. QED
  BY <1>8, <1>9

\* The record takes the list that was saved.
LEMMA SetRecordAgrees ==
    ASSUME TypeOK, ListsAgree, NEW s \in Scripts, SetRecord(s)
    PROVE  ListsAgree'
<1>. DEFINE j == scripts[s]
<1>1. scripts \in [Scripts -> Jobs] /\ j \in Jobs /\ record \in Lists
  BY DEF TypeOK
<1>2. PICK q \in Players : q = Whose(j)
  BY <1>1, JobFields
<1>3. /\ j.leg \in ItemLegs /\ j.stage = "set"
      /\ UNCHANGED <<online, login, saved, told, doubtful>>
      /\ record' = IF j.gen = login[q] THEN [record EXCEPT ![q] = j.list] ELSE record
      /\ Goto(s, j, OnOk(j))
  BY <1>2 DEF SetRecord, db, ghosts
<1>4. \A p \in Players \ {q} : record'[p] = record[p] /\ saved'[p] = saved[p] /\ told'[p] = told[p]
  BY <1>1, <1>3 DEF Lists
<1>5. /\ \A p \in Players : Changing(p)' = Changing(p) \ {s}
      /\ \A t \in Scripts \ {s} : scripts'[t] = scripts[t]
  BY <1>1, <1>3, GotoQuiet
<1>6. \A p \in Players \ (doubtful' \cup {q}) : Agrees(p)'
  BY <1>2, <1>3, <1>4, <1>5, OthersAgree
<1>7. ASSUME q \notin doubtful'
      PROVE  Agrees(q)'
  <2>1. Agrees(q)
    BY <1>3, <1>7, ListsAgreeIsAgrees
  <2>2. Changing(q) = {s} /\ saved[q] = told[q] /\ j.gen = login[q] /\ saved[q] = j.list
    BY <1>2, <1>3, <2>1, HeldList
  <2>3. Changing(q)' = {}
    BY <1>5, <2>2
  <2>4. record'[q] = saved'[q] /\ saved'[q] = told'[q]
    BY <1>1, <1>3, <2>2 DEF Lists
  <2>. QED
    BY <2>3, <2>4 DEF Agrees
<1>. QED
  BY <1>6, <1>7, NextListsAgree

\* No list and no script is touched.
LEMMA UntouchedAgrees ==
    ASSUME ListsAgree, UNCHANGED <<login, record, saved, told, scripts>>,
           online' \subseteq online, doubtful \subseteq doubtful'
    PROVE  ListsAgree'
<1>1. \A p \in Players : Changing(p)' = Changing(p)
  BY DEF Changing, Whose
<1>2. ASSUME NEW p \in Players \ doubtful'
      PROVE  Agrees(p)'
  <2>1. Agrees(p)
    BY ListsAgreeIsAgrees
  <2>. QED
    BY <1>1, <2>1, Kept
<1>. QED
  BY <1>2, NextListsAgree

\* A transfer moves a whole number of items and of dollars.
LEMMA TransferMoves ==
    ASSUME TypeOK, NEW p \in Players, NEW k \in Containers, NEW sign \in {1, -1}, NEW c \in Classes,
           NEW n \in Nat, NEW m \in Nat, Transfer(p, k, sign, c, n, m)
    PROVE  \E d \in Int, dollars \in Int, a \in {"OK", "refused", "replyLost"},
              b \in {"OK", "refused", "commitLost"},
                t \in {"OK", "refused"} : Move(p, k, c, d, dollars, a, b, t)
<1>. DEFINE money == Greatest(0, Least(m, IF sign = 1 THEN boxCash[k] ELSE purse[p]))
<1>1. money \in Int
  BY DEF Greatest, Least, TypeOK
<1>2. PICK items \in 0..n, a \in {"OK", "refused", "replyLost"}, b \in {"OK", "refused", "commitLost"},
        t \in {"OK", "refused"} :
        Move(p, k, c, sign * items, sign * money, a, b, t)
  BY DEF Transfer
<1>. HIDE DEF money
<1>3. sign * items \in Int /\ sign * money \in Int
  BY <1>1
<1>. QED
  BY <1>2, <1>3

LEMMA TransferAgrees ==
    ASSUME TypeOK, ListsAgree, NEW p \in Players, NEW k \in Containers, NEW sign \in {1, -1},
             NEW c \in Classes,
           NEW n \in Nat, NEW m \in Nat, Transfer(p, k, sign, c, n, m)
    PROVE  ListsAgree'
<1>1. PICK d \in Int, dollars \in Int, a \in {"OK", "refused", "replyLost"},
        b \in {"OK", "refused", "commitLost"}, t \in {"OK", "refused"} :
        Move(p, k, c, d, dollars, a, b, t)
  BY TransferMoves
<1>2. p \in online /\ UNCHANGED <<online, login, scripts>>
  BY DEF Transfer
<1>3. /\ d = 0 => a = "OK"
      /\ ChangeList(p, c, d, a)
      /\ doubtful \subseteq doubtful'
      /\ MisledBy(p, a) \subseteq doubtful'
      /\ d # 0 => Overlapped({p}) \subseteq doubtful'
  BY <1>1 DEF Move
<1>4. d # 0 /\ Changing(p) # {} => p \in doubtful'
  BY <1>3 DEF Overlapped
<1>5. a = "replyLost" => p \in doubtful'
  BY <1>3 DEF MisledBy
<1>. QED
  BY <1>1, <1>2, <1>3, <1>4, <1>5, ChangeListAgrees

LEMMA ChangeAtOnceAgrees ==
    ASSUME TypeOK, ListsAgree, NEW handler, NEW d \in {1, -1}, ChangeAtOnce(handler, d)
    PROVE  ListsAgree'
<1>1. PICK p \in online, c \in Classes, answer \in {"OK", "refused", "replyLost"} :
        /\ ChangeList(p, c, d, answer)
        /\ doubtful' = doubtful \cup Overlapped({p}) \cup MisledBy(p, answer)
        /\ UNCHANGED <<online, login, scripts>>
  BY DEF ChangeAtOnce
<1>2. Changing(p) # {} => p \in doubtful'
  BY <1>1 DEF Overlapped
<1>3. answer = "replyLost" => p \in doubtful'
  BY <1>1 DEF MisledBy
<1>. QED
  BY <1>1, <1>2, <1>3, ChangeListAgrees

LEMMA StripAgrees ==
    ASSUME TypeOK, ListsAgree, Strip
    PROVE  ListsAgree'
<1>1. PICK q \in online, answer \in {"OK", "refused", "replyLost"} :
        /\ saved' = IF answer = "refused" THEN saved ELSE [saved EXCEPT ![q] = Nothing]
        /\ IF answer = "OK"
           THEN /\ record' = [record EXCEPT ![q] = Nothing]
                /\ told' = [told EXCEPT ![q] = [c \in Classes |-> told[q][c] - record[q][c]]]
           ELSE record' = record /\ told' = told
        /\ doubtful' = doubtful \cup Overlapped({q}) \cup MisledBy(q, answer)
        /\ UNCHANGED <<online, login, scripts>>
  BY DEF Strip
<1>2. record \in Lists /\ saved \in Lists /\ told \in Lists /\ q \in Players
  BY DEF TypeOK
<1>3. \A p \in Players : Changing(p)' = Changing(p)
  BY <1>1 DEF Changing, Whose
<1>4. ASSUME NEW p \in Players \ doubtful', p # q
      PROVE  Agrees(p)'
  <2>1. Agrees(p)
    BY <1>1, ListsAgreeIsAgrees
  <2>2. record'[p] = record[p] /\ saved'[p] = saved[p] /\ told'[p] = told[p]
    BY <1>1, <1>2, <1>4 DEF Lists
  <2>. QED
    BY <1>1, <1>3, <2>1, <2>2, Kept
<1>5. ASSUME q \notin doubtful'
      PROVE  Agrees(q)'
  <2>1. Agrees(q) /\ Changing(q) = {} /\ answer # "replyLost"
    BY <1>1, <1>2, <1>5, ListsAgreeIsAgrees DEF Overlapped, MisledBy
  <2>2. record[q] = saved[q] /\ saved[q] = told[q]
    BY <2>1 DEF Agrees
  <2>3. CASE answer = "refused"
    BY <1>1, <1>2, <1>3, <2>1, <2>2, <2>3 DEF Agrees
  <2>4. CASE answer = "OK"
    <3>1. record'[q] = Nothing /\ saved'[q] = Nothing
      BY <1>1, <1>2, <2>4 DEF Lists
    <3>2. told'[q] = [c \in Classes |-> told[q][c] - told[q][c]]
      BY <1>1, <1>2, <2>2, <2>4 DEF Lists
    <3>3. told'[q] = Nothing
      BY <1>2, <3>2 DEF Lists, Nothing
    <3>. QED
      BY <1>2, <1>3, <2>1, <3>1, <3>3 DEF Agrees
  <2>. QED
    BY <2>1, <2>3, <2>4
<1>. QED
  BY <1>4, <1>5, NextListsAgree

\* A record loaded while a script holds the list of the one before it is doubted.
LEMMA JoinAgrees ==
    ASSUME TypeOK, ListsAgree, Join
    PROVE  ListsAgree'
<1>1. PICK q \in Players \ online :
        /\ online' = online \cup {q}
        /\ login' = [login EXCEPT ![q] = login[q] + 1]
        /\ record' = [record EXCEPT ![q] = saved[q]]
        /\ doubtful' = doubtful \cup Overlapped({q})
        /\ UNCHANGED <<saved, told, scripts>>
  BY DEF Join, db
<1>2. record \in Lists /\ login \in [Players -> Nat]
  BY DEF TypeOK
<1>3. \A p \in Players : Changing(p)' = Changing(p)
  BY <1>1 DEF Changing, Whose
<1>4. ASSUME NEW p \in Players \ doubtful', p # q
      PROVE  Agrees(p)'
  <2>1. Agrees(p)
    BY <1>1, ListsAgreeIsAgrees
  <2>2. record'[p] = record[p] /\ login'[p] = login[p]
    BY <1>1, <1>2, <1>4 DEF Lists
  <2>. QED
    BY <1>1, <1>3, <1>4, <2>1, <2>2, Kept
<1>5. ASSUME q \notin doubtful'
      PROVE  Agrees(q)'
  <2>1. Agrees(q) /\ Changing(q) = {}
    BY <1>1, <1>5, ListsAgreeIsAgrees DEF Overlapped
  <2>2. record'[q] = saved'[q] /\ saved'[q] = told'[q]
    BY <1>1, <1>2, <2>1 DEF Lists, Agrees
  <2>. QED
    BY <1>3, <2>1, <2>2 DEF Agrees
<1>. QED
  BY <1>4, <1>5, NextListsAgree

\* A restart ends every script; what was saved is what was acknowledged.
LEMMA CrashAgrees ==
    ASSUME TypeOK, ListsAgree, Crash
    PROVE  ListsAgree'
<1>1. /\ online' = {} /\ scripts' = [s \in Scripts |-> Idle]
      /\ UNCHANGED <<saved, told, doubtful>>
  BY DEF Crash, db, ghosts
<1>2. \A p \in Players : Changing(p)' = {}
  BY <1>1 DEF Changing, Idle, At
<1>3. ASSUME NEW p \in Players \ doubtful'
      PROVE  Agrees(p)'
  <2>1. saved[p] = told[p]
    BY <1>1, ListsAgreeIsAgrees DEF Agrees
  <2>. QED
    BY <1>1, <1>2, <2>1 DEF Agrees
<1>. QED
  BY <1>3, NextListsAgree

\* Every request but giving cash starts a script the same way.
LEMMA RequestStarts ==
    ASSUME TypeOK, NEW s \in Scripts, Request(s)
    PROVE  /\ \E kind \in Scripted, p \in Players, q \in Players, c \in Classes,
                n \in Nat : Start(s, kind, p, q, c, n)
           /\ busy' \subseteq Players
<1>0. record \in Lists /\ busy \subseteq Players
        /\ \A c \in Classes, p \in Players : record[p][c] \in Int
  BY DEF TypeOK, Lists
<1>1. CASE GiveItem(s)
  BY <1>0, <1>1 DEF GiveItem, Scripted
<1>2. CASE GiveCash(s)
  BY <1>0, <1>2 DEF GiveCash, Scripted
<1>3. CASE Ask(s)
  BY <1>0, <1>3 DEF Ask, Scripted
<1>4. CASE Gather(s)
  BY <1>0, <1>4 DEF Gather, Scripted
<1>5. CASE Process(s)
  <2>1. PICK kind \in {"process", "processFree"}, p \in Players, c \in Classes :
          /\ record[p][c] >= 1 /\ Start(s, kind, p, p, c, record[p][c]) /\ busy' = busy \cup {p}
    BY <1>5 DEF Process
  <2>2. record[p][c] \in Nat
    BY <1>0, <2>1
  <2>. QED
    BY <1>0, <2>1, <2>2 DEF Scripted
<1>. QED
  BY <1>1, <1>2, <1>3, <1>4, <1>5 DEF Request

LEMMA TakeAndStore ==
    ASSUME TypeOK, Take \/ Store
    PROVE  \E handler : \E sign \in {1, -1}, p \in Players, k \in Containers, c \in Classes, n \in Nat,
             m \in Nat :
              Asked(handler) /\ Transfer(p, k, sign, c, n, m)
<1>1. open \subseteq Bags /\ \A n \in Quantities \cup {0} : n \in Nat
  BY DEF TypeOK
<1>2. CASE Take
  <2>1. PICK p \in Players, k \in open \cup Trunks, c \in Classes, n \in Quantities \cup {0},
          m \in Quantities \cup {0} :
          Asked("take") /\ Transfer(p, k, 1, c, n, m)
    BY <1>2 DEF Take
  <2>2. k \in Containers
    BY <1>1 DEF Containers
  <2>3. n \in Nat /\ m \in Nat
    BY <1>1
  <2>. QED
    BY <2>1, <2>2, <2>3
<1>3. CASE Store
  <2>1. PICK p \in Players, k \in Containers, c \in Classes, n \in Quantities \cup {0},
          m \in Quantities \cup {0} :
          Asked("store") /\ Transfer(p, k, -1, c, n, m)
    BY <1>3 DEF Store
  <2>2. n \in Nat /\ m \in Nat
    BY <1>1
  <2>. QED
    BY <2>1, <2>2
<1>. QED
  BY <1>2, <1>3

LEMMA StepAgrees ==
    ASSUME TypeOK, ListsAgree, [Next]_vars
    PROVE  ListsAgree'
<1>1. ASSUME NEW s \in Scripts, Request(s)
      PROVE  ListsAgree'
  BY <1>1, RequestStarts, StartAgrees
<1>2. ASSUME NEW s \in Scripts, Step(s)
      PROVE  ListsAgree'
  BY <1>2, WaitOverAgrees, ReadListAgrees, SaveListAgrees, SetRecordAgrees, SaveCashAgrees, BookAgrees
     DEF Step
<1>3. CASE Take \/ Store
  BY <1>3, TakeAndStore, TransferAgrees
<1>4. CASE Strip
  BY <1>4, StripAgrees
<1>5. CASE AdminGive \/ UseAtOnce
  BY <1>5, ChangeAtOnceAgrees DEF AdminGive, UseAtOnce
<1>6. CASE AdminGiveCash
  <2>1. UNCHANGED <<online, login, record, saved, told, scripts>> /\ doubtful \subseteq doubtful'
    BY <1>6 DEF AdminGiveCash
  <2>. QED
    BY <2>1, UntouchedAgrees
<1>7. CASE Expire
  <2>1. UNCHANGED <<online, login, record, saved, told, scripts, doubtful>>
    BY <1>7 DEF Expire, db
  <2>. QED
    BY <2>1, UntouchedAgrees
<1>8. CASE Leave
  <2>1. UNCHANGED <<login, record, saved, told, scripts, doubtful>> /\ online' \subseteq online
    BY <1>8 DEF Leave, db, ghosts
  <2>. QED
    BY <2>1, UntouchedAgrees
<1>9. CASE Join
  BY <1>9, JoinAgrees
<1>10. CASE Crash
  BY <1>10, CrashAgrees
<1>11. CASE UNCHANGED vars
  <2>1. UNCHANGED <<online, login, record, saved, told, scripts, doubtful>>
    BY <1>11 DEF vars, db, ghosts
  <2>. QED
    BY <2>1, UntouchedAgrees
<1>. QED
  BY <1>1, <1>2, <1>3, <1>4, <1>5, <1>6, <1>7, <1>8, <1>9, <1>10, <1>11 DEF Next

-----------------------------------------------------------------------------
(* Each step keeps the types.                                                *)

LEMMA StartTypes ==
    ASSUME TypeOK, NEW s \in Scripts, NEW kind \in Scripted, NEW p \in Players, NEW q \in Players,
           NEW c \in Classes, NEW n \in Nat, Start(s, kind, p, q, c, n), busy' \subseteq Players
    PROVE  TypeOK'
<1>. DEFINE r == [kind |-> kind, who |-> p, other |-> q, class |-> c, n |-> n, seen |-> login]
<1>1. UNCHANGED <<online, login, record, purse, db, world, faults, ghosts>>
  BY DEF Start
<1>2. r \in Requested
  BY DEF Requested, TypeOK
<1>3. FirstLeg(kind) \in ItemLegs \cup CashLegs \cup {"wait", "done"}
  BY DEF FirstLeg, ItemLegs, CashLegs
<1>4. At(r, FirstLeg(kind), Stage(FirstLeg(kind)), Nothing, 0) \in Jobs
  BY <1>2, <1>3, AtJob, StageType, NothingType
<1>5. scripts' \in [Scripts -> Jobs]
  BY <1>4 DEF Start, TypeOK
<1>6. requests' \in 0..MaxRequests
  BY DEF Start, TypeOK
<1>. QED
  BY <1>1, <1>5, <1>6 DEF TypeOK, db, world, ghosts

LEMMA WaitOverTypes ==
    ASSUME TypeOK, NEW s \in Scripts, WaitOver(s)
    PROVE  TypeOK'
<1>1. UNCHANGED <<online, login, record, purse, db, world, requests, faults, ghosts>>
  BY DEF WaitOver
<1>2. scripts[s] \in Jobs /\ scripts \in [Scripts -> Jobs] /\ busy \subseteq Players
  BY DEF TypeOK
<1>3. busy' \subseteq Players
  BY <1>2 DEF WaitOver
<1>4. \E j : \E leg \in ItemLegs \cup CashLegs \cup {"wait", "done"} : j.ask \in Requested
        /\ Goto(s, j, leg)
  <2>. DEFINE r == scripts[s].ask
              i(n) == At([kind |-> r.kind, who |-> r.who, other |-> r.other, class |-> r.class,
                          n |-> n, seen |-> r.seen], "wait", "wait", Nothing, 0)
  <2>1. r \in Requested
    BY <1>2 DEF Jobs
  <2>2. \A n \in Nat : i(n).ask \in Requested
    BY <2>1 DEF At, Requested
  <2>3. \A kind : AfterWait(kind) \in ItemLegs \cup CashLegs
    BY DEF AfterWait, ItemLegs, CashLegs
  <2>4. (\E n \in 1..r.n : Goto(s, i(n), AfterWait(r.kind))) \/ Goto(s, scripts[s], "done")
    BY DEF WaitOver
  <2>5. \A n \in 1..r.n : n \in Nat
    BY <2>1 DEF Requested
  <2>6. scripts[s].ask \in Requested /\ "done" \in {"wait", "done"}
    BY <2>1
  <2>7. CASE Goto(s, scripts[s], "done")
    BY <2>6, <2>7
  <2>8. CASE \E n \in 1..r.n : Goto(s, i(n), AfterWait(r.kind))
    <3>1. PICK n \in 1..r.n : Goto(s, i(n), AfterWait(r.kind))
      BY <2>8
    <3>2. i(n).ask \in Requested
      BY <2>2, <2>5
    <3>. HIDE DEF i
    <3>. QED
      BY <2>3, <3>1, <3>2
  <2>. QED
    BY <2>4, <2>7, <2>8
<1>5. scripts' \in [Scripts -> Jobs]
  BY <1>2, <1>4, GotoType
<1>. QED
  BY <1>1, <1>3, <1>5 DEF TypeOK, db, world, ghosts

LEMMA ReadListTypes ==
    ASSUME TypeOK, NEW s \in Scripts, ReadList(s)
    PROVE  TypeOK'
<1>. DEFINE j == scripts[s]
            q == Whose(j)
<1>1. UNCHANGED <<online, login, record, purse, db, world, busy, requests, faults, told, toldCash,
        issued, issuedCash>>
  BY DEF ReadList
<1>2. j \in Jobs /\ scripts \in [Scripts -> Jobs] /\ record \in Lists /\ login \in [Players -> Nat]
  BY DEF TypeOK
<1>3. /\ q \in Players /\ What(j) \in Classes /\ Delta(j) \in Int /\ j.ask \in Requested
      /\ j.leg \in ItemLegs \cup CashLegs \cup {"wait", "done"}
      /\ OnRefusal(j) \in ItemLegs \cup CashLegs \cup {"wait", "done"}
  BY <1>2, JobFields
<1>4. Plus(record[q], What(j), Delta(j)) \in [Classes -> Int]
  BY <1>2, <1>3, PlusType DEF Lists
<1>5. At(j.ask, j.leg, "save", Plus(record[q], What(j), Delta(j)), login[q]) \in Jobs
  BY <1>2, <1>3, <1>4, AtJob
<1>6. scripts' \in [Scripts -> Jobs]
  BY <1>2, <1>3, <1>5, GotoType DEF ReadList
<1>7. doubtful' \subseteq Players \cup Trunks
  BY <1>3 DEF ReadList, TypeOK, Overlapped
<1>. QED
  BY <1>1, <1>6, <1>7 DEF TypeOK, db, world

LEMMA IssueTypes ==
    ASSUME NEW j \in Jobs, issued \in [Classes -> Int], issuedCash \in Int
    PROVE  Issue(j) \in [Classes -> Int] /\ IssueCash(j) \in Int
<1>1. j.ask.n \in Int /\ -j.ask.n \in Int /\ What(j) \in Classes /\ j.ask.class \in Classes
  BY JobFields
<1>2. /\ Plus(issued, What(j), j.ask.n) \in [Classes -> Int]
      /\ Plus(issued, j.ask.class, -j.ask.n) \in [Classes -> Int]
  BY <1>1, PlusType
<1>. QED
  BY <1>1, <1>2 DEF Issue, IssueCash

LEMMA SaveListTypes ==
    ASSUME TypeOK, NEW s \in Scripts, SaveList(s)
    PROVE  TypeOK'
<1>. DEFINE j == scripts[s]
            q == Whose(j)
<1>1. UNCHANGED <<online, login, record, purse, pocket, trunkSaved, world, busy, requests, toldCash,
        issuedCash>>
  BY DEF SaveList
<1>2. j \in Jobs /\ scripts \in [Scripts -> Jobs] /\ saved \in Lists /\ told \in Lists
      /\ issued \in [Classes -> Int] /\ issuedCash \in Int /\ faults \in 0..MaxFaults
  BY DEF TypeOK
<1>3. /\ q \in Players /\ What(j) \in Classes /\ Delta(j) \in Int /\ j.ask \in Requested
      /\ j.leg \in ItemLegs \cup CashLegs \cup {"wait", "done"}
      /\ OnRefusal(j) \in ItemLegs \cup CashLegs \cup {"wait", "done"}
      /\ j.list \in [Classes -> Int] /\ j.gen \in Nat
  BY <1>2, JobFields
<1>4. Plus(told[q], What(j), Delta(j)) \in [Classes -> Int] /\ Issue(j) \in [Classes -> Int]
  BY <1>2, <1>3, PlusType, IssueTypes DEF Lists
<1>5. At(j.ask, j.leg, "set", j.list, j.gen) \in Jobs
  BY <1>2, <1>3, AtJob
<1>6. scripts' \in [Scripts -> Jobs]
  BY <1>2, <1>3, <1>5, GotoType DEF SaveList
<1>7. faults' \in 0..MaxFaults
  BY <1>2, AnsweredType DEF SaveList
<1>8. saved' \in Lists
  BY <1>2, <1>3 DEF SaveList, Lists
<1>9. told' \in Lists /\ issued' \in [Classes -> Int]
  BY <1>2, <1>3, <1>4 DEF SaveList, Lists
<1>10. doubtful' \subseteq Players \cup Trunks
  BY <1>3 DEF SaveList, TypeOK
<1>. QED
  BY <1>1, <1>6, <1>7, <1>8, <1>9, <1>10 DEF TypeOK, world

LEMMA SetRecordTypes ==
    ASSUME TypeOK, NEW s \in Scripts, SetRecord(s)
    PROVE  TypeOK'
<1>1. UNCHANGED <<online, login, purse, db, world, busy, requests, faults, ghosts>>
  BY DEF SetRecord
<1>2. scripts[s] \in Jobs /\ scripts \in [Scripts -> Jobs] /\ record \in Lists
  BY DEF TypeOK
<1>3. scripts' \in [Scripts -> Jobs]
  BY <1>2, JobFields, GotoType DEF SetRecord
<1>4. record' \in Lists
  BY <1>2, JobFields DEF SetRecord, Lists
<1>. QED
  BY <1>1, <1>3, <1>4 DEF TypeOK, db, world, ghosts

LEMMA SaveCashTypes ==
    ASSUME TypeOK, NEW s \in Scripts, SaveCash(s)
    PROVE  TypeOK'
<1>. DEFINE j == scripts[s]
            q == Whose(j)
<1>1. UNCHANGED <<online, login, record, purse, saved, trunkSaved, world, busy, requests, told>>
  BY DEF SaveCash
<1>2. j \in Jobs /\ scripts \in [Scripts -> Jobs] /\ pocket \in [Players -> Int]
        /\ toldCash \in [Players -> Int]
      /\ issued \in [Classes -> Int] /\ issuedCash \in Int /\ faults \in 0..MaxFaults
  BY DEF TypeOK
<1>3. /\ q \in Players /\ Delta(j) \in Int /\ j.ask \in Requested
      /\ j.leg \in ItemLegs \cup CashLegs \cup {"wait", "done"}
      /\ OnRefusal(j) \in ItemLegs \cup CashLegs \cup {"wait", "done"}
  BY <1>2, JobFields
<1>4. Issue(j) \in [Classes -> Int] /\ IssueCash(j) \in Int
  BY <1>2, IssueTypes
<1>5. At(j.ask, j.leg, "book", Nothing, 0) \in Jobs
  BY <1>3, AtJob, NothingType
<1>6. PICK answer :
        /\ Answered(answer, "OK", "OK")
        /\ pocket' = pocket \/ pocket' = [pocket EXCEPT ![q] = pocket[q] + Delta(j)]
        /\ doubtful' \subseteq doubtful \cup {q}
        /\ \/ /\ scripts' = [scripts EXCEPT ![s] = At(j.ask, j.leg, "book", Nothing, 0)]
              /\ toldCash' = [toldCash EXCEPT ![q] = toldCash[q] + Delta(j)]
              /\ issuedCash' = IssueCash(j) /\ issued' = Issue(j)
           \/ Goto(s, j, OnRefusal(j)) /\ UNCHANGED <<toldCash, issuedCash, issued>>
  BY DEF SaveCash
<1>7. scripts' \in [Scripts -> Jobs]
  BY <1>2, <1>3, <1>5, <1>6, GotoType
<1>8. faults' \in 0..MaxFaults
  BY <1>2, <1>6, AnsweredType
<1>9. pocket' \in [Players -> Int] /\ toldCash' \in [Players -> Int]
  BY <1>2, <1>3, <1>6
<1>10. issued' \in [Classes -> Int] /\ issuedCash' \in Int
  BY <1>2, <1>4, <1>6
<1>11. doubtful' \subseteq Players \cup Trunks
  BY <1>3, <1>6 DEF TypeOK
<1>. QED
  BY <1>1, <1>7, <1>8, <1>9, <1>10, <1>11 DEF TypeOK, world

LEMMA BookTypes ==
    ASSUME TypeOK, NEW s \in Scripts, Book(s)
    PROVE  TypeOK'
<1>1. UNCHANGED <<online, login, record, db, world, busy, requests, faults, ghosts>>
  BY DEF Book
<1>2. scripts[s] \in Jobs /\ scripts \in [Scripts -> Jobs] /\ purse \in [Players -> Int]
  BY DEF TypeOK
<1>3. scripts' \in [Scripts -> Jobs]
  BY <1>2, JobFields, GotoType DEF Book
<1>4. purse' \in [Players -> Int]
  BY <1>2, JobFields DEF Book
<1>. QED
  BY <1>1, <1>3, <1>4 DEF TypeOK, db, world, ghosts

LEMMA ChangeListTypes ==
    ASSUME NEW p \in Players, NEW c \in Classes, NEW d \in Int, NEW answer, ChangeList(p, c, d, answer),
           record \in Lists, saved \in Lists, told \in Lists
    PROVE  record' \in Lists /\ saved' \in Lists /\ told' \in Lists
<1>1. Plus(record[p], c, d) \in [Classes -> Int] /\ Plus(told[p], c, d) \in [Classes -> Int]
  BY PlusType DEF Lists
<1>. QED
  BY <1>1 DEF ChangeList, Lists

LEMMA AskedTypes ==
    ASSUME requests \in 0..MaxRequests, NEW handler, Asked(handler)
    PROVE  requests' \in 0..MaxRequests
BY DEF Asked

\* Between a player and a container: everything but what a trunk is told is
\* changed by a whole number.
LEMMA TransferTypes ==
    ASSUME TypeOK, NEW handler, Asked(handler), NEW sign \in {1, -1}, NEW p \in Players,
             NEW k \in Containers,
           NEW c \in Classes, NEW n \in Nat, NEW m \in Nat, Transfer(p, k, sign, c, n, m)
    PROVE  TypeOK'
<1>1. UNCHANGED <<online, login, scripts, busy, issued, issuedCash>>
  BY DEF Transfer
<1>2. /\ record \in Lists /\ saved \in Lists /\ told \in Lists
      /\ purse \in [Players -> Int] /\ pocket \in [Players -> Int] /\ toldCash \in [Players -> Int]
      /\ stock \in [Containers -> [Classes -> Int]] /\ boxCash \in [Containers -> Int]
      /\ open \subseteq Bags /\ trunkSaved \in [Trunks -> [items : [Classes -> Int], cash : Int]]
      /\ requests \in 0..MaxRequests /\ faults \in 0..MaxFaults
           /\ doubtful \subseteq Players \cup Trunks
  BY DEF TypeOK
<1>3. PICK d \in Int, dollars \in Int, a \in {"OK", "refused", "replyLost"},
        b \in {"OK", "refused", "commitLost"},
          t \in {"OK", "refused"} : Move(p, k, c, d, dollars, a, b, t)
  BY TransferMoves
<1>4. PICK moved \in {0, d}, paid \in {0, dollars} :
        /\ Answered(a, b, t) /\ ChangeList(p, c, d, a)
        /\ stock' = [stock EXCEPT ![k] = Plus(stock[k], c, -moved)]
        /\ PayFrom(k, p, paid, b)
        /\ open' = Tidied(Laid(k))
        /\ k \in Trunks \/ trunkSaved' = trunkSaved
        /\ \/ trunkSaved' = trunkSaved
           \/ trunkSaved' = [trunkSaved EXCEPT ![k] = TrunkRow(k)]
        /\ doubtful' \subseteq doubtful \cup MisledBy(p,
             a) \cup Overlapped({p}) \cup {p} \cup ({k} \cap Trunks)
  BY <1>3 DEF Move
<1>5. moved \in Int /\ -moved \in Int /\ paid \in Int
  OBVIOUS
<1>6. requests' \in 0..MaxRequests /\ faults' \in 0..MaxFaults
  BY <1>2, <1>4, AskedTypes, AnsweredType
<1>7. record' \in Lists /\ saved' \in Lists /\ told' \in Lists
  BY <1>2, <1>4, ChangeListTypes
<1>8. pocket' \in [Players -> Int] /\ purse' \in [Players -> Int] /\ toldCash' \in [Players -> Int]
  BY <1>2, <1>4, <1>5 DEF PayFrom
<1>9. stock' \in [Containers -> [Classes -> Int]]
  BY <1>2, <1>4, <1>5, PlusType
<1>10. boxCash' \in [Containers -> Int]
  BY <1>2, <1>4, <1>5 DEF PayFrom
<1>11. open' \subseteq Bags
  BY <1>2, <1>4 DEF Tidied, Laid, Containers
<1>12. trunkSaved' \in [Trunks -> [items : [Classes -> Int], cash : Int]]
  <2>1. TrunkRow(k) \in [items : [Classes -> Int], cash : Int]
    BY <1>9, <1>10 DEF TrunkRow
  <2>. QED
    BY <1>2, <1>4, <2>1
<1>13. doubtful' \subseteq Players \cup Trunks
  BY <1>2, <1>4 DEF Overlapped, MisledBy
<1>. QED
  BY <1>1, <1>6, <1>7, <1>8, <1>9, <1>10, <1>11, <1>12, <1>13 DEF TypeOK

LEMMA StripTypes ==
    ASSUME TypeOK, Strip
    PROVE  TypeOK'
<1>1. UNCHANGED <<online, login, purse, pocket, trunkSaved, boxCash, scripts, busy, toldCash, issued,
        issuedCash>>
  BY DEF Strip
<1>2. /\ record \in Lists /\ saved \in Lists /\ told \in Lists /\ online \subseteq Players
      /\ stock \in [Containers -> [Classes -> Int]] /\ open \subseteq Bags
      /\ requests \in 0..MaxRequests /\ faults \in 0..MaxFaults
           /\ doubtful \subseteq Players \cup Trunks
  BY DEF TypeOK
<1>3. PICK p \in online, b \in Bags, answer \in {"OK", "refused", "replyLost"} :
        /\ Asked("strip") /\ Answered(answer, "OK", "OK")
        /\ saved' = IF answer = "refused" THEN saved ELSE [saved EXCEPT ![p] = Nothing]
        /\ IF answer = "OK"
           THEN /\ record' = [record EXCEPT ![p] = Nothing]
                /\ told' = [told EXCEPT ![p] = [c \in Classes |-> told[p][c] - record[p][c]]]
                /\ stock' = [stock EXCEPT ![b] = record[p]]
                /\ open' = open \cup {b}
           ELSE UNCHANGED <<record, told, stock, open>>
        /\ doubtful' = doubtful \cup Overlapped({p}) \cup MisledBy(p, answer)
  BY DEF Strip
<1>4. requests' \in 0..MaxRequests /\ faults' \in 0..MaxFaults
  BY <1>2, <1>3, AskedTypes, AnsweredType
<1>5. record' \in Lists /\ saved' \in Lists
  <2>1. record' = record \/ record' = [record EXCEPT ![p] = Nothing]
    BY <1>3, Zenon
  <2>2. saved' = saved \/ saved' = [saved EXCEPT ![p] = Nothing]
    BY <1>3, Zenon
  <2>3. record' \in Lists
    BY <1>2, <2>1, NothingType DEF Lists
  <2>4. saved' \in Lists
    BY <1>2, <2>2, NothingType DEF Lists
  <2>. QED
    BY <2>3, <2>4
<1>6. told' \in Lists
  <2>. DEFINE v == [c \in Classes |-> told[p][c] - record[p][c]]
  <2>1. v \in [Classes -> Int]
    BY <1>2, <1>3 DEF Lists
  <2>2. told' = told \/ told' = [told EXCEPT ![p] = v]
    BY <1>3, Zenon
  <2>. HIDE DEF v
  <2>. QED
    BY <1>2, <2>1, <2>2 DEF Lists
<1>7. stock' \in [Containers -> [Classes -> Int]] /\ open' \subseteq Bags
  BY <1>2, <1>3 DEF Lists
<1>8. doubtful' \subseteq Players \cup Trunks
  BY <1>2, <1>3 DEF Overlapped, MisledBy
<1>. QED
  BY <1>1, <1>4, <1>5, <1>6, <1>7, <1>8 DEF TypeOK

LEMMA ChangeAtOnceTypes ==
    ASSUME TypeOK, NEW handler, NEW d \in {1, -1}, ChangeAtOnce(handler, d)
    PROVE  TypeOK'
<1>1. UNCHANGED <<online, login, purse, pocket, trunkSaved, world, scripts, busy, toldCash, issuedCash>>
  BY DEF ChangeAtOnce
<1>2. /\ record \in Lists /\ saved \in Lists /\ told \in Lists /\ online \subseteq Players
      /\ issued \in [Classes -> Int]
      /\ requests \in 0..MaxRequests /\ faults \in 0..MaxFaults
           /\ doubtful \subseteq Players \cup Trunks
  BY DEF TypeOK
<1>3. PICK p \in online, c \in Classes, answer \in {"OK", "refused", "replyLost"} :
        /\ Asked(handler) /\ Answered(answer, "OK", "OK") /\ ChangeList(p, c, d, answer)
        /\ issued' = IF answer = "OK" THEN Plus(issued, c, d) ELSE issued
        /\ doubtful' = doubtful \cup Overlapped({p}) \cup MisledBy(p, answer)
  BY DEF ChangeAtOnce
<1>4. requests' \in 0..MaxRequests /\ faults' \in 0..MaxFaults
  BY <1>2, <1>3, AskedTypes, AnsweredType
<1>5. record' \in Lists /\ saved' \in Lists /\ told' \in Lists
  <2>1. d \in Int /\ p \in Players
    BY <1>2
  <2>. QED
    BY <1>2, <1>3, <2>1, ChangeListTypes
<1>6. issued' \in [Classes -> Int]
  <2>1. d \in Int
    OBVIOUS
  <2>. QED
    BY <1>2, <1>3, <2>1, PlusType
<1>7. doubtful' \subseteq Players \cup Trunks
  BY <1>2, <1>3 DEF Overlapped, MisledBy
<1>. QED
  BY <1>1, <1>4, <1>5, <1>6, <1>7 DEF TypeOK, world

LEMMA AdminGiveCashTypes ==
    ASSUME TypeOK, AdminGiveCash
    PROVE  TypeOK'
<1>1. UNCHANGED <<online, login, record, saved, trunkSaved, world, scripts, busy, told, issued>>
  BY DEF AdminGiveCash
<1>2. /\ purse \in [Players -> Int] /\ pocket \in [Players -> Int] /\ toldCash \in [Players -> Int]
      /\ issuedCash \in Int /\ online \subseteq Players
      /\ requests \in 0..MaxRequests /\ faults \in 0..MaxFaults
           /\ doubtful \subseteq Players \cup Trunks
  BY DEF TypeOK
<1>3. PICK p \in online, n \in Quantities, answer \in {"OK", "refused", "commitLost"} :
        /\ Asked("adminCash") /\ Answered(answer, "OK", "OK")
        /\ pocket' = IF answer = "OK" THEN [pocket EXCEPT ![p] = pocket[p] + n] ELSE pocket
        /\ IF answer = "refused"
           THEN UNCHANGED <<purse, toldCash, issuedCash>>
           ELSE /\ purse' = [purse EXCEPT ![p] = purse[p] + n]
                /\ toldCash' = [toldCash EXCEPT ![p] = toldCash[p] + n]
                /\ issuedCash' = issuedCash + n
        /\ doubtful' \subseteq doubtful \cup {p}
  BY DEF AdminGiveCash
<1>4. requests' \in 0..MaxRequests /\ faults' \in 0..MaxFaults
  BY <1>2, <1>3, AskedTypes, AnsweredType
<1>5. pocket' \in [Players -> Int] /\ purse' \in [Players -> Int] /\ toldCash' \in [Players -> Int]
      /\ issuedCash' \in Int
  BY <1>2, <1>3
<1>. QED
  BY <1>1, <1>2, <1>3, <1>4, <1>5 DEF TypeOK, world

LEMMA ExpireTypes ==
    ASSUME TypeOK, Expire
    PROVE  TypeOK'
<1>1. UNCHANGED <<online, login, record, purse, db, scripts, busy, requests, faults, told, toldCash,
        doubtful>>
  BY DEF Expire
<1>2. /\ stock \in [Containers -> [Classes -> Int]] /\ boxCash \in [Containers -> Int]
           /\ open \subseteq Bags
      /\ issued \in [Classes -> Int] /\ issuedCash \in Int
  BY DEF TypeOK
<1>3. PICK b \in open :
        /\ open' = open \ {b}
        /\ issued' = [c \in Classes |-> issued[c] - stock[b][c]]
        /\ issuedCash' = issuedCash - boxCash[b]
        /\ stock' = [stock EXCEPT ![b] = Nothing]
        /\ boxCash' = [boxCash EXCEPT ![b] = 0]
  BY DEF Expire
<1>4. b \in Containers
  BY <1>2 DEF Containers
<1>5. stock' \in [Containers -> [Classes -> Int]] /\ boxCash' \in [Containers -> Int]
  <2>1. stock' \in [Containers -> [Classes -> Int]]
    BY <1>2, <1>3, <1>4, NothingType
  <2>2. boxCash' \in [Containers -> Int]
    BY <1>2, <1>3, <1>4
  <2>. QED
    BY <2>1, <2>2
<1>6. issued' \in [Classes -> Int] /\ issuedCash' \in Int
  BY <1>2, <1>3, <1>4
<1>. QED
  BY <1>1, <1>2, <1>3, <1>5, <1>6 DEF TypeOK, db

LEMMA LeaveTypes ==
    ASSUME TypeOK, Leave
    PROVE  TypeOK'
BY DEF Leave, TypeOK, db, world, ghosts

LEMMA JoinTypes ==
    ASSUME TypeOK, Join
    PROVE  TypeOK'
<1>1. UNCHANGED <<db, world, scripts, busy, requests, faults, told, toldCash, issued, issuedCash>>
  BY DEF Join
<1>2. /\ online \subseteq Players /\ login \in [Players -> Nat] /\ record \in Lists /\ saved \in Lists
      /\ purse \in [Players -> Int] /\ pocket \in [Players -> Int]
           /\ doubtful \subseteq Players \cup Trunks
  BY DEF TypeOK
<1>3. PICK p \in Players :
        /\ online' = online \cup {p}
        /\ login' = [login EXCEPT ![p] = login[p] + 1]
        /\ record' = [record EXCEPT ![p] = saved[p]]
        /\ purse' = [purse EXCEPT ![p] = pocket[p]]
        /\ doubtful' = doubtful \cup Overlapped({p})
  BY DEF Join
<1>4. online' \subseteq Players /\ login' \in [Players -> Nat]
        /\ doubtful' \subseteq Players \cup Trunks
  BY <1>2, <1>3 DEF Overlapped
<1>5. record' \in Lists /\ purse' \in [Players -> Int]
  BY <1>2, <1>3 DEF Lists
<1>. QED
  BY <1>1, <1>4, <1>5 DEF TypeOK, db, world

LEMMA CrashTypes ==
    ASSUME TypeOK, Crash
    PROVE  TypeOK'
<1>1. UNCHANGED <<login, record, purse, db, requests, ghosts>>
  BY DEF Crash
<1>2. trunkSaved \in [Trunks -> [items : [Classes -> Int], cash : Int]] /\ faults \in 0..MaxFaults
  BY DEF TypeOK
<1>3. online' \subseteq Players /\ busy' \subseteq Players /\ open' \subseteq Bags
        /\ faults' \in 0..MaxFaults
  BY <1>2 DEF Crash
<1>4. scripts' \in [Scripts -> Jobs]
  BY IdleJob DEF Crash
<1>5. stock' \in [Containers -> [Classes -> Int]] /\ boxCash' \in [Containers -> Int]
  BY <1>2, NothingType DEF Crash
<1>. QED
  BY <1>1, <1>3, <1>4, <1>5 DEF TypeOK, db, ghosts

LEMMA StepTypes ==
    ASSUME TypeOK, [Next]_vars
    PROVE  TypeOK'
<1>1. ASSUME NEW s \in Scripts, Request(s)
      PROVE  TypeOK'
  BY <1>1, RequestStarts, StartTypes
<1>2. ASSUME NEW s \in Scripts, Step(s)
      PROVE  TypeOK'
  BY <1>2, WaitOverTypes, ReadListTypes, SaveListTypes, SetRecordTypes, SaveCashTypes, BookTypes
     DEF Step
<1>3. CASE Take \/ Store
  BY <1>3, TakeAndStore, TransferTypes
<1>4. CASE Strip
  BY <1>4, StripTypes
<1>5. CASE AdminGive \/ UseAtOnce
  BY <1>5, ChangeAtOnceTypes DEF AdminGive, UseAtOnce
<1>6. CASE AdminGiveCash
  BY <1>6, AdminGiveCashTypes
<1>7. CASE Expire
  BY <1>7, ExpireTypes
<1>8. CASE Leave
  BY <1>8, LeaveTypes
<1>9. CASE Join
  BY <1>9, JoinTypes
<1>10. CASE Crash
  BY <1>10, CrashTypes
<1>11. CASE UNCHANGED vars
  BY <1>11 DEF TypeOK, vars, db, world, ghosts
<1>. QED
  BY <1>1, <1>2, <1>3, <1>4, <1>5, <1>6, <1>7, <1>8, <1>9, <1>10, <1>11 DEF Next

-----------------------------------------------------------------------------

\* Records, rows, containers and scripts keep their shape in every state.
THEOREM TypeCorrect == Spec => []TypeOK
<1>1. TypeOK /\ [Next]_vars => TypeOK'
  BY StepTypes
<1>. QED
  BY <1>1, InitTypes, PTL DEF Spec

\* For any number of players, scripts, bags and trunks: unless two changes to
\* one player's list overlapped, or an answer misled, the record, the saved
\* list and what handlers were told agree (itemsChange's read, save, set).
THEOREM ListsStayInStep == Spec => []ListsAgree
<1>1. TypeOK /\ ListsAgree /\ [Next]_vars => ListsAgree'
  BY StepAgrees
<1>. QED
  BY <1>1, InitAgrees, TypeCorrect, PTL DEF Spec

-----------------------------------------------------------------------------
HIDE ItemsAssumption

(* What a script holds, by its leg and stage.                                *)

Legs == ItemLegs \cup CashLegs \cup {"wait", "done"}
Processing == {"process", "processFree"}

\* Inputs used up by a processor whose outputs are still to come.
Owed(j) ==
    IF /\ j.ask.kind \in Processing
       /\ \/ j.leg = "out" /\ j.stage = "set"
          \/ j.leg = "goods" /\ j.stage \in {"read", "save"}
    THEN j.ask.n ELSE 0

AllOwed == SumOf([s \in Scripts |-> Owed(scripts[s])])
AllUnbooked(p) == SumOf([s \in Scripts |-> Unbooked(scripts[s], p)])

\* The legs of each kind of handler.
LegFits(kind, leg) ==
    /\ leg = "in" => kind = "give"
    /\ leg = "back" => kind \in {"give", "sell"}
    /\ leg = "pay" => kind = "sell"
    /\ leg = "charge" => kind \in {"buy", "process"}
    /\ leg = "wait" => kind \in {"gather", "process", "processFree"}
    /\ leg = "goods" => kind \in {"gather", "process", "processFree", "buy", "buyByBank"}
    /\ leg # "done" => kind \in Handlers

Fits(j) ==
    /\ LegFits(j.ask.kind, j.leg)
    /\ j.stage = "read" => j.leg \in ItemLegs
    /\ j.stage = "book" => j.leg \in CashLegs
    /\ j.stage = "wait" => j.leg = "wait"
    /\ \A c \in Classes : j.list[c] >= 0
    /\ \A p \in Players : j.ask.seen[p] <= login[p]

\* The job after a leg.
NextJob(j, leg) == IF leg = "done" THEN Idle ELSE At(j.ask, leg, Stage(leg), Nothing, 0)

LEMMA GotoNext == ASSUME NEW s, NEW j, NEW leg, Goto(s, j, leg)
                  PROVE  scripts' = [scripts EXCEPT ![s] = NextJob(j, leg)]
BY DEF Goto, NextJob

\* A new leg holds what the last one left it.
LEMMA NextHolds ==
    ASSUME NEW j \in Jobs, NEW leg \in Legs
    PROVE  LET x == NextJob(j, leg) IN
           /\ \A c \in Classes : Carried(x, c) =
                 IF j.ask.class = c /\ j.ask.kind \in {"give", "sell"} /\ leg \in {"in", "pay", "back"}
                 THEN j.ask.n ELSE 0
           /\ CashCarried(x) = IF leg \in {"cashIn", "cashBack"} THEN j.ask.n ELSE 0
           /\ Owed(x) = IF j.ask.kind \in Processing /\ leg = "goods" THEN j.ask.n ELSE 0
           /\ x.stage # "book"
<1>. DEFINE x == NextJob(j, leg)
<1>1. CASE leg = "done"
  <2>1. x.ask.kind = "none" /\ x.leg = "done" /\ x.stage = "none"
    BY <1>1 DEF NextJob, Idle, At, NoRequest
  <2>. HIDE DEF x
  <2>2. (\A c \in Classes : Carried(x, c) = 0) /\ CashCarried(x) = 0 /\ Owed(x) = 0 /\ x.stage # "book"
    BY <2>1 DEF Carried, CashCarried, Owed, Processing
  <2>. QED BY <1>1, <2>2 DEF x
<1>2. CASE leg # "done"
  <2>1. x.ask = j.ask /\ x.leg = leg /\ x.stage = Stage(leg)
    BY <1>2 DEF NextJob, At
  <2>2. /\ leg \in ItemLegs => Stage(leg) = "read"
        /\ leg \in CashLegs => Stage(leg) = "save"
        /\ leg = "wait" => Stage(leg) = "wait"
    BY DEF Stage, ItemLegs, CashLegs
  <2>. HIDE DEF x
  <2>3. \A c \in Classes : Carried(x, c) =
           IF j.ask.class = c /\ j.ask.kind \in {"give", "sell"} /\ leg \in {"in", "pay", "back"}
           THEN j.ask.n ELSE 0
    BY <2>1, <2>2 DEF Carried, ItemLegs, CashLegs
  <2>4. CashCarried(x) = IF leg \in {"cashIn", "cashBack"} THEN j.ask.n ELSE 0
    BY <2>1, <2>2 DEF CashCarried, ItemLegs, CashLegs
  <2>5. Owed(x) = IF j.ask.kind \in Processing /\ leg = "goods" THEN j.ask.n ELSE 0
    BY <2>1, <2>2 DEF Owed, ItemLegs, CashLegs
  <2>6. x.stage # "book"
    BY <1>2, <2>1, <2>2 DEF Legs
  <2>. QED BY <2>3, <2>4, <2>5, <2>6 DEF x
<1>. QED BY <1>1, <1>2

LEMMA NextFits ==
    ASSUME NEW j \in Jobs, NEW leg \in Legs, LegFits(j.ask.kind, leg),
             \A p \in Players : j.ask.seen[p] <= login[p],
           TypeOK
    PROVE  Fits(NextJob(j, leg))
<1>. DEFINE x == NextJob(j, leg)
<1>0. \A c \in Classes : Nothing[c] >= 0
  BY DEF Nothing
<1>1. CASE leg = "done"
  <2>1. x.ask.kind = "none" /\ x.leg = "done" /\ x.stage = "none" /\ x.list = Nothing
        /\ x.ask.seen = [p \in Players |-> 0]
    BY <1>1 DEF NextJob, Idle, At, NoRequest
  <2>2. \A p \in Players : login[p] \in Nat
    BY DEF TypeOK
  <2>. HIDE DEF x
  <2>3. \A p \in Players : x.ask.seen[p] <= login[p]
    BY <2>1, <2>2
  <2>4. Fits(x)
    BY <1>0, <2>1, <2>3 DEF Fits, LegFits
  <2>. QED BY <2>4 DEF x
<1>2. CASE leg # "done"
  <2>1. x.ask = j.ask /\ x.leg = leg /\ x.stage = Stage(leg) /\ x.list = Nothing
    BY <1>2 DEF NextJob, At
  <2>2. /\ leg \in ItemLegs => Stage(leg) = "read"
        /\ leg \in CashLegs => Stage(leg) = "save"
        /\ leg = "wait" => Stage(leg) = "wait"
    BY DEF Stage, ItemLegs, CashLegs
  <2>. HIDE DEF x
  <2>3. /\ x.stage = "read" => x.leg \in ItemLegs
        /\ x.stage = "book" => x.leg \in CashLegs
        /\ x.stage = "wait" => x.leg = "wait"
    BY <1>2, <2>1, <2>2 DEF Legs
  <2>4. Fits(x)
    BY <1>0, <2>1, <2>3 DEF Fits
  <2>. QED BY <2>4 DEF x
<1>. QED BY <1>1, <1>2

-----------------------------------------------------------------------------
(* How the sums move.                                                        *)

LEMMA FinitelyMany ==
    /\ IsFiniteSet(Players) /\ IsFiniteSet(Classes) /\ IsFiniteSet(Scripts) /\ IsFiniteSet(Containers)
<1>1. IsFiniteSet(Bags) /\ IsFiniteSet(Trunks) /\ IsFiniteSet(Players) /\ IsFiniteSet(Classes)
        /\ IsFiniteSet(Scripts)
  BY ItemsAssumption
<1>2. IsFiniteSet(Bags \cup Trunks)
  BY <1>1, FS_Union
<1>. QED BY <1>1, <1>2 DEF Containers

LEMMA SumIs ==
    ASSUME NEW S, IsFiniteSet(S), NEW f \in [S -> Int]
    PROVE  SumOf(f) = Total(f, S) /\ SumOf(f) \in Int
<1>1. DOMAIN f = S /\ \A x \in S : f[x] \in Int
  OBVIOUS
<1>2. SumOf(f) = Total(f, S)
  BY <1>1 DEF SumOf, Total
<1>. QED BY <1>1, <1>2, TotalInt

LEMMA SumMoves ==
    ASSUME NEW S, IsFiniteSet(S), NEW f \in [S -> Int], NEW g \in [S -> Int], NEW x \in S,
             \A y \in S : y # x => f[y] = g[y]
    PROVE  SumOf(g) = SumOf(f) + (g[x] - f[x]) /\ SumOf(f) \in Int /\ SumOf(g) \in Int
<1>1. \A y \in S : f[y] \in Int /\ g[y] \in Int
  OBVIOUS
<1>2. Total(g, S) = Total(f, S) + (g[x] - f[x])
  BY <1>1, TotalMoves
<1>. QED BY <1>2, SumIs

LEMMA SumAtMost ==
    ASSUME NEW S, IsFiniteSet(S), NEW f \in [S -> Int], NEW g \in [S -> Int], \A y \in S : f[y] <= g[y]
    PROVE  SumOf(f) <= SumOf(g) /\ SumOf(f) \in Int /\ SumOf(g) \in Int
<1>1. \A y \in S : f[y] \in Int /\ g[y] \in Int /\ f[y] <= g[y]
  OBVIOUS
<1>2. Total(f, S) <= Total(g, S)
  BY <1>1, TotalAtMost
<1>. QED BY <1>2, SumIs

LEMMA SumOfEqual ==
    ASSUME NEW S, IsFiniteSet(S), NEW n \in Nat, NEW f \in [S -> Int], \A y \in S : f[y] = n
    PROVE  SumOf(f) = n * Cardinality(S)
BY SumIs, TotalEqual

LEMMA ToldMoves ==
    ASSUME TypeOK, TypeOK', NEW c \in Classes, NEW p \in Players,
           \A q \in Players \ {p} : told'[q][c] = told[q][c]
    PROVE  Told(c)' = Told(c) + (told'[p][c] - told[p][c]) /\ Told(c) \in Int /\ Told(c)' \in Int
<1>. DEFINE f == [q \in Players |-> told[q][c]]
            g == [q \in Players |-> told'[q][c]]
<1>1. f \in [Players -> Int] /\ g \in [Players -> Int]
  BY DEF TypeOK, Lists
<1>2. \A q \in Players : f[q] = told[q][c] /\ g[q] = told'[q][c]
  OBVIOUS
<1>3. Told(c) = SumOf(f) /\ Told(c)' = SumOf(g)
  BY DEF Told
<1>. HIDE DEF f, g
<1>4. SumOf(g) = SumOf(f) + (g[p] - f[p]) /\ SumOf(f) \in Int /\ SumOf(g) \in Int
  <2>1. \A q \in Players : q # p => f[q] = g[q]
    BY <1>2
  <2>2. IsFiniteSet(Players)
    BY FinitelyMany
  <2>. QED BY <1>1, <2>1, <2>2, SumMoves
<1>. QED BY <1>2, <1>3, <1>4

LEMMA StoredMoves ==
    ASSUME TypeOK, TypeOK',
           NEW c \in Classes, NEW k \in Containers,
           \A i \in Containers \ {k} : stock'[i][c] = stock[i][c]
    PROVE  Stored(c)' = Stored(c) + (stock'[k][c] - stock[k][c]) /\ Stored(c) \in Int
             /\ Stored(c)' \in Int
<1>. DEFINE f == [i \in Containers |-> stock[i][c]]
            g == [i \in Containers |-> stock'[i][c]]
<1>1. f \in [Containers -> Int] /\ g \in [Containers -> Int]
  BY DEF TypeOK
<1>2. \A i \in Containers : f[i] = stock[i][c] /\ g[i] = stock'[i][c]
  OBVIOUS
<1>3. Stored(c) = SumOf(f) /\ Stored(c)' = SumOf(g)
  BY DEF Stored
<1>. HIDE DEF f, g
<1>4. SumOf(g) = SumOf(f) + (g[k] - f[k]) /\ SumOf(f) \in Int /\ SumOf(g) \in Int
  <2>1. \A i \in Containers : i # k => f[i] = g[i]
    BY <1>2
  <2>2. IsFiniteSet(Containers)
    BY FinitelyMany
  <2>. QED BY <1>1, <2>1, <2>2, SumMoves
<1>. QED BY <1>2, <1>3, <1>4

LEMMA Weights ==
    ASSUME NEW j \in Jobs
    PROVE  (\A c \in Classes : Carried(j, c) \in Nat) /\ CashCarried(j) \in Nat /\ Owed(j) \in Nat
<1>1. j.ask.n \in Nat
  BY JobFields
<1>. QED BY <1>1 DEF Carried, CashCarried, Owed

\* The sums have a value.
LEMMA SumTypes ==
    ASSUME TypeOK, NEW c \in Classes
    PROVE  /\ Told(c) \in Int /\ Stored(c) \in Int /\ InFlight(c) \in Int
           /\ SumOf(toldCash) \in Int /\ SumOf(boxCash) \in Int /\ CashInFlight \in Int
           /\ SumOf(issued) \in Int /\ AllOwed \in Int
<1>1. /\ [q \in Players |-> told[q][c]] \in [Players -> Int]
      /\ [i \in Containers |-> stock[i][c]] \in [Containers -> Int]
  BY DEF TypeOK, Lists
<1>2. Told(c) \in Int /\ Stored(c) \in Int
  BY <1>1, FinitelyMany, SumIs DEF Told, Stored
<1>3. \A s \in Scripts : scripts[s] \in Jobs
  BY DEF TypeOK
<1>4. /\ [s \in Scripts |-> Carried(scripts[s], c)] \in [Scripts -> Int]
      /\ [s \in Scripts |-> CashCarried(scripts[s])] \in [Scripts -> Int]
      /\ [s \in Scripts |-> Owed(scripts[s])] \in [Scripts -> Int]
  BY <1>3, Weights
<1>5. InFlight(c) \in Int /\ CashInFlight \in Int /\ AllOwed \in Int
  BY <1>4, FinitelyMany, SumIs DEF InFlight, CashInFlight, AllOwed
<1>6. SumOf(toldCash) \in Int /\ SumOf(boxCash) \in Int /\ SumOf(issued) \in Int
  BY FinitelyMany, SumIs DEF TypeOK
<1>. QED BY <1>2, <1>5, <1>6

\* One script goes on.
LEMMA FlightMoves ==
    ASSUME TypeOK, TypeOK', NEW s \in Scripts, NEW x,
           scripts' = [scripts EXCEPT ![s] = x], NEW c \in Classes
    PROVE  /\ InFlight(c)' = InFlight(c) + (Carried(x, c) - Carried(scripts[s], c))
           /\ CashInFlight' = CashInFlight + (CashCarried(x) - CashCarried(scripts[s]))
           /\ AllOwed' = AllOwed + (Owed(x) - Owed(scripts[s]))
<1>0. scripts'[s] = x /\ \A t \in Scripts \ {s} : scripts'[t] = scripts[t]
  BY DEF TypeOK
<1>1. \A t \in Scripts : scripts[t] \in Jobs /\ scripts'[t] \in Jobs
  BY DEF TypeOK
<1>2. InFlight(c)' = InFlight(c) + (Carried(x, c) - Carried(scripts[s], c))
  <2>. DEFINE f == [t \in Scripts |-> Carried(scripts[t], c)]
              g == [t \in Scripts |-> Carried(scripts'[t], c)]
  <2>1. f \in [Scripts -> Int] /\ g \in [Scripts -> Int]
    BY <1>1, Weights
  <2>2. f[s] = Carried(scripts[s], c) /\ g[s] = Carried(x, c) /\ \A t \in Scripts : t # s => f[t] = g[t]
    BY <1>0
  <2>3. InFlight(c) = SumOf(f) /\ InFlight(c)' = SumOf(g)
    BY DEF InFlight, Carried
  <2>. HIDE DEF f, g
  <2>4. SumOf(g) = SumOf(f) + (g[s] - f[s])
    <3>1. IsFiniteSet(Scripts) /\ \A t \in Scripts : t # s => f[t] = g[t]
      BY <2>2, FinitelyMany
    <3>. QED BY <2>1, <3>1, SumMoves
  <2>. QED BY <2>2, <2>3, <2>4
<1>3. CashInFlight' = CashInFlight + (CashCarried(x) - CashCarried(scripts[s]))
  <2>. DEFINE f == [t \in Scripts |-> CashCarried(scripts[t])]
              g == [t \in Scripts |-> CashCarried(scripts'[t])]
  <2>1. f \in [Scripts -> Int] /\ g \in [Scripts -> Int]
    BY <1>1, Weights
  <2>2. f[s] = CashCarried(scripts[s]) /\ g[s] = CashCarried(x)
          /\ \A t \in Scripts : t # s => f[t] = g[t]
    BY <1>0
  <2>3. CashInFlight = SumOf(f) /\ CashInFlight' = SumOf(g)
    BY DEF CashInFlight, CashCarried
  <2>. HIDE DEF f, g
  <2>4. SumOf(g) = SumOf(f) + (g[s] - f[s])
    <3>1. IsFiniteSet(Scripts) /\ \A t \in Scripts : t # s => f[t] = g[t]
      BY <2>2, FinitelyMany
    <3>. QED BY <2>1, <3>1, SumMoves
  <2>. QED BY <2>2, <2>3, <2>4
<1>4. AllOwed' = AllOwed + (Owed(x) - Owed(scripts[s]))
  <2>. DEFINE f == [t \in Scripts |-> Owed(scripts[t])]
              g == [t \in Scripts |-> Owed(scripts'[t])]
  <2>1. f \in [Scripts -> Int] /\ g \in [Scripts -> Int]
    BY <1>1, Weights
  <2>2. f[s] = Owed(scripts[s]) /\ g[s] = Owed(x) /\ \A t \in Scripts : t # s => f[t] = g[t]
    BY <1>0
  <2>3. AllOwed = SumOf(f) /\ AllOwed' = SumOf(g)
    BY DEF AllOwed, Owed, Processing
  <2>. HIDE DEF f, g
  <2>4. SumOf(g) = SumOf(f) + (g[s] - f[s])
    <3>1. IsFiniteSet(Scripts) /\ \A t \in Scripts : t # s => f[t] = g[t]
      BY <2>2, FinitelyMany
    <3>. QED BY <2>1, <3>1, SumMoves
  <2>. QED BY <2>2, <2>3, <2>4
<1>. QED BY <1>2, <1>3, <1>4

-----------------------------------------------------------------------------
(* What holds besides, and makes the balance hold.                           *)

NoDebts ==
    /\ \A p \in Players, c \in Classes : record[p][c] >= 0 /\ saved[p][c] >= 0
    /\ \A k \in Containers : boxCash[k] >= 0 /\ \A c \in Classes : stock[k][c] >= 0
    /\ \A t \in Trunks : trunkSaved[t].cash >= 0 /\ \A c \in Classes : trunkSaved[t].items[c] >= 0

\* A bag that is not on the ground holds nothing.
BagsEmptied == \A b \in Bags \ open : boxCash[b] = 0 /\ \A c \in Classes : stock[b][c] = 0

Sound ==
    /\ \A s \in Scripts : Fits(scripts[s])
    /\ NoDebts /\ BagsEmptied
    /\ faults = 0 => online = Players

\* No step makes an item or a dollar, and one that loses any counts a fault.
ItemsBalance ==
    \A c \in Classes : /\ Accounted(c)' - issued'[c] <= Accounted(c) - issued[c]
                       /\ faults' = 0 => Accounted(c)' - issued'[c] = Accounted(c) - issued[c]
CashBalances ==
    /\ CashAccounted' - issuedCash' <= CashAccounted - issuedCash
    /\ faults' = 0 => CashAccounted' - issuedCash' = CashAccounted - issuedCash

\* Nor does processing make anything.
Makers == {"gather", "buy", "buyByBank", "adminGive"}
NothingMade == SumOf(issued)' + AllOwed' <= SumOf(issued) + AllOwed

\* Issued amounts move in one class.
LEMMA IssuedMoves ==
    ASSUME issued \in [Classes -> Int], NEW c \in Classes, NEW n \in Int, issued' = Plus(issued, c, n)
    PROVE  /\ SumOf(issued)' = SumOf(issued) + n
           /\ \A d \in Classes : issued'[d] = issued[d] + (IF d = c THEN n ELSE 0)
<1>1. issued' \in [Classes -> Int] /\ issued'[c] = issued[c] + n
        /\ \A d \in Classes \ {c} : issued'[d] = issued[d]
  BY DEF Plus
<1>2. SumOf(issued') = SumOf(issued) + (issued'[c] - issued[c]) /\ SumOf(issued) \in Int
  BY <1>1, FinitelyMany, SumMoves
<1>3. issued[c] \in Int /\ \A d \in Classes : issued[d] \in Int
  OBVIOUS
<1>. QED BY <1>1, <1>2, <1>3

\* A script goes on and nothing else does.
LEMMA ScriptBalances ==
    ASSUME TypeOK, TypeOK', NEW s \in Scripts, NEW x \in Jobs, scripts' = [scripts EXCEPT ![s] = x],
           UNCHANGED <<told, stock, toldCash, boxCash, issued, issuedCash>>,
           \A c \in Classes : /\ Carried(x, c) <= Carried(scripts[s], c)
                              /\ faults' = 0 => Carried(x, c) = Carried(scripts[s], c),
           CashCarried(x) = CashCarried(scripts[s]), Owed(x) <= Owed(scripts[s])
    PROVE  ItemsBalance /\ CashBalances /\ NothingMade
<1>0. scripts \in [Scripts -> Jobs] /\ scripts' \in [Scripts -> Jobs] /\ scripts[s] \in Jobs
  BY DEF TypeOK
<1>1. ASSUME NEW c \in Classes
      PROVE  /\ Accounted(c)' - issued'[c] <= Accounted(c) - issued[c]
             /\ faults' = 0 => Accounted(c)' - issued'[c] = Accounted(c) - issued[c]
  <2>1. Told(c)' = Told(c) /\ Stored(c)' = Stored(c) /\ issued'[c] = issued[c] /\ issued[c] \in Int
    BY DEF Told, Stored, TypeOK
  <2>2. InFlight(c)' = InFlight(c) + (Carried(x, c) - Carried(scripts[s], c))
    BY <1>0, FlightMoves
  <2>3. Carried(x, c) \in Int /\ Carried(scripts[s], c) \in Int
    BY <1>0, Weights
  <2>4. Told(c) \in Int /\ Stored(c) \in Int /\ InFlight(c) \in Int
    BY SumTypes
  <2>5. Accounted(c) = Told(c) + Stored(c) + InFlight(c)
          /\ Accounted(c)' = Told(c)' + Stored(c)' + InFlight(c)'
    BY DEF Accounted
  <2>. QED BY <2>1, <2>2, <2>3, <2>4, <2>5
<1>2. PICK c \in Classes : TRUE
  BY ItemsAssumption
<1>3. /\ CashInFlight' = CashInFlight + (CashCarried(x) - CashCarried(scripts[s]))
      /\ AllOwed' = AllOwed + (Owed(x) - Owed(scripts[s]))
  BY <1>0, <1>2, FlightMoves
<1>4. CashCarried(x) \in Int /\ CashCarried(scripts[s]) \in Int /\ Owed(x) \in Int
        /\ Owed(scripts[s]) \in Int
  BY <1>0, Weights
<1>5. /\ SumOf(toldCash) \in Int /\ SumOf(boxCash) \in Int /\ CashInFlight \in Int
      /\ SumOf(issued) \in Int /\ AllOwed \in Int /\ issuedCash \in Int
  BY <1>2, SumTypes DEF TypeOK
<1>6. CashAccounted = SumOf(toldCash) + SumOf(boxCash) + CashInFlight
      /\ CashAccounted' = SumOf(toldCash) + SumOf(boxCash) + CashInFlight'
  BY DEF CashAccounted
<1>7. CashBalances
  BY <1>3, <1>4, <1>5, <1>6 DEF CashBalances
<1>8. NothingMade
  BY <1>3, <1>4, <1>5 DEF NothingMade
<1>. QED BY <1>1, <1>7, <1>8 DEF ItemsBalance

LEMMA JobsFit ==
    ASSUME TypeOK, Sound, NEW s \in Scripts, NEW x \in Jobs, scripts' = [scripts EXCEPT ![s] = x],
             login' = login, Fits(x)
    PROVE  \A t \in Scripts : Fits(scripts[t])'
<1>1. \A t \in Scripts : scripts'[t] = IF t = s THEN x ELSE scripts[t]
  BY DEF TypeOK
<1>2. \A t \in Scripts : Fits(scripts'[t])
  BY <1>1 DEF Sound
<1>. QED BY <1>2 DEF Fits

LEMMA DebtsStay ==
    ASSUME Sound, UNCHANGED <<record, saved, boxCash, stock, trunkSaved, open, online>>,
             faults' = faults,
           \A t \in Scripts : Fits(scripts[t])'
    PROVE  Sound'
BY DEF Sound, NoDebts, BagsEmptied

LEMMA StartKeeps ==
    ASSUME TypeOK, TypeOK', Sound, NEW s \in Scripts, NEW kind \in Scripted, NEW p \in Players,
             NEW q \in Players,
           NEW c \in Classes, NEW n \in Nat, Start(s, kind, p, q, c, n)
    PROVE  Sound' /\ ItemsBalance /\ CashBalances /\ NothingMade
<1>. DEFINE r == [kind |-> kind, who |-> p, other |-> q, class |-> c, n |-> n, seen |-> login]
            j == At(r, "wait", "wait", Nothing, 0)
            x == NextJob(j, FirstLeg(kind))
<1>1. r \in Requested
  BY DEF Requested, TypeOK
<1>2. j \in Jobs /\ j.ask = r /\ r.kind = kind /\ r.seen = login
  BY <1>1, NothingType, AtJob DEF At
<1>3. FirstLeg(kind) \in Legs /\ FirstLeg(kind) # "done" /\ kind \in Handlers
  BY DEF Start, FirstLeg, Legs, ItemLegs, CashLegs
<1>4. scripts' = [scripts EXCEPT ![s] = x]
  BY <1>2, <1>3 DEF Start, NextJob
<1>5. LegFits(kind, FirstLeg(kind)) /\ FirstLeg(kind) \notin {"in", "pay", "back", "cashIn", "cashBack"}
      /\ (kind \in Processing => FirstLeg(kind) # "goods")
  BY <1>3 DEF FirstLeg, LegFits, Scripted, Processing
<1>6. \A i \in Players : r.seen[i] <= login[i]
  BY <1>2 DEF TypeOK
<1>. HIDE DEF r, j
<1>7. Fits(x)
  BY <1>2, <1>3, <1>5, <1>6, NextFits
<1>8. x \in Jobs
  BY <1>4 DEF TypeOK
<1>9. (\A d \in Classes : Carried(x, d) = 0) /\ CashCarried(x) = 0 /\ Owed(x) = 0
  BY <1>2, <1>3, <1>5, NextHolds
<1>10. (\A d \in Classes : Carried(scripts[s], d) = 0) /\ CashCarried(scripts[s]) = 0
         /\ Owed(scripts[s]) = 0
  BY DEF Start, Carried, CashCarried, Owed
<1>. HIDE DEF x
<1>11. ItemsBalance /\ CashBalances /\ NothingMade
  <2>1. UNCHANGED <<told, stock, toldCash, boxCash, issued, issuedCash>>
    BY DEF Start, world, ghosts
  <2>3. CashCarried(x) = CashCarried(scripts[s]) /\ Owed(x) <= Owed(scripts[s])
    BY <1>9, <1>10
  <2>4. \A i \in Classes : Carried(x, i) <= Carried(scripts[s], i)
          /\ Carried(x, i) = Carried(scripts[s], i)
    BY <1>9, <1>10
  <2>. QED BY <1>4, <1>8, <2>1, <2>3, <2>4, ScriptBalances
<1>12. Sound'
  BY <1>4, <1>7, <1>8, JobsFit, DebtsStay DEF Start, db, world
<1>. QED BY <1>11, <1>12

\* A leg with nothing in hand is followed by one with nothing in hand.
LEMMA GotoKeeps ==
    ASSUME TypeOK, TypeOK', Sound, NEW s \in Scripts, NEW j \in Jobs, NEW leg \in Legs, Goto(s, j, leg),
           LegFits(j.ask.kind, leg), j.ask.seen = scripts[s].ask.seen,
           UNCHANGED <<online, login, record, saved, trunkSaved, open, told, stock, toldCash, boxCash,
             issued, issuedCash>>,
           faults \in Nat, faults' \in Nat, faults <= faults',
           \A c \in Classes : /\ Carried(NextJob(j, leg), c) <= Carried(scripts[s], c)
                              /\ faults' = 0 => Carried(NextJob(j, leg), c) = Carried(scripts[s], c),
           CashCarried(NextJob(j, leg)) = CashCarried(scripts[s]),
             Owed(NextJob(j, leg)) <= Owed(scripts[s])
    PROVE  Sound' /\ ItemsBalance /\ CashBalances /\ NothingMade
<1>. DEFINE x == NextJob(j, leg)
<1>1. scripts' = [scripts EXCEPT ![s] = x]
  BY GotoNext
<1>2. x \in Jobs
  BY <1>1 DEF TypeOK
<1>3. \A p \in Players : j.ask.seen[p] <= login[p]
  BY DEF Sound, Fits
<1>4. Fits(x)
  BY <1>3, NextFits
<1>5. ItemsBalance /\ CashBalances /\ NothingMade
  <2>. HIDE DEF x
  <2>1. /\ CashCarried(x) = CashCarried(scripts[s]) /\ Owed(x) <= Owed(scripts[s])
        /\ \A c \in Classes : /\ Carried(x, c) <= Carried(scripts[s], c)
                              /\ faults' = 0 => Carried(x, c) = Carried(scripts[s], c)
    BY DEF x
  <2>. QED BY <1>1, <1>2, <2>1, ScriptBalances
<1>6. \A t \in Scripts : Fits(scripts[t])'
  <2>. HIDE DEF x
  <2>. QED BY <1>1, <1>2, <1>4, JobsFit
<1>7. Sound'
  BY <1>6 DEF Sound, NoDebts, BagsEmptied
<1>. QED BY <1>5, <1>7

LEMMA FaultsCount == ASSUME TypeOK, TypeOK' PROVE faults \in Nat /\ faults' \in Nat
BY DEF TypeOK

LEMMA WaitOverKeeps ==
    ASSUME TypeOK, TypeOK', Sound, NEW s \in Scripts, WaitOver(s)
    PROVE  Sound' /\ ItemsBalance /\ CashBalances /\ NothingMade
<1>. DEFINE r == scripts[s].ask
            i(n) == At([kind |-> r.kind, who |-> r.who, other |-> r.other, class |-> r.class,
                        n |-> n, seen |-> r.seen], "wait", "wait", Nothing, 0)
<1>1. scripts[s] \in Jobs /\ r \in Requested
  BY DEF TypeOK, Jobs
<1>2. UNCHANGED <<online, login, record, saved, trunkSaved, open, told, stock, toldCash, boxCash,
        issued, issuedCash>>
      /\ faults' = faults /\ scripts[s].stage = "wait"
  BY DEF WaitOver, db, world, ghosts
<1>3. scripts[s].leg = "wait" /\ r.kind \in {"gather", "process", "processFree"} /\ r.kind \in Handlers
  BY <1>2 DEF Sound, Fits, LegFits
<1>4. (\A c \in Classes : Carried(scripts[s], c) = 0) /\ CashCarried(scripts[s]) = 0
        /\ Owed(scripts[s]) = 0
  BY <1>3 DEF Carried, CashCarried, Owed
<1>5. (\E n \in 1..r.n : Goto(s, i(n), AfterWait(r.kind))) \/ Goto(s, scripts[s], "done")
  BY DEF WaitOver
<1>6. CASE Goto(s, scripts[s], "done")
  <2>1. "done" \in Legs /\ LegFits(r.kind, "done")
    BY DEF Legs, LegFits
  <2>2. /\ \A c \in Classes : Carried(NextJob(scripts[s], "done"), c) = 0
        /\ CashCarried(NextJob(scripts[s], "done")) = 0 /\ Owed(NextJob(scripts[s], "done")) = 0
    BY <1>1, <2>1, NextHolds
  <2>. QED BY <1>1, <1>2, <1>4, <1>6, <2>1, <2>2, FaultsCount, GotoKeeps
<1>7. CASE \E n \in 1..r.n : Goto(s, i(n), AfterWait(r.kind))
  <2>1. PICK n \in 1..r.n : Goto(s, i(n), AfterWait(r.kind))
    BY <1>7
  <2>. DEFINE j == i(n)
  <2>2. n \in Nat
    BY <1>1 DEF Requested
  <2>3. j.ask \in Requested /\ j.ask.kind = r.kind /\ j.ask.seen = r.seen
    BY <1>1, <2>2 DEF At, Requested
  <2>4. j \in Jobs
    BY <2>3, NothingType, AtJob DEF At
  <2>5. Goto(s, j, AfterWait(r.kind))
    BY <2>1
  <2>. HIDE DEF j
  <2>. DEFINE leg == AfterWait(r.kind)
  <2>6. leg \in Legs /\ LegFits(r.kind, leg) /\ leg \notin {"in", "pay", "back", "cashIn", "cashBack"}
        /\ (r.kind \in Processing => leg # "goods")
    BY <1>3 DEF AfterWait, Legs, ItemLegs, CashLegs, LegFits, Processing
  <2>. HIDE DEF leg
  <2>7. /\ \A c \in Classes : Carried(NextJob(j, leg), c) = 0
        /\ CashCarried(NextJob(j, leg)) = 0 /\ Owed(NextJob(j, leg)) = 0
    BY <2>3, <2>4, <2>6, NextHolds
  <2>8. Goto(s, j, leg) /\ LegFits(j.ask.kind, leg) /\ j.ask.seen = scripts[s].ask.seen
    BY <2>3, <2>5, <2>6 DEF leg
  <2>. QED BY <1>1, <1>2, <1>4, <2>4, <2>6, <2>7, <2>8, FaultsCount, GotoKeeps
<1>. QED BY <1>5, <1>6, <1>7

\* Which leg follows which.
LEMMA LegsFollow ==
    ASSUME NEW j \in Jobs, LegFits(j.ask.kind, j.leg)
    PROVE  /\ OnOk(j) \in Legs /\ LegFits(j.ask.kind, OnOk(j))
           /\ OnRefusal(j) \in Legs /\ LegFits(j.ask.kind, OnRefusal(j))
<1>1. OnOk(j) \in Legs /\ OnRefusal(j) \in Legs
  BY JobFields DEF Legs
<1>2. j.leg \in Legs
  BY JobFields DEF Legs
<1>3. LegFits(j.ask.kind, OnOk(j))
  BY <1>2 DEF OnOk, LegFits, Legs, ItemLegs, CashLegs
<1>4. LegFits(j.ask.kind, OnRefusal(j))
  BY <1>2 DEF OnRefusal, LegFits, Legs, ItemLegs, CashLegs
<1>. QED BY <1>1, <1>3, <1>4

LEMMA SetRecordKeeps ==
    ASSUME TypeOK, TypeOK', Sound, NEW s \in Scripts, SetRecord(s)
    PROVE  Sound' /\ ItemsBalance /\ CashBalances /\ NothingMade
<1>. DEFINE j == scripts[s]
            leg == OnOk(j)
            x == NextJob(j, leg)
<1>1. j \in Jobs /\ j.leg \in ItemLegs /\ j.stage = "set" /\ Goto(s, j, leg)
      /\ UNCHANGED <<online, login, purse, db, world, busy, requests, faults, ghosts>>
  BY DEF SetRecord, TypeOK
<1>2. LegFits(j.ask.kind, j.leg) /\ \A p \in Players : j.ask.seen[p] <= login[p]
  BY DEF Sound, Fits
<1>3. leg \in Legs /\ LegFits(j.ask.kind, leg)
  BY <1>1, <1>2, LegsFollow
<1>4. scripts' = [scripts EXCEPT ![s] = x]
  BY <1>1, GotoNext
<1>5. x \in Jobs
  BY <1>4 DEF TypeOK
<1>6. Fits(x)
  BY <1>1, <1>2, <1>3, NextFits
<1>7. (\A c \in Classes : Carried(x, c) = Carried(j, c)) /\ CashCarried(x) = CashCarried(j)
        /\ Owed(x) = Owed(j)
  <2>1. /\ \A c \in Classes : Carried(x, c) =
              IF j.ask.class = c /\ j.ask.kind \in {"give", "sell"} /\ leg \in {"in", "pay", "back"}
              THEN j.ask.n ELSE 0
        /\ CashCarried(x) = IF leg \in {"cashIn", "cashBack"} THEN j.ask.n ELSE 0
        /\ Owed(x) = IF j.ask.kind \in Processing /\ leg = "goods" THEN j.ask.n ELSE 0
    BY <1>1, <1>3, NextHolds
  <2>. HIDE DEF x
  <2>2. leg \in {"in", "pay", "back"} <=> (j.leg = "out" /\ j.ask.kind \in {"give", "sell"})
    BY <1>1 DEF OnOk, ItemLegs
  <2>3. leg \notin {"cashIn", "cashBack"}
    BY <1>1 DEF OnOk, ItemLegs
  <2>4. leg = "goods" <=> (j.leg = "out" /\ j.ask.kind \in Processing)
    BY <1>1 DEF OnOk, ItemLegs, Processing
  <2>. HIDE DEF leg
  <2>5. \A c \in Classes : Carried(j, c) =
           IF j.ask.class = c /\ j.ask.kind \in {"give", "sell"} /\ j.leg = "out" THEN j.ask.n ELSE 0
    BY <1>1 DEF Carried
  <2>6. CashCarried(j) = 0
    BY <1>1 DEF CashCarried, ItemLegs
  <2>7. Owed(j) = IF j.ask.kind \in Processing /\ j.leg = "out" THEN j.ask.n ELSE 0
    BY <1>1 DEF Owed
  <2>. QED BY <2>1, <2>2, <2>3, <2>4, <2>5, <2>6, <2>7
<1>8. (\A c \in Classes : Carried(x, c) \in Nat) /\ CashCarried(x) \in Nat /\ Owed(x) \in Nat
  BY <1>5, Weights
<1>9. UNCHANGED <<told, stock, toldCash, boxCash, issued, issuedCash, saved, trunkSaved, open>>
  BY <1>1 DEF db, world, ghosts
<1>. HIDE DEF x, leg
<1>10. ItemsBalance /\ CashBalances /\ NothingMade
  <2>1. /\ \A c \in Classes : Carried(x, c) <= Carried(scripts[s], c)
             /\ Carried(x, c) = Carried(scripts[s], c)
        /\ CashCarried(x) = CashCarried(scripts[s]) /\ Owed(x) <= Owed(scripts[s])
    BY <1>7, <1>8
  <2>. QED BY <1>4, <1>5, <1>9, <2>1, ScriptBalances
<1>11. \A t \in Scripts : Fits(scripts[t])'
  BY <1>1, <1>4, <1>5, <1>6, JobsFit
<1>12. \A p \in Players, c \in Classes : record'[p][c] >= 0
  <2>1. \A c \in Classes : j.list[c] >= 0
    BY DEF Sound, Fits
  <2>2. \A p \in Players : record'[p] = record[p] \/ record'[p] = j.list
    BY DEF SetRecord, TypeOK, Lists
  <2>. QED BY <2>1, <2>2 DEF Sound, NoDebts
<1>13. Sound'
  BY <1>1, <1>9, <1>11, <1>12 DEF Sound, NoDebts, BagsEmptied
<1>. QED BY <1>10, <1>13

LEMMA BookKeeps ==
    ASSUME TypeOK, TypeOK', Sound, NEW s \in Scripts, Book(s)
    PROVE  Sound' /\ ItemsBalance /\ CashBalances /\ NothingMade
<1>. DEFINE j == scripts[s]
            leg == OnOk(j)
            x == NextJob(j, leg)
<1>1. j \in Jobs /\ j.stage = "book" /\ Goto(s, j, leg)
      /\ UNCHANGED <<online, login, record, saved, trunkSaved, open, told, stock, toldCash, boxCash,
           issued, issuedCash>>
      /\ faults' = faults
  BY DEF Book, TypeOK, db, world, ghosts
<1>2. LegFits(j.ask.kind, j.leg) /\ j.leg \in CashLegs
  BY <1>1 DEF Sound, Fits
<1>3. leg \in Legs /\ LegFits(j.ask.kind, leg)
  BY <1>1, <1>2, LegsFollow
<1>4. (\A c \in Classes : Carried(x, c) = Carried(j, c)) /\ CashCarried(x) = CashCarried(j)
        /\ Owed(x) = Owed(j)
  <2>1. /\ \A c \in Classes : Carried(x, c) =
              IF j.ask.class = c /\ j.ask.kind \in {"give", "sell"} /\ leg \in {"in", "pay", "back"}
              THEN j.ask.n ELSE 0
        /\ CashCarried(x) = IF leg \in {"cashIn", "cashBack"} THEN j.ask.n ELSE 0
        /\ Owed(x) = IF j.ask.kind \in Processing /\ leg = "goods" THEN j.ask.n ELSE 0
    BY <1>1, <1>3, NextHolds
  <2>. HIDE DEF x
  <2>2. leg \notin {"in", "pay", "back"} /\ leg # "cashBack"
    BY <1>2 DEF OnOk, CashLegs
  <2>3. leg = "cashIn" <=> j.leg = "cashOut"
    BY <1>2 DEF OnOk, CashLegs
  <2>4. j.ask.kind \in Processing => leg # "goods"
    BY <1>2 DEF OnOk, CashLegs, Processing, LegFits
  <2>. HIDE DEF leg
  <2>5. (\A c \in Classes : Carried(j, c) = 0) /\ Owed(j) = 0
    BY <1>1 DEF Carried, Owed
  <2>6. CashCarried(j) = IF j.leg = "cashOut" THEN j.ask.n ELSE 0
    BY <1>1 DEF CashCarried
  <2>. QED BY <2>1, <2>2, <2>3, <2>4, <2>5, <2>6
<1>5. (\A c \in Classes : Carried(j, c) \in Nat) /\ CashCarried(j) \in Nat /\ Owed(j) \in Nat
  BY <1>1, Weights
<1>. HIDE DEF leg
<1>6. /\ \A c \in Classes : /\ Carried(NextJob(j, leg), c) <= Carried(scripts[s], c)
                            /\ Carried(NextJob(j, leg), c) = Carried(scripts[s], c)
      /\ CashCarried(NextJob(j, leg)) = CashCarried(scripts[s])
      /\ Owed(NextJob(j, leg)) <= Owed(scripts[s])
  BY <1>4, <1>5
<1>. QED BY <1>1, <1>3, <1>6, FaultsCount, GotoKeeps

LEMMA ReadListKeeps ==
    ASSUME TypeOK, TypeOK', Sound, NEW s \in Scripts, ReadList(s)
    PROVE  Sound' /\ ItemsBalance /\ CashBalances /\ NothingMade
<1>. DEFINE j == scripts[s]
            p == Whose(j)
            left == record[p][What(j)] + Delta(j)
            list == Plus(record[p], What(j), Delta(j))
<1>1. j \in Jobs /\ j.stage = "read"
      /\ UNCHANGED <<online, login, record, saved, trunkSaved, open, told, stock, toldCash, boxCash,
           issued, issuedCash>>
      /\ faults' = faults
  BY DEF ReadList, TypeOK, db, world
<1>2. Fits(j)
  BY DEF Sound
<1>3. LegFits(j.ask.kind, j.leg) /\ j.leg \in ItemLegs /\ \A i \in Players : j.ask.seen[i] <= login[i]
  BY <1>1, <1>2 DEF Fits
<1>4. p \in Players /\ What(j) \in Classes /\ Delta(j) \in Int /\ j.ask.n \in Nat
  BY <1>1, JobFields
<1>5. record[p] \in [Classes -> Int] /\ \A c \in Classes : record[p][c] \in Int /\ record[p][c] >= 0
  BY <1>4 DEF TypeOK, Lists, Sound, NoDebts
<1>6. CASE p \in online /\ left >= 0
  <2>. DEFINE x == At(j.ask, j.leg, "save", list, login[p])
  <2>1. scripts' = [scripts EXCEPT ![s] = x]
    BY <1>6 DEF ReadList
  <2>2. x \in Jobs
    BY <2>1 DEF TypeOK
  <2>3. \A c \in Classes : list[c] >= 0
    BY <1>4, <1>5, <1>6 DEF Plus
  <2>4. x.ask = j.ask /\ x.leg = j.leg /\ x.stage = "save" /\ x.list = list
    BY DEF At
  <2>. HIDE DEF x, list
  <2>5. Fits(x)
    BY <1>3, <2>3, <2>4 DEF Fits
  <2>6. /\ \A c \in Classes : Carried(x, c) = Carried(j, c)
        /\ CashCarried(x) = CashCarried(j) /\ Owed(x) = Owed(j)
    BY <1>1, <1>3, <2>4 DEF Carried, CashCarried, Owed, ItemLegs
  <2>7. (\A c \in Classes : Carried(x, c) \in Nat) /\ CashCarried(x) \in Nat /\ Owed(x) \in Nat
    BY <2>2, Weights
  <2>8. ItemsBalance /\ CashBalances /\ NothingMade
    <3>1. /\ \A c \in Classes : Carried(x, c) <= Carried(scripts[s], c)
               /\ Carried(x, c) = Carried(scripts[s], c)
          /\ CashCarried(x) = CashCarried(scripts[s]) /\ Owed(x) <= Owed(scripts[s])
      BY <2>6, <2>7
    <3>. QED BY <1>1, <2>1, <2>2, <3>1, ScriptBalances
  <2>9. Sound'
    BY <1>1, <2>1, <2>2, <2>5, JobsFit, DebtsStay
  <2>. QED BY <2>8, <2>9
<1>7. CASE ~(p \in online /\ left >= 0)
  <2>. DEFINE leg == OnRefusal(j)
              x == NextJob(j, leg)
  <2>1. Goto(s, j, leg)
    BY <1>7 DEF ReadList
  <2>2. leg \in Legs /\ LegFits(j.ask.kind, leg)
    BY <1>1, <1>3, LegsFollow
  <2>3. leg = (IF j.leg = "in" THEN "back" ELSE "done")
    BY <1>3 DEF OnRefusal, ItemLegs
  <2>4. /\ \A c \in Classes : Carried(x, c) =
              IF j.ask.class = c /\ j.ask.kind \in {"give", "sell"} /\ leg \in {"in", "pay", "back"}
              THEN j.ask.n ELSE 0
        /\ CashCarried(x) = IF leg \in {"cashIn", "cashBack"} THEN j.ask.n ELSE 0
        /\ Owed(x) = IF j.ask.kind \in Processing /\ leg = "goods" THEN j.ask.n ELSE 0
    BY <1>1, <2>2, NextHolds
  <2>. HIDE DEF x, leg
  <2>5. \A c \in Classes : Carried(j, c) =
           IF j.ask.class = c /\ j.ask.kind \in {"give", "sell"}
                /\ j.leg \in {"in", "back"} THEN j.ask.n ELSE 0
    BY <1>1, <1>3 DEF Carried, ItemLegs
  <2>6. CashCarried(j) = 0 /\ Owed(j) \in Nat
    BY <1>1, <1>3, Weights DEF CashCarried, ItemLegs
  <2>7. faults = 0 => j.leg # "back"
    <3>1. SUFFICES ASSUME faults = 0, j.leg = "back" PROVE FALSE
      OBVIOUS
    <3>2. p \in online
      BY <1>4, <3>1 DEF Sound
    <3>3. Delta(j) = j.ask.n
      BY <3>1 DEF Delta
    <3>4. left >= 0
      <4>1. record[p][What(j)] \in Int /\ record[p][What(j)] >= 0
        BY <1>4, <1>5
      <4>. QED BY <1>4, <3>3, <4>1
    <3>. QED BY <1>7, <3>2, <3>4
  <2>8. \A c \in Classes : /\ Carried(x, c) <= Carried(j, c)
                           /\ faults' = 0 => Carried(x, c) = Carried(j, c)
    BY <1>1, <1>4, <2>3, <2>4, <2>5, <2>7
  <2>9. CashCarried(x) = CashCarried(j) /\ Owed(x) <= Owed(j)
    BY <2>3, <2>4, <2>6
  <2>10. /\ \A c \in Classes : /\ Carried(NextJob(j, leg), c) <= Carried(scripts[s], c)
                               /\ faults' = 0 => Carried(NextJob(j, leg), c) = Carried(scripts[s], c)
         /\ CashCarried(NextJob(j, leg)) = CashCarried(scripts[s])
         /\ Owed(NextJob(j, leg)) <= Owed(scripts[s])
    BY <2>8, <2>9 DEF x
  <2>11. faults <= faults'
    BY <1>1, FaultsCount
  <2>. HIDE DEF j
  <2>12. j.ask.seen = scripts[s].ask.seen
    BY DEF j
  <2>. QED BY <1>1, <2>1, <2>2, <2>10, <2>11, <2>12, FaultsCount, GotoKeeps
<1>. QED BY <1>6, <1>7

\* What a script takes from or gives to a player it carries, makes or uses up.
LEMMA ItemsMoveOn ==
    ASSUME TypeOK, TypeOK', NEW s \in Scripts, NEW x \in Jobs, scripts' = [scripts EXCEPT ![s] = x],
           NEW p \in Players, NEW c \in Classes, stock' = stock,
             \A q \in Players \ {p} : told'[q] = told[q],
           (told'[p][c] - told[p][c]) + (Carried(x, c) - Carried(scripts[s],
             c)) = issued'[c] - issued[c]
    PROVE  Accounted(c)' - issued'[c] = Accounted(c) - issued[c]
<1>1. Told(c)' = Told(c) + (told'[p][c] - told[p][c])
  <2>1. \A q \in Players \ {p} : told'[q][c] = told[q][c]
    OBVIOUS
  <2>. QED BY <2>1, ToldMoves
<1>2. Stored(c)' = Stored(c)
  BY DEF Stored
<1>3. InFlight(c)' = InFlight(c) + (Carried(x, c) - Carried(scripts[s], c))
  BY FlightMoves
<1>4. Told(c) \in Int /\ Stored(c) \in Int /\ InFlight(c) \in Int
  BY SumTypes
<1>5. Carried(x, c) \in Int /\ Carried(scripts[s], c) \in Int
  <2>1. scripts[s] \in Jobs
    BY DEF TypeOK
  <2>. QED BY <2>1, Weights
<1>6. told'[p][c] \in Int /\ told[p][c] \in Int /\ issued'[c] \in Int /\ issued[c] \in Int
  BY DEF TypeOK, Lists
<1>7. Accounted(c) = Told(c) + Stored(c) + InFlight(c)
        /\ Accounted(c)' = Told(c)' + Stored(c)' + InFlight(c)'
  BY DEF Accounted
<1>. QED BY <1>1, <1>2, <1>3, <1>4, <1>5, <1>6, <1>7

LEMMA CashMovesOn ==
    ASSUME TypeOK, TypeOK', NEW s \in Scripts, NEW x \in Jobs, scripts' = [scripts EXCEPT ![s] = x],
           NEW p \in Players, boxCash' = boxCash, \A q \in Players \ {p} : toldCash'[q] = toldCash[q],
           (toldCash'[p] - toldCash[p]) + (CashCarried(x) - CashCarried(scripts[s])) = issuedCash' - issuedCash
    PROVE  CashBalances
<1>1. PICK c \in Classes : TRUE
  BY ItemsAssumption
<1>2. toldCash \in [Players -> Int] /\ toldCash' \in [Players -> Int] /\ issuedCash \in Int
        /\ issuedCash' \in Int
      /\ scripts[s] \in Jobs
  BY DEF TypeOK
<1>3. SumOf(toldCash') = SumOf(toldCash) + (toldCash'[p] - toldCash[p])
  <2>1. IsFiniteSet(Players) /\ \A q \in Players : q # p => toldCash[q] = toldCash'[q]
    BY FinitelyMany
  <2>. QED BY <1>2, <2>1, SumMoves
<1>4. CashInFlight' = CashInFlight + (CashCarried(x) - CashCarried(scripts[s]))
  BY <1>1, FlightMoves
<1>5. SumOf(toldCash) \in Int /\ SumOf(boxCash) \in Int /\ CashInFlight \in Int
  BY <1>1, SumTypes
<1>6. CashCarried(x) \in Int /\ CashCarried(scripts[s]) \in Int /\ toldCash[p] \in Int
        /\ toldCash'[p] \in Int
  BY <1>2, Weights
<1>7. CashAccounted = SumOf(toldCash) + SumOf(boxCash) + CashInFlight
      /\ CashAccounted' = SumOf(toldCash') + SumOf(boxCash) + CashInFlight'
  BY DEF CashAccounted
<1>8. CashAccounted' - issuedCash' = CashAccounted - issuedCash /\ CashAccounted - issuedCash \in Int
  BY <1>2, <1>3, <1>4, <1>5, <1>6, <1>7
<1>. QED BY <1>8 DEF CashBalances

LEMMA OwedMovesOn ==
    ASSUME TypeOK, TypeOK', NEW s \in Scripts, NEW x \in Jobs, scripts' = [scripts EXCEPT ![s] = x],
           NEW d \in Int, SumOf(issued)' = SumOf(issued) + d, d + Owed(x) <= Owed(scripts[s])
    PROVE  NothingMade
<1>1. PICK c \in Classes : TRUE
  BY ItemsAssumption
<1>2. AllOwed' = AllOwed + (Owed(x) - Owed(scripts[s])) /\ scripts[s] \in Jobs
  BY <1>1, FlightMoves DEF TypeOK
<1>3. SumOf(issued) \in Int /\ AllOwed \in Int /\ Owed(x) \in Int /\ Owed(scripts[s]) \in Int
  BY <1>1, <1>2, SumTypes, Weights
<1>. QED BY <1>2, <1>3 DEF NothingMade

\* What is made is made by a handler that makes, or by a processor that owes it.
NoMakers == Handlers \cap Makers = {}

LEMMA SaveListKeeps ==
    ASSUME TypeOK, TypeOK', Sound, NEW s \in Scripts, SaveList(s)
    PROVE  Sound' /\ ItemsBalance /\ CashBalances /\ (NoMakers => NothingMade)
<1>. DEFINE j == scripts[s]
            p == Whose(j)
<1>1. j \in Jobs /\ j.stage = "save" /\ j.leg \in ItemLegs /\ Fits(j)
      /\ UNCHANGED <<online, login, record, trunkSaved, open, stock, toldCash, boxCash, issuedCash>>
  BY DEF SaveList, TypeOK, world, Sound
<1>2. LegFits(j.ask.kind, j.leg) /\ (\A i \in Players : j.ask.seen[i] <= login[i])
        /\ \A c \in Classes : j.list[c] >= 0
  BY <1>1 DEF Fits
<1>3. /\ p \in Players /\ What(j) \in Classes /\ Delta(j) \in Int /\ j.ask.n \in Nat
           /\ j.ask.class \in Classes
  BY <1>1, JobFields
<1>4. PICK answer \in {"OK", "refused", "replyLost"} :
        /\ Answered(answer, "OK", "OK")
        /\ saved' = IF answer = "refused" THEN saved ELSE [saved EXCEPT ![p] = j.list]
        /\ IF answer = "OK"
           THEN /\ scripts' = [scripts EXCEPT ![s] = At(j.ask, j.leg, "set", j.list, j.gen)]
                /\ told' = [told EXCEPT ![p] = Plus(told[p], What(j), Delta(j))]
                /\ issued' = Issue(j)
           ELSE Goto(s, j, OnRefusal(j)) /\ UNCHANGED <<told, issued>>
  BY DEF SaveList
<1>5. faults \in Nat /\ faults' \in Nat /\ faults <= faults' /\ (answer # "OK" => faults' # 0)
  BY <1>4, FaultsCount DEF Answered, Bad
<1>6. \A i \in Players, c \in Classes : saved'[i][c] >= 0
  <2>1. \A i \in Players : saved'[i] = saved[i] \/ saved'[i] = j.list
    BY <1>4 DEF TypeOK, Lists
  <2>. HIDE DEF j
  <2>. QED BY <1>2, <2>1 DEF Sound, NoDebts
<1>7. ASSUME \A t \in Scripts : Fits(scripts[t])'
      PROVE  Sound'
  <2>1. faults' = 0 => online' = Players
    BY <1>1, <1>5 DEF Sound
  <2>. HIDE DEF j
  <2>2. NoDebts' /\ BagsEmptied'
    BY <1>1, <1>6 DEF Sound, NoDebts, BagsEmptied
  <2>. QED BY <1>7, <2>1, <2>2 DEF Sound
<1>8. CASE answer # "OK"
  <2>. DEFINE leg == OnRefusal(j)
              x == NextJob(j, leg)
  <2>1. Goto(s, j, leg) /\ UNCHANGED <<told, issued>>
    BY <1>4, <1>8
  <2>2. leg \in Legs /\ LegFits(j.ask.kind, leg)
    BY <1>1, <1>2, LegsFollow
  <2>3. leg = (IF j.leg = "in" THEN "back" ELSE "done")
    BY <1>1 DEF OnRefusal, ItemLegs
  <2>4. /\ \A c \in Classes : Carried(x, c) =
              IF j.ask.class = c /\ j.ask.kind \in {"give", "sell"} /\ leg \in {"in", "pay", "back"}
              THEN j.ask.n ELSE 0
        /\ CashCarried(x) = IF leg \in {"cashIn", "cashBack"} THEN j.ask.n ELSE 0
        /\ Owed(x) = IF j.ask.kind \in Processing /\ leg = "goods" THEN j.ask.n ELSE 0
    BY <1>1, <2>2, NextHolds
  <2>5. scripts' = [scripts EXCEPT ![s] = x]
    BY <2>1, GotoNext
  <2>6. x \in Jobs
    BY <2>5 DEF TypeOK
  <2>7. Fits(x)
    BY <1>1, <1>2, <2>2, NextFits
  <2>. HIDE DEF x, leg
  <2>8. \A c \in Classes : Carried(j, c) =
           IF j.ask.class = c /\ j.ask.kind \in {"give", "sell"}
                /\ j.leg \in {"in", "back"} THEN j.ask.n ELSE 0
    BY <1>1 DEF Carried, ItemLegs
  <2>9. CashCarried(j) = 0 /\ Owed(j) \in Nat
    BY <1>1, Weights DEF CashCarried, ItemLegs
  <2>10. \A c \in Classes : Carried(x, c) <= Carried(j, c)
    BY <1>3, <2>3, <2>4, <2>8
  <2>11. CashCarried(x) = CashCarried(j) /\ Owed(x) <= Owed(j)
    BY <2>3, <2>4, <2>9
  <2>12. ItemsBalance /\ CashBalances /\ NothingMade
    BY <1>1, <1>5, <1>8, <2>1, <2>5, <2>6, <2>10, <2>11, ScriptBalances
  <2>13. \A t \in Scripts : Fits(scripts[t])'
    BY <1>1, <2>5, <2>6, <2>7, JobsFit
  <2>. QED BY <1>7, <2>12, <2>13
<1>9. CASE answer = "OK"
  <2>. DEFINE x == At(j.ask, j.leg, "set", j.list, j.gen)
  <2>1. /\ scripts' = [scripts EXCEPT ![s] = x]
        /\ told' = [told EXCEPT ![p] = Plus(told[p], What(j), Delta(j))] /\ issued' = Issue(j)
    BY <1>4, <1>9
  <2>2. x.ask = j.ask /\ x.leg = j.leg /\ x.stage = "set" /\ x.list = j.list
    BY DEF At
  <2>3. x \in Jobs
    BY <2>1 DEF TypeOK
  <2>. HIDE DEF x
  <2>4. Fits(x)
    BY <1>1, <1>2, <2>2 DEF Fits
  <2>5. \A t \in Scripts : Fits(scripts[t])'
    BY <1>1, <2>1, <2>3, <2>4, JobsFit
  <2>6. /\ \A q \in Players \ {p} : told'[q] = told[q]
        /\ \A c \in Classes : told'[p][c] = told[p][c] + (IF c = What(j) THEN Delta(j) ELSE 0)
             /\ told[p][c] \in Int
    <3>1. told \in Lists /\ told[p] \in [Classes -> Int]
      BY <1>3 DEF TypeOK, Lists
    <3>2. told'[p] = Plus(told[p], What(j), Delta(j)) /\ \A q \in Players \ {p} : told'[q] = told[q]
      BY <1>3, <2>1, <3>1 DEF Lists
    <3>. QED BY <1>3, <3>1, <3>2 DEF Plus
  <2>7. /\ \A c \in Classes : Carried(x, c) =
              IF j.ask.class = c /\ j.ask.kind \in {"give", "sell"} /\ j.leg = "out" THEN j.ask.n ELSE 0
        /\ \A c \in Classes : Carried(j, c) =
              IF j.ask.class = c /\ j.ask.kind \in {"give", "sell"}
                   /\ j.leg \in {"in", "back"} THEN j.ask.n ELSE 0
        /\ CashCarried(x) = 0 /\ CashCarried(j) = 0
        /\ Owed(x) = IF j.ask.kind \in Processing /\ j.leg = "out" THEN j.ask.n ELSE 0
        /\ Owed(j) = IF j.ask.kind \in Processing /\ j.leg = "goods" THEN j.ask.n ELSE 0
    BY <1>1, <2>2 DEF Carried, CashCarried, Owed, ItemLegs
  <2>8. issued \in [Classes -> Int] /\ issuedCash \in Int /\ issuedCash' = issuedCash
          /\ toldCash \in [Players -> Int]
    BY <1>1 DEF TypeOK
  <2>9. CashBalances
    <3>1. (toldCash'[p] - toldCash[p]) + (CashCarried(x) - CashCarried(scripts[s])) = issuedCash' - issuedCash
      BY <1>1, <1>3, <2>7, <2>8
    <3>2. \A q \in Players \ {p} : toldCash'[q] = toldCash[q]
      BY <1>1
    <3>. QED BY <1>1, <1>3, <2>1, <2>3, <3>1, <3>2, CashMovesOn
  <2>10. PICK d \in Int :
           /\ SumOf(issued)' = SumOf(issued) + d /\ (NoMakers => d + Owed(x) <= Owed(j))
           /\ \A c \in Classes :
                 (IF c = What(j) THEN Delta(j) ELSE 0) + (Carried(x, c) - Carried(j,
                   c)) = issued'[c] - issued[c]
    <3>1. CASE j.leg = "goods"
      <4>1. issued' = Plus(issued, What(j), j.ask.n) /\ Delta(j) = j.ask.n
        BY <2>1, <3>1 DEF Issue, Delta
      <4>2. /\ SumOf(issued)' = SumOf(issued) + j.ask.n
            /\ \A c \in Classes : issued'[c] = issued[c] + (IF c = What(j) THEN j.ask.n ELSE 0)
        BY <1>3, <2>8, <4>1, IssuedMoves
      <4>3. NoMakers => j.ask.kind \in Processing
        BY <1>2, <3>1 DEF LegFits, NoMakers, Makers, Processing
      <4>4. Owed(x) = 0 /\ \A c \in Classes : Carried(x, c) = 0 /\ Carried(j, c) = 0
        BY <2>7, <3>1
      <4>5. NoMakers => Owed(j) = j.ask.n
        BY <2>7, <3>1, <4>3
      <4>6. \A c \in Classes :
               (IF c = What(j) THEN Delta(j) ELSE 0) + (Carried(x, c) - Carried(j,
                 c)) = issued'[c] - issued[c]
        BY <1>3, <2>8, <4>1, <4>2, <4>4
      <4>7. j.ask.n \in Int
        BY <1>3
      <4>. QED BY <1>3, <4>2, <4>4, <4>5, <4>6, <4>7
    <3>2. CASE j.leg = "out" /\ j.ask.kind \notin {"give", "sell"}
      <4>1. issued' = Plus(issued, j.ask.class, -j.ask.n) /\ Delta(j) = -j.ask.n
              /\ What(j) = j.ask.class
        BY <2>1, <3>2 DEF Issue, Delta, What
      <4>2. /\ SumOf(issued)' = SumOf(issued) + (-j.ask.n)
            /\ \A c \in Classes : issued'[c] = issued[c] + (IF c = j.ask.class THEN -j.ask.n ELSE 0)
        BY <1>3, <2>8, <4>1, IssuedMoves
      <4>3. \A c \in Classes : Carried(x, c) = 0 /\ Carried(j, c) = 0
        BY <2>7, <3>2
      <4>4. -j.ask.n + Owed(x) <= Owed(j)
        BY <1>3, <2>7, <3>2
      <4>5. \A c \in Classes :
               (IF c = What(j) THEN Delta(j) ELSE 0) + (Carried(x, c) - Carried(j,
                 c)) = issued'[c] - issued[c]
        BY <1>3, <2>8, <4>1, <4>2, <4>3
      <4>6. -j.ask.n \in Int
        BY <1>3
      <4>. QED BY <4>2, <4>4, <4>5, <4>6
    <3>3. CASE j.leg # "goods" /\ ~(j.leg = "out" /\ j.ask.kind \notin {"give", "sell"})
      <4>1. issued' = issued /\ What(j) = j.ask.class
        BY <1>1, <2>1, <3>3 DEF Issue, What, ItemLegs
      <4>2. j.leg \in {"out", "in", "back"} /\ j.ask.kind \in {"give", "sell"}
        BY <1>1, <1>2, <3>3 DEF ItemLegs, LegFits
      <4>3. Delta(j) = IF j.leg = "out" THEN -j.ask.n ELSE j.ask.n
        BY <4>2 DEF Delta
      <4>4. Owed(x) = 0 /\ Owed(j) = 0
        BY <2>7, <4>2 DEF Processing
      <4>5. \A c \in Classes :
               (IF c = What(j) THEN Delta(j) ELSE 0) + (Carried(x, c) - Carried(j,
                 c)) = issued'[c] - issued[c]
        BY <1>3, <2>7, <2>8, <4>1, <4>2, <4>3
      <4>6. SumOf(issued) \in Int /\ SumOf(issued)' = SumOf(issued) + 0
        <5>1. SumOf(issued) \in Int
          BY <2>8, FinitelyMany, SumIs
        <5>2. SumOf(issued)' = SumOf(issued)
          BY <4>1
        <5>. QED BY <5>1, <5>2
      <4>. QED BY <4>4, <4>5, <4>6
    <3>. QED BY <3>1, <3>2, <3>3
  <2>11. ItemsBalance
    <3>1. ASSUME NEW c \in Classes
          PROVE  Accounted(c)' - issued'[c] = Accounted(c) - issued[c]
      <4>1. (told'[p][c] - told[p][c]) + (Carried(x, c) - Carried(scripts[s],
              c)) = issued'[c] - issued[c]
        BY <1>3, <2>6, <2>10
      <4>. QED BY <1>1, <1>3, <2>1, <2>3, <2>6, <4>1, ItemsMoveOn
    <3>2. \A c \in Classes : Accounted(c) - issued[c] \in Int
      BY <2>8, SumTypes DEF Accounted
    <3>. QED BY <3>1, <3>2 DEF ItemsBalance
  <2>12. NoMakers => NothingMade
    BY <2>1, <2>3, <2>10, OwedMovesOn
  <2>. QED BY <1>7, <2>5, <2>9, <2>11, <2>12
<1>. QED BY <1>8, <1>9

LEMMA SaveCashKeeps ==
    ASSUME TypeOK, TypeOK', Sound, NEW s \in Scripts, SaveCash(s)
    PROVE  Sound' /\ ItemsBalance /\ CashBalances /\ NothingMade
<1>. DEFINE j == scripts[s]
            p == Whose(j)
<1>1. j \in Jobs /\ j.stage = "save" /\ j.leg \in CashLegs /\ Fits(j)
      /\ UNCHANGED <<online, login, record, saved, trunkSaved, open, stock, boxCash, told>>
  BY DEF SaveCash, TypeOK, world, Sound
<1>2. LegFits(j.ask.kind, j.leg) /\ \A i \in Players : j.ask.seen[i] <= login[i]
  BY <1>1 DEF Fits
<1>3. p \in Players /\ Delta(j) \in Int /\ j.ask.n \in Nat /\ j.ask.class \in Classes
  BY <1>1, JobFields
<1>4. PICK answer \in {"OK", "refused", "commitLost"}, accepted \in BOOLEAN :
        /\ Answered(answer, "OK", "OK")
        /\ j.leg = "cashBack" => accepted
        /\ IF accepted
           THEN /\ scripts' = [scripts EXCEPT ![s] = At(j.ask, j.leg, "book", Nothing, 0)]
                /\ toldCash' = [toldCash EXCEPT ![p] = toldCash[p] + Delta(j)]
                /\ issuedCash' = IssueCash(j)
                /\ issued' = Issue(j)
           ELSE Goto(s, j, OnRefusal(j)) /\ UNCHANGED <<toldCash, issuedCash, issued>>
  BY DEF SaveCash
<1>5. faults \in Nat /\ faults' \in Nat /\ faults <= faults'
  BY <1>4, FaultsCount DEF Answered, Bad
<1>6. ASSUME \A t \in Scripts : Fits(scripts[t])'
      PROVE  Sound'
  <2>1. faults' = 0 => online' = Players
    BY <1>1, <1>5 DEF Sound
  <2>. HIDE DEF j
  <2>2. NoDebts' /\ BagsEmptied'
    BY <1>1 DEF Sound, NoDebts, BagsEmptied
  <2>. QED BY <1>6, <2>1, <2>2 DEF Sound
<1>7. CASE ~accepted
  <2>. DEFINE leg == OnRefusal(j)
              x == NextJob(j, leg)
  <2>1. Goto(s, j, leg) /\ UNCHANGED <<toldCash, issuedCash, issued>> /\ j.leg # "cashBack"
    BY <1>4, <1>7
  <2>2. leg \in Legs /\ LegFits(j.ask.kind, leg)
    BY <1>1, <1>2, LegsFollow
  <2>3. leg = (IF j.leg = "pay" THEN "back" ELSE IF j.leg = "cashIn" THEN "cashBack" ELSE "done")
    BY <1>1 DEF OnRefusal, CashLegs
  <2>4. /\ \A c \in Classes : Carried(x, c) =
              IF j.ask.class = c /\ j.ask.kind \in {"give", "sell"} /\ leg \in {"in", "pay", "back"}
              THEN j.ask.n ELSE 0
        /\ CashCarried(x) = IF leg \in {"cashIn", "cashBack"} THEN j.ask.n ELSE 0
        /\ Owed(x) = IF j.ask.kind \in Processing /\ leg = "goods" THEN j.ask.n ELSE 0
    BY <1>1, <2>2, NextHolds
  <2>5. scripts' = [scripts EXCEPT ![s] = x]
    BY <2>1, GotoNext
  <2>6. x \in Jobs
    BY <2>5 DEF TypeOK
  <2>7. Fits(x)
    BY <1>1, <1>2, <2>2, NextFits
  <2>. HIDE DEF x, leg
  <2>8. /\ \A c \in Classes : Carried(j, c) =
              IF j.ask.class = c /\ j.ask.kind \in {"give", "sell"} /\ j.leg = "pay" THEN j.ask.n ELSE 0
        /\ CashCarried(j) = IF j.leg = "cashIn" THEN j.ask.n ELSE 0
        /\ Owed(j) = 0
    BY <1>1, <2>1 DEF Carried, CashCarried, Owed, CashLegs
  <2>9. (\A c \in Classes : Carried(j, c) \in Nat) /\ CashCarried(j) \in Nat
    BY <1>1, Weights
  <2>10. \A c \in Classes : Carried(x, c) = Carried(j, c) /\ Carried(x, c) <= Carried(j, c)
    BY <2>3, <2>4, <2>8, <2>9
  <2>11. CashCarried(x) = CashCarried(j) /\ Owed(x) <= Owed(j)
    BY <2>3, <2>4, <2>8
  <2>12. ItemsBalance /\ CashBalances /\ NothingMade
    BY <1>1, <2>1, <2>5, <2>6, <2>10, <2>11, ScriptBalances
  <2>13. \A t \in Scripts : Fits(scripts[t])'
    BY <1>1, <2>5, <2>6, <2>7, JobsFit
  <2>. QED BY <1>6, <2>12, <2>13
<1>8. CASE accepted
  <2>. DEFINE x == At(j.ask, j.leg, "book", Nothing, 0)
  <2>1. /\ scripts' = [scripts EXCEPT ![s] = x]
        /\ toldCash' = [toldCash EXCEPT ![p] = toldCash[p] + Delta(j)]
        /\ issuedCash' = IssueCash(j) /\ issued' = Issue(j)
    BY <1>4, <1>8
  <2>2. x.ask = j.ask /\ x.leg = j.leg /\ x.stage = "book" /\ \A c \in Classes : x.list[c] >= 0
    BY DEF At, Nothing
  <2>3. x \in Jobs
    BY <2>1 DEF TypeOK
  <2>. HIDE DEF x
  <2>4. Fits(x)
    BY <1>1, <1>2, <2>2 DEF Fits
  <2>5. \A t \in Scripts : Fits(scripts[t])'
    BY <1>1, <2>1, <2>3, <2>4, JobsFit
  <2>6. /\ \A c \in Classes : Carried(x, c) = 0
        /\ \A c \in Classes : Carried(j, c) =
              IF j.ask.class = c /\ j.ask.kind \in {"give", "sell"} /\ j.leg = "pay" THEN j.ask.n ELSE 0
        /\ CashCarried(x) = IF j.leg = "cashOut" THEN j.ask.n ELSE 0
        /\ CashCarried(j) = IF j.leg \in {"cashIn", "cashBack"} THEN j.ask.n ELSE 0
        /\ Owed(x) = 0 /\ Owed(j) = 0
    BY <1>1, <2>2 DEF Carried, CashCarried, Owed, CashLegs
  <2>7. /\ toldCash \in [Players -> Int] /\ toldCash[p] \in Int /\ issuedCash \in Int
        /\ issued \in [Classes -> Int] /\ told \in Lists
    BY <1>3 DEF TypeOK
  <2>8. toldCash'[p] = toldCash[p] + Delta(j) /\ \A q \in Players \ {p} : toldCash'[q] = toldCash[q]
    BY <1>3, <2>1, <2>7
  <2>9. CashBalances
    <3>1. Delta(j) = IF j.leg \in {"charge", "cashOut"} THEN -j.ask.n ELSE j.ask.n
      BY <1>1 DEF Delta, CashLegs
    <3>2. issuedCash' = IF j.leg = "charge" THEN issuedCash - j.ask.n
                        ELSE IF j.leg = "pay" THEN issuedCash + j.ask.n ELSE issuedCash
      BY <2>1 DEF IssueCash
    <3>3. j.leg \in {"charge", "pay", "cashOut", "cashIn", "cashBack"}
      BY <1>1 DEF CashLegs
    <3>4. (toldCash'[p] - toldCash[p]) + (CashCarried(x) - CashCarried(scripts[s])) = issuedCash' - issuedCash
      BY <1>3, <2>6, <2>7, <2>8, <3>1, <3>2, <3>3
    <3>. QED BY <1>1, <1>3, <2>1, <2>3, <2>8, <3>4, CashMovesOn
  <2>10. PICK d \in Int :
           /\ SumOf(issued)' = SumOf(issued) + d /\ d + Owed(x) <= Owed(j)
           /\ \A c \in Classes : Carried(x, c) - Carried(j, c) = issued'[c] - issued[c]
    <3>1. CASE j.leg = "pay"
      <4>1. issued' = Plus(issued, j.ask.class, -j.ask.n) /\ j.ask.kind = "sell"
        BY <1>2, <2>1, <3>1 DEF Issue, LegFits
      <4>2. -j.ask.n \in Int
        BY <1>3
      <4>3. /\ SumOf(issued)' = SumOf(issued) + (-j.ask.n)
            /\ \A c \in Classes : issued'[c] = issued[c] + (IF c = j.ask.class THEN -j.ask.n ELSE 0)
        BY <1>3, <2>7, <4>1, <4>2, IssuedMoves
      <4>4. \A c \in Classes : Carried(x, c) - Carried(j, c) = issued'[c] - issued[c]
        BY <1>3, <2>6, <2>7, <3>1, <4>1, <4>3
      <4>5. -j.ask.n + Owed(x) <= Owed(j)
        BY <1>3, <2>6
      <4>. QED BY <4>2, <4>3, <4>4, <4>5
    <3>2. CASE j.leg # "pay"
      <4>1. issued' = issued
        BY <1>1, <2>1, <3>2 DEF Issue, CashLegs
      <4>2. SumOf(issued) \in Int /\ SumOf(issued)' = SumOf(issued)
        <5>1. SumOf(issued) \in Int
          BY <2>7, FinitelyMany, SumIs
        <5>. QED BY <4>1, <5>1
      <4>3. \A c \in Classes : Carried(x, c) - Carried(j, c) = issued'[c] - issued[c]
        BY <1>3, <2>6, <2>7, <3>2, <4>1
      <4>. QED BY <2>6, <4>2, <4>3
    <3>. QED BY <3>1, <3>2
  <2>11. ItemsBalance
    <3>1. ASSUME NEW c \in Classes
          PROVE  Accounted(c)' - issued'[c] = Accounted(c) - issued[c]
      <4>1. told[p][c] \in Int /\ told' = told
        BY <1>1, <1>3, <2>7 DEF Lists
      <4>2. Carried(x, c) \in Int /\ Carried(scripts[s], c) \in Int
        BY <1>1, <2>3, Weights
      <4>3. (told'[p][c] - told[p][c]) + (Carried(x, c) - Carried(scripts[s],
              c)) = issued'[c] - issued[c]
        BY <2>10, <4>1, <4>2
      <4>. QED BY <1>1, <1>3, <2>1, <2>3, <4>1, <4>3, ItemsMoveOn
    <3>2. \A c \in Classes : Accounted(c) - issued[c] \in Int
      BY <2>7, SumTypes DEF Accounted
    <3>. QED BY <3>1, <3>2 DEF ItemsBalance
  <2>12. NothingMade
    BY <2>1, <2>3, <2>10, OwedMovesOn
  <2>. QED BY <1>6, <2>5, <2>9, <2>11, <2>12
<1>. QED BY <1>7, <1>8

-----------------------------------------------------------------------------
(* Atomic handlers and the world around them.                                *)

LEMMA NoScriptMoves ==
    ASSUME TypeOK, scripts' = scripts, NEW c \in Classes
    PROVE  InFlight(c)' = InFlight(c) /\ CashInFlight' = CashInFlight /\ AllOwed' = AllOwed
BY DEF InFlight, CashInFlight, AllOwed, Carried, CashCarried, Owed

LEMMA FitsStay ==
    ASSUME Sound, scripts' = scripts, login' = login
    PROVE  \A s \in Scripts : Fits(scripts[s])'
BY DEF Sound, Fits

\* No more is moved than there is.
LEMMA TransferBounds ==
    ASSUME TypeOK, Sound, NEW p \in Players, NEW k \in Containers, NEW sign \in {1, -1},
             NEW c \in Classes,
           NEW n \in Nat, NEW m \in Nat, Transfer(p, k, sign, c, n, m)
    PROVE  \E d \in Int, dollars \in Int, a \in {"OK", "refused", "replyLost"},
              b \in {"OK", "refused", "commitLost"}, t \in {"OK", "refused"} :
                 /\ Move(p, k, c, d, dollars, a, b, t)
                 /\ d <= stock[k][c] /\ -d <= record[p][c] /\ dollars <= boxCash[k]
<1>. DEFINE have == IF sign = 1 THEN stock[k][c] ELSE record[p][c]
            fit == IF sign = 1 THEN Room(record[p], Carry)
                   ELSE IF k \in Trunks THEN Room(stock[k], Capacity) ELSE have
            dollars == Greatest(0, Least(m, IF sign = 1 THEN boxCash[k] ELSE purse[p]))
<1>1. PICK items \in 0..n, a \in {"OK", "refused", "replyLost"}, b \in {"OK", "refused", "commitLost"},
        t \in {"OK", "refused"} :
        /\ items = Least(n, Least(have, fit))
        /\ Move(p, k, c, sign * items, sign * dollars, a, b, t)
  BY DEF Transfer
<1>2. /\ stock[k][c] \in Int /\ stock[k][c] >= 0 /\ record[p][c] \in Int /\ record[p][c] >= 0
      /\ boxCash[k] \in Int /\ boxCash[k] >= 0 /\ purse[p] \in Int
  BY DEF TypeOK, Lists, Sound, NoDebts
<1>3. dollars \in Nat /\ (sign = 1 => dollars <= boxCash[k])
  BY <1>2 DEF Greatest, Least
<1>4. Least(have, fit) <= have \/ fit \notin Int
  BY <1>2 DEF Least
<1>5. fit \in Int
  <2>1. Weight(record[p]) \in Int /\ Weight(stock[k]) \in Int
    <3>1. record[p] \in [Classes -> Int] /\ stock[k] \in [Classes -> Int]
      BY DEF TypeOK, Lists
    <3>. QED BY <3>1, FinitelyMany, SumIs DEF Weight
  <2>. QED BY <1>2, <2>1, ItemsAssumption DEF Room
<1>. HIDE DEF have, fit, dollars
<1>6. items \in Int /\ items >= 0 /\ items <= Least(have, fit) /\ have \in Int
  BY <1>1, <1>2, <1>5 DEF have, Least
<1>7. items <= have
  BY <1>4, <1>5, <1>6 DEF Least
<1>8. CASE sign = 1
  <2>1. sign * items = items /\ sign * dollars = dollars /\ have = stock[k][c]
    BY <1>3, <1>6, <1>8 DEF have
  <2>2. items <= stock[k][c] /\ -items <= record[p][c] /\ dollars <= boxCash[k] /\ dollars \in Int
    BY <1>2, <1>3, <1>6, <1>7, <1>8, <2>1
  <2>. QED BY <1>1, <1>6, <2>1, <2>2
<1>9. CASE sign = -1
  <2>1. sign * items = -items /\ sign * dollars = -dollars /\ have = record[p][c]
    BY <1>3, <1>6, <1>9 DEF have
  <2>2. -items <= stock[k][c] /\ -(-items) <= record[p][c] /\ -dollars <= boxCash[k] /\ -dollars \in Int
          /\ -items \in Int
    BY <1>2, <1>3, <1>6, <1>7, <2>1
  <2>. QED BY <1>1, <2>1, <2>2
<1>. QED BY <1>8, <1>9

LEMMA MoveKeeps ==
    ASSUME TypeOK, TypeOK', Sound, NEW p \in online, NEW k \in Containers, NEW c \in Classes,
           NEW d \in Int, NEW dollars \in Int, NEW a \in {"OK", "refused", "replyLost"},
           NEW b \in {"OK", "refused", "commitLost"}, NEW t \in {"OK", "refused"},
           Move(p, k, c, d, dollars, a, b, t), UNCHANGED <<online, login, scripts, busy, issued,
             issuedCash>>,
           d <= stock[k][c], -d <= record[p][c], dollars <= boxCash[k]
    PROVE  Sound' /\ ItemsBalance /\ CashBalances /\ NothingMade
<1>. DEFINE moved == IF a = "OK" THEN d ELSE 0
            paid == IF b # "refused" /\ ~(pocket[p] + dollars < 0) THEN dollars ELSE 0
<1>1. /\ Answered(a, b, t) /\ ChangeList(p, c, d, a) /\ PayFrom(k, p, paid, b)
      /\ stock' = [stock EXCEPT ![k] = Plus(stock[k], c, -moved)]
      /\ open' = Tidied(Laid(k))
      /\ trunkSaved' = trunkSaved
           \/ (k \in Trunks /\ trunkSaved' = [trunkSaved EXCEPT ![k] = TrunkRow(k)])
  BY DEF Move
<1>2. /\ p \in Players /\ stock \in [Containers -> [Classes -> Int]] /\ boxCash \in [Containers -> Int]
      /\ toldCash \in [Players -> Int] /\ told \in Lists /\ record \in Lists /\ saved \in Lists
      /\ issuedCash \in Int /\ issued \in [Classes -> Int]
  BY DEF TypeOK
<1>3. faults \in Nat /\ faults' \in Nat /\ faults <= faults'
  BY <1>1, FaultsCount DEF Answered, Bad
<1>4. moved \in Int /\ moved <= stock[k][c] /\ paid \in Int /\ paid <= boxCash[k]
  BY <1>2 DEF Sound, NoDebts
<1>. HIDE DEF moved, paid
<1>5. /\ \A i \in Containers \ {k} : stock'[i] = stock[i]
      /\ \A e \in Classes : stock'[k][e] = stock[k][e] - (IF e = c THEN moved ELSE 0)
  BY <1>1, <1>2, <1>4 DEF Plus
<1>6. /\ boxCash'[k] = boxCash[k] - paid /\ \A i \in Containers \ {k} : boxCash'[i] = boxCash[i]
      /\ toldCash'[p] = toldCash[p] + paid /\ \A q \in Players \ {p} : toldCash'[q] = toldCash[q]
  BY <1>1, <1>2, <1>4 DEF PayFrom
<1>7. /\ \A q \in Players \ {p} : told'[q] = told[q] /\ record'[q] = record[q] /\ saved'[q] = saved[q]
      /\ \A e \in Classes : told'[p][e] = told[p][e] + (IF e = c THEN moved ELSE 0)
      /\ record'[p] \in {record[p], Plus(record[p], c, d)}
           /\ saved'[p] \in {saved[p], Plus(record[p], c, d)}
  <2>1. told[p] \in [Classes -> Int] /\ \A e \in Classes : told[p][e] \in Int
    BY <1>2 DEF Lists
  <2>2. told' = (IF a = "OK" THEN [told EXCEPT ![p] = Plus(told[p], c, d)] ELSE told)
    BY <1>1 DEF ChangeList
  <2>3. \A q \in Players \ {p} : told'[q] = told[q]
    BY <1>2, <2>2 DEF Lists
  <2>4. \A e \in Classes : told'[p][e] = told[p][e] + (IF e = c THEN moved ELSE 0)
    BY <1>2, <2>1, <2>2 DEF Lists, Plus, moved
  <2>5. \A q \in Players \ {p} : record'[q] = record[q] /\ saved'[q] = saved[q]
    BY <1>1, <1>2 DEF ChangeList, Lists
  <2>6. record'[p] \in {record[p], Plus(record[p], c, d)}
          /\ saved'[p] \in {saved[p], Plus(record[p], c, d)}
    BY <1>1, <1>2 DEF ChangeList, Lists
  <2>. QED BY <2>3, <2>4, <2>5, <2>6
<1>8. ItemsBalance
  <2>1. ASSUME NEW e \in Classes
        PROVE  Accounted(e)' - issued'[e] = Accounted(e) - issued[e] /\ Accounted(e) - issued[e] \in Int
    <3>1. Told(e)' = Told(e) + (told'[p][e] - told[p][e])
      BY <1>2, <1>7, ToldMoves
    <3>2. Stored(e)' = Stored(e) + (stock'[k][e] - stock[k][e])
      BY <1>5, StoredMoves
    <3>3. InFlight(e)' = InFlight(e) /\ issued'[e] = issued[e]
      BY NoScriptMoves
    <3>4. told[p][e] \in Int /\ stock[k][e] \in Int /\ issued[e] \in Int
      BY <1>2 DEF Lists
    <3>5. Told(e) \in Int /\ Stored(e) \in Int /\ InFlight(e) \in Int
      BY SumTypes
    <3>6. Accounted(e) = Told(e) + Stored(e) + InFlight(e)
            /\ Accounted(e)' = Told(e)' + Stored(e)' + InFlight(e)'
      BY DEF Accounted
    <3>7. told'[p][e] - told[p][e] = stock[k][e] - stock'[k][e]
      BY <1>4, <1>5, <1>7, <3>4
    <3>8. told'[p][e] \in Int /\ stock'[k][e] \in Int
      BY <1>4, <1>5, <1>7, <3>4
    <3>. QED BY <3>1, <3>2, <3>3, <3>4, <3>5, <3>6, <3>7, <3>8
  <2>. QED BY <2>1 DEF ItemsBalance
<1>9. CashBalances
  <2>1. /\ toldCash' \in [Players -> Int] /\ boxCash' \in [Containers -> Int]
        /\ IsFiniteSet(Players) /\ IsFiniteSet(Containers)
    BY FinitelyMany DEF TypeOK
  <2>2. SumOf(toldCash') = SumOf(toldCash) + (toldCash'[p] - toldCash[p]) /\ SumOf(toldCash) \in Int
    <3>1. \A q \in Players : q # p => toldCash[q] = toldCash'[q]
      BY <1>6
    <3>. QED BY <1>2, <2>1, <3>1, SumMoves
  <2>3. SumOf(boxCash') = SumOf(boxCash) + (boxCash'[k] - boxCash[k]) /\ SumOf(boxCash) \in Int
    <3>1. \A i \in Containers : i # k => boxCash[i] = boxCash'[i]
      BY <1>6
    <3>. QED BY <1>2, <2>1, <3>1, SumMoves
  <2>4. CashInFlight' = CashInFlight /\ CashInFlight \in Int
    BY NoScriptMoves, SumTypes
  <2>5. CashAccounted = SumOf(toldCash) + SumOf(boxCash) + CashInFlight
        /\ CashAccounted' = SumOf(toldCash') + SumOf(boxCash') + CashInFlight'
    BY DEF CashAccounted
  <2>6. toldCash[p] \in Int /\ boxCash[k] \in Int
    BY <1>2
  <2>7. CashAccounted' = CashAccounted /\ CashAccounted \in Int
    BY <1>4, <1>6, <2>2, <2>3, <2>4, <2>5, <2>6
  <2>. QED BY <1>2, <2>7 DEF CashBalances
<1>10. NothingMade
  <2>1. AllOwed' = AllOwed /\ SumOf(issued)' = SumOf(issued) /\ AllOwed \in Int /\ SumOf(issued) \in Int
    BY NoScriptMoves, SumTypes
  <2>. QED BY <2>1 DEF NothingMade
<1>11. \A q \in Players, e \in Classes : record'[q][e] >= 0 /\ saved'[q][e] >= 0
  <2>1. \A e \in Classes : Plus(record[p], c, d)[e] >= 0
    <3>1. record[p] \in [Classes -> Int] /\ \A e \in Classes : record[p][e] \in Int /\ record[p][e] >= 0
      BY <1>2 DEF Lists, Sound, NoDebts
    <3>. QED BY <3>1 DEF Plus
  <2>2. \A q \in Players, e \in Classes : record[q][e] >= 0 /\ saved[q][e] >= 0
    BY DEF Sound, NoDebts
  <2>. QED BY <1>7, <2>1, <2>2
<1>12. \A i \in Containers : boxCash'[i] >= 0 /\ \A e \in Classes : stock'[i][e] >= 0
  <2>1. \A i \in Containers : boxCash[i] >= 0 /\ boxCash[i] \in Int
          /\ \A e \in Classes : stock[i][e] >= 0 /\ stock[i][e] \in Int
    BY <1>2 DEF Sound, NoDebts
  <2>. QED BY <1>4, <1>5, <1>6, <2>1
<1>13. NoDebts'
  <2>1. \A i \in Trunks : trunkSaved'[i].cash >= 0 /\ \A e \in Classes : trunkSaved'[i].items[e] >= 0
    <3>1. \A i \in Trunks : trunkSaved'[i] = trunkSaved[i] \/ (i = k /\ trunkSaved'[i] = TrunkRow(k))
      BY <1>1 DEF TypeOK
    <3>2. TrunkRow(k).cash >= 0 /\ \A e \in Classes : TrunkRow(k).items[e] >= 0
      BY <1>12 DEF TrunkRow
    <3>. QED BY <3>1, <3>2 DEF Sound, NoDebts
  <2>. QED BY <1>11, <1>12, <2>1 DEF NoDebts
<1>14. BagsEmptied'
  <2>1. SUFFICES ASSUME NEW i \in Bags \ open' PROVE boxCash'[i] = 0
                          /\ \A e \in Classes : stock'[i][e] = 0
    BY DEF BagsEmptied
  <2>2. i \in Containers
    BY DEF Containers
  <2>3. CASE i \in Laid(k)
    <3>1. stock'[i] = Nothing /\ ~(boxCash'[i] > 0)
      BY <1>1, <2>3 DEF Tidied
    <3>2. boxCash'[i] >= 0 /\ boxCash'[i] \in Int
      BY <1>12, <2>2 DEF TypeOK
    <3>. QED BY <3>1, <3>2 DEF Nothing
  <2>4. CASE i \notin Laid(k)
    <3>1. i # k /\ i \notin open
      <4>1. i \notin Trunks
        BY ItemsAssumption
      <4>. QED BY <2>4, <4>1 DEF Laid
    <3>2. stock'[i] = stock[i] /\ boxCash'[i] = boxCash[i]
      BY <1>5, <1>6, <2>2, <3>1
    <3>. QED BY <3>1, <3>2 DEF Sound, BagsEmptied
  <2>. QED BY <2>3, <2>4
<1>15. Sound'
  <2>1. faults' = 0 => online' = Players
    BY <1>3 DEF Sound
  <2>. QED BY <1>13, <1>14, <2>1, FitsStay DEF Sound
<1>. QED BY <1>8, <1>9, <1>10, <1>15


\* What leaves a player's list or a container goes to the other, is made or is used up.
LEMMA ItemsHeld ==
    ASSUME TypeOK, TypeOK', scripts' = scripts, NEW p \in Players, NEW k \in Containers,
             NEW c \in Classes,
           \A q \in Players \ {p} : told'[q] = told[q],
             \A i \in Containers \ {k} : stock'[i] = stock[i],
           (told'[p][c] - told[p][c]) + (stock'[k][c] - stock[k][c]) = issued'[c] - issued[c]
    PROVE  Accounted(c)' - issued'[c] = Accounted(c) - issued[c] /\ Accounted(c) - issued[c] \in Int
<1>1. Told(c)' = Told(c) + (told'[p][c] - told[p][c])
  <2>1. \A q \in Players \ {p} : told'[q][c] = told[q][c]
    OBVIOUS
  <2>. QED BY <2>1, ToldMoves
<1>2. Stored(c)' = Stored(c) + (stock'[k][c] - stock[k][c])
  <2>1. \A i \in Containers \ {k} : stock'[i][c] = stock[i][c]
    OBVIOUS
  <2>. QED BY <2>1, StoredMoves
<1>3. InFlight(c)' = InFlight(c)
  BY NoScriptMoves
<1>4. Told(c) \in Int /\ Stored(c) \in Int /\ InFlight(c) \in Int
  BY SumTypes
<1>5. told[p][c] \in Int /\ stock[k][c] \in Int /\ issued[c] \in Int
  BY DEF TypeOK, Lists
<1>6. told'[p][c] \in Int /\ stock'[k][c] \in Int /\ issued'[c] \in Int
  BY DEF TypeOK, Lists
<1>7. Accounted(c) = Told(c) + Stored(c) + InFlight(c)
        /\ Accounted(c)' = Told(c)' + Stored(c)' + InFlight(c)'
  BY DEF Accounted
<1>. QED BY <1>1, <1>2, <1>3, <1>4, <1>5, <1>6, <1>7

LEMMA CashTotals ==
    ASSUME TypeOK, TypeOK', NEW p \in Players, NEW k \in Containers,
           \A q \in Players \ {p} : toldCash'[q] = toldCash[q],
             \A i \in Containers \ {k} : boxCash'[i] = boxCash[i]
    PROVE  /\ SumOf(toldCash') = SumOf(toldCash) + (toldCash'[p] - toldCash[p])
                /\ SumOf(toldCash) \in Int
           /\ SumOf(boxCash') = SumOf(boxCash) + (boxCash'[k] - boxCash[k]) /\ SumOf(boxCash) \in Int
<1>1. /\ toldCash \in [Players -> Int] /\ toldCash' \in [Players -> Int]
      /\ boxCash \in [Containers -> Int] /\ boxCash' \in [Containers -> Int]
      /\ IsFiniteSet(Players) /\ IsFiniteSet(Containers)
  BY FinitelyMany DEF TypeOK
<1>2. SumOf(toldCash') = SumOf(toldCash) + (toldCash'[p] - toldCash[p]) /\ SumOf(toldCash) \in Int
  <2>1. \A q \in Players : q # p => toldCash[q] = toldCash'[q]
    OBVIOUS
  <2>. QED BY <1>1, <2>1, SumMoves
<1>3. SumOf(boxCash') = SumOf(boxCash) + (boxCash'[k] - boxCash[k]) /\ SumOf(boxCash) \in Int
  <2>1. \A i \in Containers : i # k => boxCash[i] = boxCash'[i]
    OBVIOUS
  <2>. QED BY <1>1, <2>1, SumMoves
<1>. QED BY <1>2, <1>3

LEMMA CashHeld ==
    ASSUME TypeOK, TypeOK', scripts' = scripts, NEW p \in Players, NEW k \in Containers,
           \A q \in Players \ {p} : toldCash'[q] = toldCash[q],
             \A i \in Containers \ {k} : boxCash'[i] = boxCash[i],
           (toldCash'[p] - toldCash[p]) + (boxCash'[k] - boxCash[k]) = issuedCash' - issuedCash
    PROVE  CashBalances
<1>1. /\ toldCash \in [Players -> Int] /\ toldCash' \in [Players -> Int]
      /\ boxCash \in [Containers -> Int] /\ boxCash' \in [Containers -> Int]
      /\ issuedCash \in Int /\ issuedCash' \in Int
  BY DEF TypeOK
<1>2. SumOf(toldCash') = SumOf(toldCash) + (toldCash'[p] - toldCash[p]) /\ SumOf(toldCash) \in Int
  BY CashTotals
<1>3. SumOf(boxCash') = SumOf(boxCash) + (boxCash'[k] - boxCash[k]) /\ SumOf(boxCash) \in Int
  BY CashTotals
<1>4. PICK c \in Classes : TRUE
  BY ItemsAssumption
<1>5. CashInFlight' = CashInFlight /\ CashInFlight \in Int
  BY <1>4, NoScriptMoves, SumTypes
<1>6. CashAccounted = SumOf(toldCash) + SumOf(boxCash) + CashInFlight
      /\ CashAccounted' = SumOf(toldCash') + SumOf(boxCash') + CashInFlight'
  BY DEF CashAccounted
<1>7. toldCash[p] \in Int /\ boxCash[k] \in Int /\ toldCash'[p] \in Int /\ boxCash'[k] \in Int
  BY <1>1
<1>8. CashAccounted' - issuedCash' = CashAccounted - issuedCash /\ CashAccounted - issuedCash \in Int
  BY <1>1, <1>2, <1>3, <1>5, <1>6, <1>7
<1>. QED BY <1>8 DEF CashBalances

\* A step that takes no cash anywhere.
LEMMA NoCashMoves ==
    ASSUME TypeOK, TypeOK', UNCHANGED <<scripts, toldCash, boxCash, issuedCash>>
    PROVE  CashBalances
<1>1. PICK c \in Classes : TRUE
  BY ItemsAssumption
<1>2. CashInFlight' = CashInFlight /\ CashInFlight \in Int /\ SumOf(toldCash) \in Int
        /\ SumOf(boxCash) \in Int
      /\ issuedCash \in Int
  BY <1>1, NoScriptMoves, SumTypes DEF TypeOK
<1>3. CashAccounted' = CashAccounted /\ CashAccounted \in Int
  BY <1>2 DEF CashAccounted
<1>. QED BY <1>2, <1>3 DEF CashBalances

\* A step that takes no item anywhere.
LEMMA NoItemMoves ==
    ASSUME TypeOK, TypeOK', UNCHANGED <<scripts, told, stock, issued>>
    PROVE  ItemsBalance /\ NothingMade
<1>1. ASSUME NEW c \in Classes
      PROVE  Accounted(c)' - issued'[c] = Accounted(c) - issued[c] /\ Accounted(c) - issued[c] \in Int
  <2>1. Told(c)' = Told(c) /\ Stored(c)' = Stored(c) /\ InFlight(c)' = InFlight(c)
    BY NoScriptMoves DEF Told, Stored
  <2>2. Told(c) \in Int /\ Stored(c) \in Int /\ InFlight(c) \in Int /\ issued[c] \in Int
    BY SumTypes DEF TypeOK
  <2>. QED BY <2>1, <2>2 DEF Accounted
<1>2. PICK c \in Classes : TRUE
  BY ItemsAssumption
<1>3. AllOwed' = AllOwed /\ AllOwed \in Int /\ SumOf(issued) \in Int
  BY <1>2, NoScriptMoves, SumTypes
<1>4. NothingMade
  BY <1>3 DEF NothingMade
<1>. QED BY <1>1, <1>4 DEF ItemsBalance

LEMMA StripKeeps ==
    ASSUME TypeOK, TypeOK', Sound, Strip
    PROVE  Sound' /\ ItemsBalance /\ CashBalances /\ NothingMade
<1>1. PICK p \in online, b \in Bags \ open, answer \in {"OK", "refused", "replyLost"} :
        /\ Answered(answer, "OK", "OK")
        /\ saved' = IF answer = "refused" THEN saved ELSE [saved EXCEPT ![p] = Nothing]
        /\ IF answer = "OK"
           THEN /\ record' = [record EXCEPT ![p] = Nothing]
                /\ told' = [told EXCEPT ![p] = [c \in Classes |-> told[p][c] - record[p][c]]]
                /\ stock' = [stock EXCEPT ![b] = record[p]]
                /\ open' = open \cup {b}
           ELSE UNCHANGED <<record, told, stock, open>>
  BY DEF Strip
<1>2. UNCHANGED <<online, login, trunkSaved, boxCash, scripts, toldCash, issued, issuedCash>>
  BY DEF Strip
<1>3. /\ p \in Players /\ b \in Containers
      /\ stock \in [Containers -> [Classes -> Int]] /\ told \in Lists /\ record \in Lists
           /\ saved \in Lists
  BY DEF TypeOK, Containers
<1>4. faults \in Nat /\ faults' \in Nat /\ faults <= faults'
  BY <1>1, FaultsCount DEF Answered, Bad
<1>5. CashBalances
  BY <1>2, NoCashMoves
<1>6. CASE answer = "OK"
  <2>1. \A c \in Classes : /\ told'[p][c] = told[p][c] - record[p][c] /\ stock'[b][c] = record[p][c]
          /\ stock[b][c] = 0
                           /\ record[p][c] \in Int /\ told[p][c] \in Int /\ record[p][c] >= 0
    <3>1. \A c \in Classes : stock[b][c] = 0 /\ record[p][c] >= 0
      BY <1>1, <1>3 DEF Sound, BagsEmptied, NoDebts
    <3>2. \A c \in Classes : record[p][c] \in Int /\ told[p][c] \in Int
      BY <1>3 DEF Lists
    <3>3. \A c \in Classes : told'[p][c] = told[p][c] - record[p][c]
      BY <1>1, <1>3, <1>6 DEF Lists
    <3>4. stock'[b] = record[p]
      BY <1>1, <1>3, <1>6
    <3>. QED BY <3>1, <3>2, <3>3, <3>4
  <2>2. /\ \A q \in Players \ {p} : told'[q] = told[q] /\ record'[q] = record[q]
        /\ \A i \in Containers \ {b} : stock'[i] = stock[i]
        /\ record'[p] = Nothing /\ stock'[b] = record[p]
    BY <1>1, <1>3, <1>6 DEF Lists
  <2>3. ItemsBalance
    <3>1. ASSUME NEW c \in Classes
          PROVE  Accounted(c)' - issued'[c] = Accounted(c) - issued[c]
                   /\ Accounted(c) - issued[c] \in Int
      <4>1. issued'[c] = issued[c] /\ issued[c] \in Int
        BY <1>2 DEF TypeOK
      <4>2. (told'[p][c] - told[p][c]) + (stock'[b][c] - stock[b][c]) = issued'[c] - issued[c]
        BY <2>1, <4>1
      <4>. QED BY <1>2, <1>3, <2>2, <4>2, ItemsHeld
    <3>. QED BY <3>1 DEF ItemsBalance
  <2>4. NothingMade
    <3>1. PICK c \in Classes : TRUE
      BY ItemsAssumption
    <3>2. AllOwed' = AllOwed /\ AllOwed \in Int /\ SumOf(issued) \in Int
            /\ SumOf(issued)' = SumOf(issued)
      BY <1>2, <3>1, NoScriptMoves, SumTypes
    <3>. QED BY <3>2 DEF NothingMade
  <2>5. NoDebts'
    <3>1. \A q \in Players : record'[q] \in {record[q], Nothing} /\ saved'[q] \in {saved[q], Nothing}
      BY <1>1, <1>3, <1>6 DEF Lists
    <3>2. \A i \in Containers : stock'[i] \in {stock[i], record[p]}
      BY <2>2
    <3>3. \A c \in Classes : Nothing[c] = 0
      BY DEF Nothing
    <3>. QED BY <1>2, <1>3, <3>1, <3>2, <3>3 DEF Sound, NoDebts
  <2>6. BagsEmptied'
    <3>1. SUFFICES ASSUME NEW i \in Bags \ open' PROVE boxCash'[i] = 0
                            /\ \A c \in Classes : stock'[i][c] = 0
      BY DEF BagsEmptied
    <3>2. i \in Bags \ open /\ i # b /\ i \in Containers
      BY <1>1, <1>6 DEF Containers
    <3>. QED BY <1>2, <2>2, <3>2 DEF Sound, BagsEmptied
  <2>. QED BY <1>2, <1>4, <1>5, <2>3, <2>4, <2>5, <2>6, FitsStay DEF Sound
<1>7. CASE answer # "OK"
  <2>1. UNCHANGED <<record, told, stock, open>>
    BY <1>1, <1>7
  <2>2. ItemsBalance /\ NothingMade
    BY <1>2, <2>1, NoItemMoves
  <2>3. NoDebts' /\ BagsEmptied'
    <3>1. \A q \in Players : saved'[q] \in {saved[q], Nothing}
      BY <1>1, <1>3 DEF Lists
    <3>2. \A c \in Classes : Nothing[c] = 0
      BY DEF Nothing
    <3>. QED BY <1>2, <2>1, <3>1, <3>2 DEF Sound, NoDebts, BagsEmptied
  <2>. QED BY <1>2, <1>4, <1>5, <2>2, <2>3, FitsStay DEF Sound
<1>. QED BY <1>6, <1>7

LEMMA ChangeAtOnceKeeps ==
    ASSUME TypeOK, TypeOK', Sound, NEW handler, NEW d \in {1, -1}, ChangeAtOnce(handler, d),
           d = 1 => handler = "adminGive"
    PROVE  Sound' /\ ItemsBalance /\ CashBalances /\ (NoMakers => NothingMade)
<1>1. PICK p \in online, c \in Classes, answer \in {"OK", "refused", "replyLost"} :
        /\ handler \in Handlers
        /\ record[p][c] + d >= 0
        /\ Answered(answer, "OK", "OK")
        /\ ChangeList(p, c, d, answer)
        /\ issued' = IF answer = "OK" THEN Plus(issued, c, d) ELSE issued
  BY DEF ChangeAtOnce, Asked
<1>2. UNCHANGED <<online, login, trunkSaved, stock, boxCash, open, scripts, toldCash, issuedCash>>
  BY DEF ChangeAtOnce, world
<1>3. p \in Players /\ d \in Int /\ told \in Lists /\ record \in Lists /\ saved \in Lists
        /\ issued \in [Classes -> Int]
  BY DEF TypeOK
<1>4. faults \in Nat /\ faults' \in Nat /\ faults <= faults'
  BY <1>1, FaultsCount DEF Answered, Bad
<1>5. CashBalances
  BY <1>2, NoCashMoves
<1>6. NoDebts'
  <2>1. \A e \in Classes : Plus(record[p], c, d)[e] >= 0
    <3>1. record[p] \in [Classes -> Int] /\ \A e \in Classes : record[p][e] \in Int /\ record[p][e] >= 0
      BY <1>3 DEF Lists, Sound, NoDebts
    <3>. QED BY <1>1, <3>1 DEF Plus
  <2>2. \A q \in Players : record'[q] \in {record[q], Plus(record[p], c, d)}
          /\ saved'[q] \in {saved[q], Plus(record[p], c, d)}
    BY <1>1, <1>3 DEF ChangeList, Lists
  <2>. QED BY <1>2, <2>1, <2>2 DEF Sound, NoDebts
<1>7. Sound'
  BY <1>2, <1>4, <1>6, FitsStay DEF Sound, BagsEmptied
<1>8. CASE answer = "OK"
  <2>1. /\ \A q \in Players \ {p} : told'[q] = told[q]
        /\ \A e \in Classes : told'[p][e] = told[p][e] + (IF e = c THEN d ELSE 0) /\ told[p][e] \in Int
    <3>1. told[p] \in [Classes -> Int]
      BY <1>3 DEF Lists
    <3>2. told'[p] = Plus(told[p], c, d) /\ \A q \in Players \ {p} : told'[q] = told[q]
      BY <1>1, <1>3, <1>8 DEF ChangeList, Lists
    <3>. QED BY <1>3, <3>1, <3>2 DEF Plus
  <2>2. /\ SumOf(issued)' = SumOf(issued) + d
        /\ \A e \in Classes : issued'[e] = issued[e] + (IF e = c THEN d ELSE 0) /\ issued[e] \in Int
    <3>1. issued' = Plus(issued, c, d)
      BY <1>1, <1>8
    <3>2. /\ SumOf(issued)' = SumOf(issued) + d
          /\ \A e \in Classes : issued'[e] = issued[e] + (IF e = c THEN d ELSE 0)
      BY <1>3, <3>1, IssuedMoves
    <3>. QED BY <1>3, <3>2
  <2>3. ItemsBalance
    <3>1. ASSUME NEW e \in Classes, NEW k \in Containers
          PROVE  Accounted(e)' - issued'[e] = Accounted(e) - issued[e]
                   /\ Accounted(e) - issued[e] \in Int
      <4>1. stock'[k][e] - stock[k][e] = 0
        BY <1>2 DEF TypeOK
      <4>2. (told'[p][e] - told[p][e]) + (stock'[k][e] - stock[k][e]) = issued'[e] - issued[e]
        BY <1>3, <2>1, <2>2, <4>1
      <4>. QED BY <1>2, <1>3, <2>1, <4>2, ItemsHeld
    <3>2. ASSUME NEW e \in Classes, Containers = {}
          PROVE  Accounted(e)' - issued'[e] = Accounted(e) - issued[e]
                   /\ Accounted(e) - issued[e] \in Int
      <4>1. \A q \in Players \ {p} : told'[q][e] = told[q][e]
        BY <2>1
      <4>2. Told(e)' = Told(e) + (told'[p][e] - told[p][e])
        BY <1>3, <4>1, ToldMoves
      <4>3. Stored(e)' = Stored(e) /\ InFlight(e)' = InFlight(e)
        BY <1>2, NoScriptMoves DEF Stored
      <4>4. Told(e) \in Int /\ Stored(e) \in Int /\ InFlight(e) \in Int
        BY SumTypes
      <4>5. Accounted(e) = Told(e) + Stored(e) + InFlight(e)
              /\ Accounted(e)' = Told(e)' + Stored(e)' + InFlight(e)'
        BY DEF Accounted
      <4>. QED BY <1>3, <2>1, <2>2, <4>2, <4>3, <4>4, <4>5
    <3>. QED BY <3>1, <3>2 DEF ItemsBalance
  <2>4. NoMakers => d = -1
    BY <1>1 DEF NoMakers, Makers
  <2>5. NoMakers => NothingMade
    <3>1. AllOwed' = AllOwed /\ AllOwed \in Int /\ SumOf(issued) \in Int
      BY <1>2, NoScriptMoves, SumTypes
    <3>. QED BY <2>2, <2>4, <3>1 DEF NothingMade
  <2>. QED BY <1>5, <1>7, <2>3, <2>5
<1>9. CASE answer # "OK"
  <2>1. told' = told /\ issued' = issued
    BY <1>1, <1>9 DEF ChangeList
  <2>2. ItemsBalance /\ NothingMade
    BY <1>2, <2>1, NoItemMoves
  <2>. QED BY <1>5, <1>7, <2>2
<1>. QED BY <1>8, <1>9

LEMMA AdminGiveCashKeeps ==
    ASSUME TypeOK, TypeOK', Sound, AdminGiveCash
    PROVE  Sound' /\ ItemsBalance /\ CashBalances /\ NothingMade
<1>1. PICK p \in online, n \in Quantities, answer \in {"OK", "refused", "commitLost"} :
        /\ Answered(answer, "OK", "OK")
        /\ IF answer = "refused"
           THEN UNCHANGED <<purse, toldCash, issuedCash>>
           ELSE /\ purse' = [purse EXCEPT ![p] = purse[p] + n]
                /\ toldCash' = [toldCash EXCEPT ![p] = toldCash[p] + n]
                /\ issuedCash' = issuedCash + n
  BY DEF AdminGiveCash
<1>2. UNCHANGED <<online, login, record, saved, trunkSaved, stock, boxCash, open, scripts, told,
        issued>>
  BY DEF AdminGiveCash, world
<1>3. p \in Players /\ n \in Int /\ toldCash \in [Players -> Int] /\ issuedCash \in Int
  BY ItemsAssumption DEF TypeOK
<1>4. faults \in Nat /\ faults' \in Nat /\ faults <= faults'
  BY <1>1, FaultsCount DEF Answered, Bad
<1>5. ItemsBalance /\ NothingMade
  BY <1>2, NoItemMoves
<1>6. Sound'
  BY <1>2, <1>4, FitsStay DEF Sound, NoDebts, BagsEmptied
<1>7. PICK e \in Classes : TRUE
  BY ItemsAssumption
<1>8. CashBalances
  <2>1. /\ toldCash'[p] - toldCash[p] = issuedCash' - issuedCash /\ toldCash[p] \in Int
             /\ toldCash'[p] \in Int
        /\ \A q \in Players : q # p => toldCash[q] = toldCash'[q]
    <3>1. CASE answer = "refused"
      BY <1>1, <1>3, <3>1
    <3>2. CASE answer # "refused"
      BY <1>1, <1>3, <3>2
    <3>. QED BY <3>1, <3>2
  <2>2. toldCash' \in [Players -> Int] /\ issuedCash' \in Int /\ IsFiniteSet(Players)
    BY FinitelyMany DEF TypeOK
  <2>3. SumOf(toldCash') = SumOf(toldCash) + (toldCash'[p] - toldCash[p]) /\ SumOf(toldCash) \in Int
    BY <1>3, <2>1, <2>2, SumMoves
  <2>4. CashInFlight' = CashInFlight /\ CashInFlight \in Int /\ SumOf(boxCash)' = SumOf(boxCash)
          /\ SumOf(boxCash) \in Int
    BY <1>2, <1>7, NoScriptMoves, SumTypes
  <2>5. CashAccounted = SumOf(toldCash) + SumOf(boxCash) + CashInFlight
        /\ CashAccounted' = SumOf(toldCash') + SumOf(boxCash)' + CashInFlight'
    BY DEF CashAccounted
  <2>6. CashAccounted' - issuedCash' = CashAccounted - issuedCash /\ CashAccounted - issuedCash \in Int
    BY <1>3, <2>1, <2>2, <2>3, <2>4, <2>5
  <2>. QED BY <2>6 DEF CashBalances
<1>. QED BY <1>5, <1>6, <1>8

LEMMA ExpireKeeps ==
    ASSUME TypeOK, TypeOK', Sound, Expire
    PROVE  Sound' /\ ItemsBalance /\ CashBalances /\ NothingMade
<1>1. PICK b \in open :
        /\ open' = open \ {b}
        /\ issued' = [c \in Classes |-> issued[c] - stock[b][c]]
        /\ issuedCash' = issuedCash - boxCash[b]
        /\ stock' = [stock EXCEPT ![b] = Nothing]
        /\ boxCash' = [boxCash EXCEPT ![b] = 0]
        /\ UNCHANGED <<online, login, record, purse, db, scripts, busy, requests, faults, told,
             toldCash, doubtful>>
  BY DEF Expire
<1>2. /\ b \in Bags /\ b \in Containers /\ stock \in [Containers -> [Classes -> Int]]
           /\ boxCash \in [Containers -> Int]
      /\ issued \in [Classes -> Int] /\ issuedCash \in Int /\ told \in Lists
           /\ toldCash \in [Players -> Int]
  BY DEF TypeOK, Containers
<1>3. UNCHANGED <<online, login, record, saved, trunkSaved, scripts, faults, told, toldCash>>
  BY <1>1 DEF db
<1>4. \A i \in Containers \ {b} : stock'[i] = stock[i] /\ boxCash'[i] = boxCash[i]
  BY <1>1, <1>2
<1>5. stock'[b] = Nothing /\ boxCash'[b] = 0 /\ \A c \in Classes : Nothing[c] = 0
  BY <1>1, <1>2 DEF Nothing
<1>6. boxCash[b] \in Int /\ boxCash[b] >= 0 /\ \A c \in Classes : stock[b][c] \in Int
        /\ stock[b][c] >= 0
  BY <1>2 DEF Sound, NoDebts
<1>7. Sound'
  <2>1. NoDebts'
    BY <1>3, <1>4, <1>5 DEF Sound, NoDebts
  <2>2. BagsEmptied'
    <3>1. SUFFICES ASSUME NEW i \in Bags \ open' PROVE boxCash'[i] = 0
                            /\ \A c \in Classes : stock'[i][c] = 0
      BY DEF BagsEmptied
    <3>2. i = b \/ (i \in Bags \ open /\ i \in Containers)
      BY <1>1 DEF Containers
    <3>3. CASE i = b
      BY <1>5, <3>3
    <3>4. CASE i # b
      BY <1>4, <3>2, <3>4 DEF Sound, BagsEmptied
    <3>. QED BY <3>3, <3>4
  <2>. QED BY <1>3, <2>1, <2>2, FitsStay DEF Sound
<1>8. PICK p \in Players : TRUE
  BY ItemsAssumption
<1>9. ItemsBalance
  <2>1. ASSUME NEW c \in Classes
        PROVE  Accounted(c)' - issued'[c] = Accounted(c) - issued[c] /\ Accounted(c) - issued[c] \in Int
    <3>1. told'[p][c] - told[p][c] = 0
      BY <1>2, <1>3 DEF Lists
    <3>2. issued'[c] = issued[c] - stock[b][c] /\ stock'[b][c] = 0 /\ issued[c] \in Int
      BY <1>1, <1>2, <1>5
    <3>3. (told'[p][c] - told[p][c]) + (stock'[b][c] - stock[b][c]) = issued'[c] - issued[c]
      BY <1>6, <3>1, <3>2
    <3>. QED BY <1>2, <1>3, <1>4, <3>3, ItemsHeld
  <2>. QED BY <2>1 DEF ItemsBalance
<1>10. CashBalances
  <2>1. (toldCash'[p] - toldCash[p]) + (boxCash'[b] - boxCash[b]) = issuedCash' - issuedCash
    <3>1. toldCash'[p] - toldCash[p] = 0
      BY <1>2, <1>3
    <3>. QED BY <1>1, <1>2, <1>5, <1>6, <3>1
  <2>. QED BY <1>2, <1>3, <1>4, <2>1, CashHeld
<1>11. NothingMade
  <2>1. issued' \in [Classes -> Int] /\ IsFiniteSet(Classes)
    BY FinitelyMany DEF TypeOK
  <2>2. \A c \in Classes : issued'[c] <= issued[c]
    BY <1>1, <1>2, <1>6
  <2>3. SumOf(issued') <= SumOf(issued) /\ SumOf(issued) \in Int /\ SumOf(issued') \in Int
    BY <1>2, <2>1, <2>2, SumAtMost
  <2>4. PICK c \in Classes : TRUE
    BY ItemsAssumption
  <2>5. AllOwed' = AllOwed /\ AllOwed \in Int
    BY <1>3, <2>4, NoScriptMoves, SumTypes
  <2>. QED BY <2>3, <2>5 DEF NothingMade
<1>. QED BY <1>7, <1>9, <1>10, <1>11

LEMMA LeaveKeeps ==
    ASSUME TypeOK, TypeOK', Sound, Leave
    PROVE  Sound' /\ ItemsBalance /\ CashBalances /\ NothingMade
<1>1. UNCHANGED <<login, record, saved, trunkSaved, stock, boxCash, open, scripts, told, toldCash,
        issued, issuedCash>>
      /\ faults' = faults + 1
  BY DEF Leave, db, world, ghosts
<1>2. faults' # 0
  BY <1>1, FaultsCount
<1>3. ItemsBalance /\ NothingMade
  BY <1>1, NoItemMoves
<1>4. CashBalances
  BY <1>1, NoCashMoves
<1>5. Sound'
  BY <1>1, <1>2, FitsStay DEF Sound, NoDebts, BagsEmptied
<1>. QED BY <1>3, <1>4, <1>5

LEMMA JoinKeeps ==
    ASSUME TypeOK, TypeOK', Sound, Join
    PROVE  Sound' /\ ItemsBalance /\ CashBalances /\ NothingMade
<1>1. PICK p \in Players \ online :
        /\ online' = online \cup {p}
        /\ login' = [login EXCEPT ![p] = login[p] + 1]
        /\ record' = [record EXCEPT ![p] = saved[p]]
  BY DEF Join
<1>2. UNCHANGED <<saved, trunkSaved, stock, boxCash, open, scripts, faults, told, toldCash, issued,
        issuedCash>>
  BY DEF Join, db, world
<1>3. ItemsBalance /\ NothingMade
  BY <1>2, NoItemMoves
<1>4. CashBalances
  BY <1>2, NoCashMoves
<1>5. \A s \in Scripts : Fits(scripts[s])'
  <2>1. \A q \in Players : login[q] \in Nat /\ login'[q] \in {login[q], login[q] + 1}
    BY <1>1 DEF TypeOK
  <2>2. \A s \in Scripts, q \in Players : scripts[s].ask.seen[q] \in Nat
          /\ scripts[s].ask.seen[q] <= login[q]
    BY DEF TypeOK, Jobs, Requested, Sound, Fits
  <2>3. \A s \in Scripts, q \in Players : scripts[s].ask.seen[q] <= login'[q]
    BY <2>1, <2>2
  <2>. QED BY <1>2, <2>3 DEF Sound, Fits
<1>6. NoDebts'
  <2>1. \A q \in Players : record'[q] \in {record[q], saved[p]}
    BY <1>1 DEF TypeOK, Lists
  <2>. QED BY <1>2, <2>1 DEF Sound, NoDebts
<1>7. faults' = 0 => online' = Players
  BY <1>1, <1>2 DEF Sound, TypeOK
<1>8. Sound'
  BY <1>2, <1>5, <1>6, <1>7 DEF Sound, BagsEmptied
<1>. QED BY <1>3, <1>4, <1>8

\* A trunk nobody touched is as it was saved.
LEMMA TrunksKept ==
    ASSUME TrunksSaved, doubtful \subseteq doubtful', trunkSaved' = trunkSaved,
           \A t \in Trunks : stock'[t] = stock[t] /\ boxCash'[t] = boxCash[t]
    PROVE  TrunksSaved'
BY DEF TrunksSaved

LEMMA MoveSaves ==
    ASSUME TypeOK, TrunksSaved, NEW p \in Players, NEW k \in Containers, NEW c \in Classes,
           NEW d \in Int, NEW dollars \in Int, NEW a \in {"OK", "refused", "replyLost"},
           NEW b \in {"OK", "refused", "commitLost"}, NEW t \in {"OK", "refused"},
           Move(p, k, c, d, dollars, a, b, t)
    PROVE  TrunksSaved'
<1>. DEFINE moved == IF a = "OK" THEN d ELSE 0
            paid == IF b # "refused" /\ ~(pocket[p] + dollars < 0) THEN dollars ELSE 0
            saves == k \in Trunks /\ (moved # 0 \/ paid # 0)
<1>1. /\ ~saves => t = "OK"
      /\ stock' = [stock EXCEPT ![k] = Plus(stock[k], c, -moved)]
      /\ boxCash' = [boxCash EXCEPT ![k] = boxCash[k] - paid]
      /\ trunkSaved' = IF saves /\ t = "OK" THEN [trunkSaved EXCEPT ![k] = TrunkRow(k)] ELSE trunkSaved
      /\ doubtful \subseteq doubtful' /\ (saves /\ t # "OK" => k \in doubtful')
  BY DEF Move, PayFrom
<1>2. moved \in Int /\ paid \in Int /\ (saves <=> k \in Trunks /\ (moved # 0 \/ paid # 0))
  OBVIOUS
<1>. HIDE DEF moved, paid, saves
<1>3. /\ stock \in [Containers -> [Classes -> Int]] /\ boxCash \in [Containers -> Int]
      /\ trunkSaved \in [Trunks -> [items : [Classes -> Int], cash : Int]]
  BY DEF TypeOK
<1>4. SUFFICES ASSUME NEW i \in Trunks, i \notin doubtful'
               PROVE  trunkSaved'[i].items = stock'[i] /\ trunkSaved'[i].cash = boxCash'[i]
  BY DEF TrunksSaved
<1>5. i \in Containers /\ i \notin doubtful
  BY <1>1, <1>4 DEF Containers
<1>6. trunkSaved[i].items = stock[i] /\ trunkSaved[i].cash = boxCash[i]
  BY <1>4, <1>5 DEF TrunksSaved
<1>7. CASE i # k
  <2>1. stock'[i] = stock[i] /\ boxCash'[i] = boxCash[i] /\ trunkSaved'[i] = trunkSaved[i]
    BY <1>1, <1>3, <1>5, <1>7
  <2>. QED BY <1>6, <2>1
<1>8. CASE i = k /\ saves
  <2>1. t = "OK"
    BY <1>1, <1>4, <1>8
  <2>2. trunkSaved'[i] = TrunkRow(k)
    BY <1>1, <1>3, <1>4, <1>8, <2>1
  <2>. QED BY <1>8, <2>2 DEF TrunkRow
<1>9. CASE i = k /\ ~saves
  <2>1. moved = 0 /\ paid = 0 /\ trunkSaved' = trunkSaved
    BY <1>1, <1>2, <1>4, <1>9
  <2>2. stock[i] \in [Classes -> Int] /\ boxCash[i] \in Int
    BY <1>3, <1>5
  <2>3. Plus(stock[i], c, -moved) = stock[i]
    BY <2>1, <2>2 DEF Plus
  <2>4. boxCash[i] - paid = boxCash[i]
    BY <2>1, <2>2
  <2>5. stock'[i] = stock[i] /\ boxCash'[i] = boxCash[i]
    BY <1>1, <1>3, <1>5, <1>9, <2>3, <2>4
  <2>. QED BY <1>6, <2>1, <2>5
<1>. QED BY <1>7, <1>8, <1>9

LEMMA TransferSaves ==
    ASSUME TypeOK, TrunksSaved, NEW sign \in {1, -1}, NEW p \in Players, NEW k \in Containers,
             NEW c \in Classes,
           NEW n \in Nat, NEW m \in Nat, Transfer(p, k, sign, c, n, m)
    PROVE  TrunksSaved'
BY TransferMoves, MoveSaves

\* What the database holds of a trunk follows every move into and out of it.
LEMMA StepSaves ==
    ASSUME TypeOK, TrunksSaved, [Next]_vars
    PROVE  TrunksSaved' /\ doubtful \subseteq doubtful'
<1>1. ASSUME NEW s \in Scripts, Request(s)
      PROVE  TrunksSaved' /\ doubtful \subseteq doubtful'
  <2>1. UNCHANGED <<trunkSaved, stock, boxCash, doubtful>>
    BY <1>1, RequestStarts DEF Start, db, world, ghosts
  <2>. QED BY <2>1, TrunksKept
<1>2. ASSUME NEW s \in Scripts, Step(s)
      PROVE  TrunksSaved' /\ doubtful \subseteq doubtful'
  <2>1. UNCHANGED <<trunkSaved, stock, boxCash>> /\ doubtful \subseteq doubtful'
    <3>1. CASE WaitOver(s)
      BY <3>1 DEF WaitOver, db, world, ghosts
    <3>2. CASE ReadList(s)
      BY <3>2 DEF ReadList, db, world
    <3>3. CASE SaveList(s)
      BY <3>3 DEF SaveList, world
    <3>4. CASE SetRecord(s)
      BY <3>4 DEF SetRecord, db, world, ghosts
    <3>5. CASE SaveCash(s)
      BY <3>5 DEF SaveCash, world
    <3>6. CASE Book(s)
      BY <3>6 DEF Book, db, world, ghosts
    <3>. QED BY <1>2, <3>1, <3>2, <3>3, <3>4, <3>5, <3>6 DEF Step
  <2>. QED BY <2>1, TrunksKept
<1>3. CASE Take \/ Store
  <2>1. PICK sign \in {1, -1}, p \in Players, k \in Containers, c \in Classes, n \in Nat, m \in Nat :
          Transfer(p, k, sign, c, n, m)
    BY <1>3, TakeAndStore
  <2>2. doubtful \subseteq doubtful'
    BY <2>1 DEF Transfer, Move
  <2>. QED BY <2>1, <2>2, TransferSaves
<1>4. CASE Strip
  <2>1. PICK b \in Bags \ open : stock' = stock \/ \E items : stock' = [stock EXCEPT ![b] = items]
    BY <1>4 DEF Strip
  <2>2. UNCHANGED <<trunkSaved, boxCash>> /\ doubtful \subseteq doubtful'
    BY <1>4 DEF Strip
  <2>3. \A t \in Trunks : t # b /\ t \in Containers
    BY ItemsAssumption DEF Containers
  <2>4. \A t \in Trunks : stock'[t] = stock[t]
    BY <2>1, <2>3 DEF TypeOK
  <2>. QED BY <2>2, <2>4, TrunksKept
<1>5. CASE AdminGive \/ UseAtOnce
  <2>1. UNCHANGED <<trunkSaved, stock, boxCash>> /\ doubtful \subseteq doubtful'
    BY <1>5 DEF AdminGive, UseAtOnce, ChangeAtOnce, world
  <2>. QED BY <2>1, TrunksKept
<1>6. CASE AdminGiveCash
  <2>1. UNCHANGED <<trunkSaved, stock, boxCash>> /\ doubtful \subseteq doubtful'
    BY <1>6 DEF AdminGiveCash, world
  <2>. QED BY <2>1, TrunksKept
<1>7. CASE Expire
  <2>1. PICK b \in open : stock' = [stock EXCEPT ![b] = Nothing] /\ boxCash' = [boxCash EXCEPT ![b] = 0]
    BY <1>7 DEF Expire
  <2>2. UNCHANGED <<trunkSaved, doubtful>>
    BY <1>7 DEF Expire, db
  <2>3. \A t \in Trunks : t # b /\ t \in Containers
    BY ItemsAssumption DEF Containers, TypeOK
  <2>4. \A t \in Trunks : stock'[t] = stock[t] /\ boxCash'[t] = boxCash[t]
    BY <2>1, <2>3 DEF TypeOK
  <2>. QED BY <2>2, <2>4, TrunksKept
<1>8. CASE Leave
  <2>1. UNCHANGED <<trunkSaved, stock, boxCash, doubtful>>
    BY <1>8 DEF Leave, db, world, ghosts
  <2>. QED BY <2>1, TrunksKept
<1>9. CASE Join
  <2>1. UNCHANGED <<trunkSaved, stock, boxCash>> /\ doubtful \subseteq doubtful'
    BY <1>9 DEF Join, db, world
  <2>. QED BY <2>1, TrunksKept
<1>10. CASE Crash
  <2>1. UNCHANGED <<trunkSaved, doubtful>>
    BY <1>10 DEF Crash, db, ghosts
  <2>2. /\ stock' = [k \in Containers |-> IF k \in Trunks THEN trunkSaved[k].items ELSE Nothing]
        /\ boxCash' = [k \in Containers |-> IF k \in Trunks THEN trunkSaved[k].cash ELSE 0]
    BY <1>10 DEF Crash
  <2>3. \A t \in Trunks : trunkSaved'[t].items = stock'[t] /\ trunkSaved'[t].cash = boxCash'[t]
    BY <2>1, <2>2 DEF Containers
  <2>. QED BY <2>1, <2>3 DEF TrunksSaved
<1>11. CASE UNCHANGED vars
  <2>1. UNCHANGED <<trunkSaved, stock, boxCash, doubtful>>
    BY <1>11 DEF vars, db, world, ghosts
  <2>. QED BY <2>1, TrunksKept
<1>. QED BY <1>1, <1>2, <1>3, <1>4, <1>5, <1>6, <1>7, <1>8, <1>9, <1>10, <1>11 DEF Next

\* A restart loses what was under way and what was not saved; it makes nothing.
LEMMA CrashKeeps ==
    ASSUME TypeOK, TypeOK', Sound, TrunksSaved, Crash
    PROVE  Sound' /\ (UnsavedTrunks = {} => ItemsBalance /\ CashBalances) /\ NothingMade
<1>1. /\ scripts' = [s \in Scripts |-> Idle]
      /\ stock' = [k \in Containers |-> IF k \in Trunks THEN trunkSaved[k].items ELSE Nothing]
      /\ boxCash' = [k \in Containers |-> IF k \in Trunks THEN trunkSaved[k].cash ELSE 0]
      /\ faults' = faults + 1 /\ open' = {}
      /\ UNCHANGED <<login, record, saved, trunkSaved, told, toldCash, issued, issuedCash>>
  BY DEF Crash, db, ghosts
<1>2. faults' # 0
  BY <1>1, FaultsCount
<1>3. Idle.ask.kind = "none" /\ Idle.leg = "done" /\ Idle.stage = "none" /\ Idle.list = Nothing
      /\ Idle.ask.seen = [p \in Players |-> 0]
  BY DEF Idle, At, NoRequest
<1>4. (\A c \in Classes : Carried(Idle, c) = 0) /\ CashCarried(Idle) = 0 /\ Owed(Idle) = 0
  BY <1>3 DEF Carried, CashCarried, Owed
<1>5. \A c \in Classes : Nothing[c] = 0
  BY DEF Nothing
<1>6. Sound'
  <2>1. \A p \in Players : login[p] \in Nat /\ Idle.ask.seen[p] = 0
    BY <1>3 DEF TypeOK
  <2>2. \A p \in Players : Idle.ask.seen[p] <= login[p]
    BY <2>1
  <2>3. Fits(Idle)
    BY <1>3, <1>5, <2>2 DEF Fits, LegFits
  <2>4. \A s \in Scripts : Fits(scripts[s])'
    BY <1>1, <2>3 DEF Fits
  <2>5. NoDebts'
    <3>1. \A k \in Containers : boxCash'[k] >= 0 /\ \A c \in Classes : stock'[k][c] >= 0
      BY <1>1, <1>5 DEF Sound, NoDebts
    <3>. QED BY <1>1, <3>1 DEF Sound, NoDebts
  <2>6. BagsEmptied'
    <3>1. \A b \in Bags : b \in Containers /\ b \notin Trunks
      BY ItemsAssumption DEF Containers
    <3>. QED BY <1>1, <1>5, <3>1 DEF BagsEmptied
  <2>. QED BY <1>2, <2>4, <2>5, <2>6 DEF Sound
<1>7. \A s \in Scripts : scripts'[s] = Idle /\ scripts[s] \in Jobs
  BY <1>1 DEF TypeOK
<1>8. /\ CashInFlight' = 0 /\ AllOwed' = 0 /\ CashInFlight >= 0 /\ AllOwed >= 0
      /\ \A c \in Classes : InFlight(c)' = 0 /\ InFlight(c) >= 0
  <2>1. ASSUME NEW f \in [Scripts -> Nat], NEW g \in [Scripts -> Nat], \A s \in Scripts : g[s] = 0
        PROVE  SumOf(g) = 0 /\ SumOf(f) >= 0
    <3>1. IsFiniteSet(Scripts) /\ f \in [Scripts -> Int] /\ g \in [Scripts -> Int] /\ 0 \in Nat
      BY FinitelyMany
    <3>2. Cardinality(Scripts) \in Nat
      BY <3>1, FS_CardinalityType
    <3>3. SumOf(g) = 0 * Cardinality(Scripts)
      BY <2>1, <3>1, SumOfEqual
    <3>4. SumOf(g) = 0
      BY <3>2, <3>3
    <3>5. \A s \in Scripts : g[s] <= f[s]
      BY <2>1
    <3>6. SumOf(g) <= SumOf(f)
      BY <3>1, <3>5, SumAtMost
    <3>. QED BY <3>4, <3>6
  <2>2. ASSUME NEW c \in Classes
        PROVE  InFlight(c)' = 0 /\ InFlight(c) >= 0
    <3>. DEFINE f == [s \in Scripts |-> Carried(scripts[s], c)]
                g == [s \in Scripts |-> Carried(scripts'[s], c)]
    <3>1. f \in [Scripts -> Nat] /\ g \in [Scripts -> Nat] /\ \A s \in Scripts : g[s] = 0
      BY <1>4, <1>7, Weights
    <3>2. InFlight(c) = SumOf(f) /\ InFlight(c)' = SumOf(g)
      BY DEF InFlight, Carried
    <3>. HIDE DEF f, g
    <3>. QED BY <2>1, <3>1, <3>2
  <2>3. CashInFlight' = 0 /\ CashInFlight >= 0
    <3>. DEFINE f == [s \in Scripts |-> CashCarried(scripts[s])]
                g == [s \in Scripts |-> CashCarried(scripts'[s])]
    <3>1. f \in [Scripts -> Nat] /\ g \in [Scripts -> Nat] /\ \A s \in Scripts : g[s] = 0
      BY <1>4, <1>7, Weights
    <3>2. CashInFlight = SumOf(f) /\ CashInFlight' = SumOf(g)
      BY DEF CashInFlight, CashCarried
    <3>. HIDE DEF f, g
    <3>. QED BY <2>1, <3>1, <3>2
  <2>4. AllOwed' = 0 /\ AllOwed >= 0
    <3>. DEFINE f == [s \in Scripts |-> Owed(scripts[s])]
                g == [s \in Scripts |-> Owed(scripts'[s])]
    <3>1. f \in [Scripts -> Nat] /\ g \in [Scripts -> Nat] /\ \A s \in Scripts : g[s] = 0
      BY <1>4, <1>7, Weights
    <3>2. AllOwed = SumOf(f) /\ AllOwed' = SumOf(g)
      BY DEF AllOwed, Owed, Processing
    <3>. HIDE DEF f, g
    <3>. QED BY <2>1, <3>1, <3>2
  <2>. QED BY <2>2, <2>3, <2>4
<1>9. PICK c0 \in Classes : TRUE
  BY ItemsAssumption
<1>10. NothingMade
  <2>1. SumOf(issued) \in Int /\ AllOwed \in Int /\ SumOf(issued)' = SumOf(issued)
    BY <1>1, <1>9, SumTypes
  <2>. QED BY <1>8, <2>1 DEF NothingMade
<1>11. ASSUME UnsavedTrunks = {}
       PROVE  ItemsBalance /\ CashBalances
  <2>1. \A k \in Containers : boxCash'[k] <= boxCash[k]
          /\ \A c \in Classes : stock'[k][c] <= stock[k][c]
    <3>1. SUFFICES ASSUME NEW k \in Containers
                   PROVE  boxCash'[k] <= boxCash[k] /\ \A c \in Classes : stock'[k][c] <= stock[k][c]
      OBVIOUS
    <3>2. boxCash[k] \in Int /\ boxCash[k] >= 0 /\ \A c \in Classes : stock[k][c] \in Int
            /\ stock[k][c] >= 0
      BY DEF TypeOK, Sound, NoDebts
    <3>3. CASE k \in Trunks
      <4>1. trunkSaved[k].items = stock[k] /\ trunkSaved[k].cash = boxCash[k]
        BY <1>11, <3>3 DEF TrunksSaved, UnsavedTrunks
      <4>2. stock'[k] = stock[k] /\ boxCash'[k] = boxCash[k]
        BY <1>1, <3>3, <4>1
      <4>. QED BY <3>2, <4>2
    <3>4. CASE k \notin Trunks
      <4>1. stock'[k] = Nothing /\ boxCash'[k] = 0
        BY <1>1, <3>4
      <4>. QED BY <1>5, <3>2, <4>1
    <3>. QED BY <3>3, <3>4
  <2>2. ASSUME NEW c \in Classes
        PROVE  Accounted(c)' - issued'[c] <= Accounted(c) - issued[c]
    <3>. DEFINE f == [k \in Containers |-> stock[k][c]]
                g == [k \in Containers |-> stock'[k][c]]
    <3>1. f \in [Containers -> Int] /\ g \in [Containers -> Int] /\ \A k \in Containers : g[k] <= f[k]
      BY <2>1 DEF TypeOK
    <3>2. Stored(c) = SumOf(f) /\ Stored(c)' = SumOf(g)
      BY DEF Stored
    <3>. HIDE DEF f, g
    <3>3. SumOf(g) <= SumOf(f) /\ SumOf(g) \in Int /\ SumOf(f) \in Int
      BY <3>1, FinitelyMany, SumAtMost
    <3>4. Told(c)' = Told(c) /\ issued'[c] = issued[c]
      BY <1>1 DEF Told
    <3>5. Told(c) \in Int /\ InFlight(c) \in Int /\ issued[c] \in Int
      BY SumTypes DEF TypeOK
    <3>6. Accounted(c) = Told(c) + Stored(c) + InFlight(c)
            /\ Accounted(c)' = Told(c)' + Stored(c)' + InFlight(c)'
      BY DEF Accounted
    <3>. QED BY <1>8, <3>2, <3>3, <3>4, <3>5, <3>6
  <2>3. ItemsBalance
    BY <1>2, <2>2 DEF ItemsBalance
  <2>4. SumOf(boxCash') <= SumOf(boxCash) /\ SumOf(boxCash') \in Int /\ SumOf(boxCash) \in Int
    <3>1. boxCash \in [Containers -> Int] /\ boxCash' \in [Containers -> Int] /\ IsFiniteSet(Containers)
      BY FinitelyMany DEF TypeOK
    <3>2. \A k \in Containers : boxCash'[k] <= boxCash[k]
      BY <2>1
    <3>. QED BY <3>1, <3>2, SumAtMost
  <2>5. SumOf(toldCash) \in Int /\ CashInFlight \in Int /\ issuedCash \in Int
    BY <1>9, SumTypes DEF TypeOK
  <2>6. CashAccounted = SumOf(toldCash) + SumOf(boxCash) + CashInFlight
        /\ CashAccounted' = SumOf(toldCash) + SumOf(boxCash') + CashInFlight'
    BY <1>1 DEF CashAccounted
  <2>7. CashBalances
    BY <1>1, <1>2, <1>8, <2>4, <2>5, <2>6 DEF CashBalances
  <2>. QED BY <2>3, <2>7
<1>. QED BY <1>6, <1>10, <1>11

\* What is owed is never below zero.
LEMMA OwedAtLeast == TypeOK => AllOwed >= 0
<1>. SUFFICES ASSUME TypeOK PROVE AllOwed >= 0
  OBVIOUS
<1>. DEFINE f == [s \in Scripts |-> Owed(scripts[s])]
            g == [s \in Scripts |-> 0]
<1>1. f \in [Scripts -> Int] /\ g \in [Scripts -> Int] /\ \A s \in Scripts : g[s] <= f[s] /\ g[s] = 0
  BY Weights DEF TypeOK
<1>2. AllOwed = SumOf(f) /\ IsFiniteSet(Scripts)
  BY FinitelyMany DEF AllOwed
<1>. HIDE DEF f, g
<1>3. SumOf(g) <= SumOf(f) /\ SumOf(f) \in Int
  BY <1>1, <1>2, SumAtMost
<1>4. Cardinality(Scripts) \in Nat /\ 0 \in Nat
  BY <1>2, FS_CardinalityType
<1>5. SumOf(g) = 0 * Cardinality(Scripts)
  BY <1>1, <1>2, <1>4, SumOfEqual
<1>. QED BY <1>2, <1>3, <1>4, <1>5

Summed ==
    /\ \A c \in Classes : Told(c) \in Int /\ Stored(c) \in Int /\ InFlight(c) \in Int
    /\ SumOf(toldCash) \in Int /\ SumOf(boxCash) \in Int /\ CashInFlight \in Int
    /\ SumOf(issued) \in Int /\ AllOwed \in Int

LEMMA SumsTyped == TypeOK => Summed
<1>1. PICK c \in Classes : TRUE
  BY ItemsAssumption
<1>. QED BY <1>1, SumTypes DEF Summed

LEMMA SumTypesNext == TypeOK' => Summed'
BY SumsTyped, PTL

-----------------------------------------------------------------------------
(* Every step.                                                               *)

LEMMA TransferKeeps ==
    ASSUME TypeOK, TypeOK', Sound, Take \/ Store
    PROVE  Sound' /\ ItemsBalance /\ CashBalances /\ NothingMade
<1>1. PICK sign \in {1, -1}, p \in Players, k \in Containers, c \in Classes, n \in Nat, m \in Nat :
        Transfer(p, k, sign, c, n, m)
  BY TakeAndStore
<1>2. p \in online /\ UNCHANGED <<online, login, scripts, busy, issued, issuedCash>>
  BY <1>1 DEF Transfer
<1>3. PICK d \in Int, dollars \in Int, a \in {"OK", "refused", "replyLost"},
           b \in {"OK", "refused", "commitLost"}, t \in {"OK", "refused"} :
        /\ Move(p, k, c, d, dollars, a, b, t)
        /\ d <= stock[k][c] /\ -d <= record[p][c] /\ dollars <= boxCash[k]
  BY <1>1, TransferBounds
<1>. QED BY <1>2, <1>3, MoveKeeps

LEMMA StepKeeps ==
    ASSUME TypeOK, TypeOK', Sound, TrunksSaved, [Next]_vars
    PROVE  Sound' /\ (UnsavedTrunks = {} => ItemsBalance /\ CashBalances) /\ (NoMakers => NothingMade)
<1>1. ASSUME NEW s \in Scripts, Request(s)
      PROVE  Sound' /\ ItemsBalance /\ CashBalances /\ NothingMade
  BY <1>1, RequestStarts, StartKeeps
<1>2. ASSUME NEW s \in Scripts, Step(s)
      PROVE  Sound' /\ ItemsBalance /\ CashBalances /\ (NoMakers => NothingMade)
  BY <1>2, WaitOverKeeps, ReadListKeeps, SaveListKeeps, SetRecordKeeps, SaveCashKeeps, BookKeeps
     DEF Step
<1>3. CASE Take \/ Store
  BY <1>3, TransferKeeps
<1>4. CASE Strip
  BY <1>4, StripKeeps
<1>5. CASE AdminGive \/ UseAtOnce
  BY <1>5, ChangeAtOnceKeeps DEF AdminGive, UseAtOnce
<1>6. CASE AdminGiveCash
  BY <1>6, AdminGiveCashKeeps
<1>7. CASE Expire
  BY <1>7, ExpireKeeps
<1>8. CASE Leave
  BY <1>8, LeaveKeeps
<1>9. CASE Join
  BY <1>9, JoinKeeps
<1>10. CASE Crash
  BY <1>10, CrashKeeps
<1>11. CASE UNCHANGED vars
  <2>1. UNCHANGED <<online, login, record, saved, trunkSaved, stock, boxCash, open, scripts, faults,
                    told, toldCash, issued, issuedCash>>
    BY <1>11 DEF vars, db, world, ghosts
  <2>2. ItemsBalance /\ CashBalances /\ NothingMade
    BY <2>1, NoItemMoves, NoCashMoves
  <2>3. Sound'
    BY <2>1, FitsStay, DebtsStay
  <2>. QED BY <2>2, <2>3
<1>. QED BY <1>1, <1>2, <1>3, <1>4, <1>5, <1>6, <1>7, <1>8, <1>9, <1>10, <1>11 DEF Next

LEMMA FaultsGrow ==
    ASSUME TypeOK, TypeOK', [Next]_vars
    PROVE  faults \in Nat /\ faults' \in Nat /\ faults <= faults'
<1>1. faults \in Nat /\ faults' \in Nat
  BY FaultsCount
<1>2. ASSUME NEW a, NEW b, NEW t, Answered(a, b, t)
      PROVE  faults <= faults'
  BY <1>1, <1>2 DEF Answered, Bad
<1>3. ASSUME NEW s \in Scripts, Request(s)
      PROVE  faults' = faults
  BY <1>3, RequestStarts DEF Start
<1>4. ASSUME NEW s \in Scripts, Step(s)
      PROVE  faults <= faults'
  <2>1. CASE WaitOver(s) \/ ReadList(s) \/ SetRecord(s) \/ Book(s)
    <3>1. faults' = faults
      BY <2>1, Zenon DEF WaitOver, ReadList, SetRecord, Book
    <3>. QED BY <1>1, <3>1
  <2>2. CASE SaveList(s)
    BY <1>2, <2>2 DEF SaveList
  <2>3. CASE SaveCash(s)
    BY <1>2, <2>3 DEF SaveCash
  <2>. QED BY <1>4, <2>1, <2>2, <2>3 DEF Step
<1>5. CASE Take \/ Store
  <2>1. PICK sign \in {1, -1}, p \in Players, k \in Containers, c \in Classes, n \in Nat, m \in Nat :
          Transfer(p, k, sign, c, n, m)
    BY <1>5, TakeAndStore
  <2>2. PICK d, dollars, a, b, t : Move(p, k, c, d, dollars, a, b, t)
    BY <2>1, Zenon DEF Transfer
  <2>3. Answered(a, b, t)
    BY <2>2 DEF Move
  <2>. QED BY <1>1, <1>2, <2>3
<1>6. CASE Strip
  <2>1. PICK answer : Answered(answer, "OK", "OK")
    BY <1>6, Zenon DEF Strip
  <2>. QED BY <1>1, <1>2, <2>1
<1>7. CASE AdminGive \/ UseAtOnce
  <2>1. PICK answer : Answered(answer, "OK", "OK")
    BY <1>7, Zenon DEF AdminGive, UseAtOnce, ChangeAtOnce
  <2>. QED BY <1>1, <1>2, <2>1
<1>8. CASE AdminGiveCash
  <2>1. PICK answer : Answered(answer, "OK", "OK")
    BY <1>8, Zenon DEF AdminGiveCash
  <2>. QED BY <1>1, <1>2, <2>1
<1>9. CASE Expire \/ Join
  <2>1. faults' = faults
    BY <1>9 DEF Expire, Join
  <2>. QED BY <1>1, <2>1
<1>10. CASE Leave \/ Crash
  <2>1. faults' = faults + 1
    BY <1>10 DEF Leave, Crash
  <2>. QED BY <1>1, <2>1
<1>11. CASE UNCHANGED vars
  BY <1>1, <1>11 DEF vars
<1>. QED BY <1>1, <1>3, <1>4, <1>5, <1>6, <1>7, <1>8, <1>9, <1>10, <1>11 DEF Next

\* What was covered stays covered.
LEMMA StaysCovered ==
    ASSUME NEW a \in Int, NEW b \in Int, NEW a1 \in Int, NEW b1 \in Int
    PROVE  /\ a1 - b1 <= a - b /\ a <= b => a1 <= b1
           /\ a1 - b1 = a - b /\ a = b => a1 = b1
OBVIOUS

-----------------------------------------------------------------------------
(* The start.                                                                *)

LEMMA InitSums ==
    ASSUME Init
    PROVE  /\ \A c \in Classes : Accounted(c) = issued[c] /\ issued[c] \in Int
           /\ CashAccounted = issuedCash /\ issuedCash \in Int
           /\ SumOf(issued) = InitItems * Cardinality(Players) * Cardinality(Classes) /\ AllOwed = 0
<1>1. InitItems \in Nat /\ InitCash \in Nat
  BY ItemsAssumption
<1>2. /\ IsFiniteSet(Players) /\ IsFiniteSet(Classes) /\ IsFiniteSet(Scripts) /\ IsFiniteSet(Containers)
      /\ Cardinality(Players) \in Nat /\ Cardinality(Classes) \in Nat /\ Cardinality(Scripts) \in Nat
      /\ Cardinality(Containers) \in Nat
  BY FinitelyMany, FS_CardinalityType
<1>3. ASSUME NEW S, IsFiniteSet(S), NEW f \in [S -> Int], \A x \in S : f[x] = 0
      PROVE  SumOf(f) = 0
  <2>1. Cardinality(S) \in Nat /\ 0 \in Nat
    BY <1>3, FS_CardinalityType
  <2>2. SumOf(f) = 0 * Cardinality(S)
    BY <1>3, <2>1, SumOfEqual
  <2>. QED BY <2>1, <2>2
<1>4. Idle.ask.kind = "none" /\ Idle.leg = "done" /\ Idle.stage = "none"
  BY DEF Idle, At, NoRequest
<1>5. (\A c \in Classes : Carried(Idle, c) = 0) /\ CashCarried(Idle) = 0 /\ Owed(Idle) = 0
  BY <1>4 DEF Carried, CashCarried, Owed
<1>6. \A s \in Scripts : scripts[s] = Idle
  BY DEF Init
<1>7. ASSUME NEW c \in Classes
      PROVE  Accounted(c) = issued[c] /\ issued[c] \in Int
  <2>1. Told(c) = InitItems * Cardinality(Players)
    <3>. DEFINE f == [p \in Players |-> told[p][c]]
    <3>1. \A p \in Players : f[p] = InitItems
      BY DEF Init
    <3>2. f \in [Players -> Int] /\ Told(c) = SumOf(f)
      BY <1>1, <3>1 DEF Told
    <3>. HIDE DEF f
    <3>. QED BY <1>1, <1>2, <3>1, <3>2, SumOfEqual
  <2>2. Stored(c) = 0
    <3>. DEFINE f == [k \in Containers |-> stock[k][c]]
    <3>1. \A k \in Containers : f[k] = 0
      BY DEF Init, Nothing
    <3>2. f \in [Containers -> Int] /\ Stored(c) = SumOf(f)
      BY <3>1 DEF Stored
    <3>. HIDE DEF f
    <3>. QED BY <1>2, <1>3, <3>1, <3>2
  <2>3. InFlight(c) = 0
    <3>. DEFINE f == [s \in Scripts |-> Carried(scripts[s], c)]
    <3>1. \A s \in Scripts : f[s] = 0
      BY <1>5, <1>6
    <3>2. f \in [Scripts -> Int] /\ InFlight(c) = SumOf(f)
      BY <3>1 DEF InFlight
    <3>. HIDE DEF f
    <3>. QED BY <1>2, <1>3, <3>1, <3>2
  <2>4. issued[c] = InitItems * Cardinality(Players) /\ InitItems * Cardinality(Players) \in Int
    BY <1>1, <1>2 DEF Init
  <2>. QED BY <2>1, <2>2, <2>3, <2>4 DEF Accounted
<1>8. CashAccounted = issuedCash /\ issuedCash \in Int
  <2>1. SumOf(toldCash) = InitCash * Cardinality(Players)
    <3>1. toldCash \in [Players -> Int] /\ \A p \in Players : toldCash[p] = InitCash
      BY <1>1 DEF Init
    <3>. QED BY <1>1, <1>2, <3>1, SumOfEqual
  <2>2. SumOf(boxCash) = 0
    <3>1. boxCash \in [Containers -> Int] /\ \A k \in Containers : boxCash[k] = 0
      BY DEF Init
    <3>. QED BY <1>2, <1>3, <3>1
  <2>3. CashInFlight = 0
    <3>. DEFINE f == [s \in Scripts |-> CashCarried(scripts[s])]
    <3>1. \A s \in Scripts : f[s] = 0
      BY <1>5, <1>6
    <3>2. f \in [Scripts -> Int] /\ CashInFlight = SumOf(f)
      BY <3>1 DEF CashInFlight
    <3>. HIDE DEF f
    <3>. QED BY <1>2, <1>3, <3>1, <3>2
  <2>4. issuedCash = InitCash * Cardinality(Players) /\ InitCash * Cardinality(Players) \in Int
    BY <1>1, <1>2 DEF Init
  <2>. QED BY <2>1, <2>2, <2>3, <2>4 DEF CashAccounted
<1>9. SumOf(issued) = InitItems * Cardinality(Players) * Cardinality(Classes)
  <2>. DEFINE n == InitItems * Cardinality(Players)
  <2>1. n \in Nat
    BY <1>1, <1>2
  <2>2. issued = [c \in Classes |-> n]
    BY DEF Init
  <2>. HIDE DEF n
  <2>3. issued \in [Classes -> Int] /\ \A c \in Classes : issued[c] = n
    BY <2>1, <2>2
  <2>4. SumOf(issued) = n * Cardinality(Classes)
    BY <1>2, <2>1, <2>3, SumOfEqual
  <2>. QED BY <2>4 DEF n
<1>10. AllOwed = 0
  <2>. DEFINE f == [s \in Scripts |-> Owed(scripts[s])]
  <2>1. \A s \in Scripts : f[s] = 0
    BY <1>5, <1>6
  <2>2. f \in [Scripts -> Int] /\ AllOwed = SumOf(f)
    BY <2>1 DEF AllOwed
  <2>. HIDE DEF f
  <2>. QED BY <1>2, <1>3, <2>1, <2>2
<1>. QED BY <1>7, <1>8, <1>9, <1>10

LEMMA InitSound == Init => Sound /\ TrunksSaved
<1>. SUFFICES ASSUME Init PROVE Sound /\ TrunksSaved
  OBVIOUS
<1>1. Idle.ask.kind = "none" /\ Idle.leg = "done" /\ Idle.stage = "none" /\ Idle.list = Nothing
      /\ Idle.ask.seen = [p \in Players |-> 0]
  BY DEF Idle, At, NoRequest
<1>2. \A c \in Classes : Nothing[c] = 0
  BY DEF Nothing
<1>3. Fits(Idle)
  <2>1. \A p \in Players : Idle.ask.seen[p] <= login[p]
    BY <1>1 DEF Init
  <2>. QED BY <1>1, <1>2, <2>1 DEF Fits, LegFits
<1>4. \A s \in Scripts : Fits(scripts[s])
  BY <1>3 DEF Init
<1>5. NoDebts
  <2>1. InitItems \in Nat
    BY ItemsAssumption
  <2>2. \A p \in Players, c \in Classes : record[p][c] >= 0 /\ saved[p][c] >= 0
    BY <2>1 DEF Init
  <2>3. \A k \in Containers : stock[k] = Nothing /\ boxCash[k] = 0
    BY DEF Init
  <2>4. \A t \in Trunks : trunkSaved[t].items = Nothing /\ trunkSaved[t].cash = 0
    BY DEF Init
  <2>. QED BY <1>2, <2>2, <2>3, <2>4 DEF NoDebts
<1>6. BagsEmptied
  <2>1. \A b \in Bags : stock[b] = Nothing /\ boxCash[b] = 0
    BY DEF Init, Containers
  <2>. QED BY <1>2, <2>1 DEF BagsEmptied
<1>7. online = Players
  BY DEF Init
<1>8. TrunksSaved
  BY DEF Init, TrunksSaved, Containers
<1>. QED BY <1>4, <1>5, <1>6, <1>7, <1>8 DEF Sound

-----------------------------------------------------------------------------
(* What holds of every behaviour.                                            *)

\* Nothing below zero, legs that fit their handlers, empty bags off the ground:
\* what the balance of the handlers rests on.
THEOREM AlwaysSound == Spec => [](Sound /\ TrunksSaved)
<1>1. TypeOK /\ TypeOK' /\ Sound /\ TrunksSaved /\ [Next]_vars => Sound' /\ TrunksSaved'
  BY StepKeeps, StepSaves
<1>. QED BY <1>1, InitSound, TypeCorrect, PTL DEF Spec

\* For any number of players, scripts, bags and trunks, whatever handlers run
\* and however their steps interleave: what the database acknowledged, what lies
\* in containers and what is between two legs never exceeds what was there, made
\* or bought, and equals it while nothing was refused and nobody left.
THEOREM HandlersAlwaysBalance == Spec => []HandlersBalance
<1>1. Init => HandlersBalance
  BY InitSums DEF HandlersBalance
<1>2. ASSUME TypeOK, TypeOK', Sound, TrunksSaved, HandlersBalance, [Next]_vars
      PROVE  HandlersBalance'
  <2>1. SUFFICES ASSUME UnsavedTrunks' = {}
        PROVE  /\ \A c \in Classes : Accounted(c)' <= issued'[c]
                    /\ (faults' = 0 => Accounted(c)' = issued'[c])
               /\ CashAccounted' <= issuedCash' /\ (faults' = 0 => CashAccounted' = issuedCash')
    BY DEF HandlersBalance
  <2>2. UnsavedTrunks = {}
    BY <1>2, <2>1, StepSaves DEF UnsavedTrunks
  <2>3. ItemsBalance /\ CashBalances
    BY <1>2, <2>2, StepKeeps
  <2>4. faults' = 0 => faults = 0
    BY <1>2, FaultsGrow
  <2>5. ASSUME NEW c \in Classes
        PROVE  Accounted(c)' <= issued'[c] /\ (faults' = 0 => Accounted(c)' = issued'[c])
    <3>1. Accounted(c) <= issued[c] /\ (faults = 0 => Accounted(c) = issued[c])
      BY <1>2, <2>2 DEF HandlersBalance
    <3>2. /\ Accounted(c)' - issued'[c] <= Accounted(c) - issued[c]
          /\ faults' = 0 => Accounted(c)' - issued'[c] = Accounted(c) - issued[c]
      BY <2>3 DEF ItemsBalance
    <3>3. Told(c) \in Int /\ Stored(c) \in Int /\ InFlight(c) \in Int
      BY <1>2, SumTypes
    <3>4. Told(c)' \in Int /\ Stored(c)' \in Int /\ InFlight(c)' \in Int
      BY <1>2, SumTypesNext DEF Summed
    <3>5. Accounted(c) \in Int /\ Accounted(c)' \in Int /\ issued[c] \in Int /\ issued'[c] \in Int
      BY <1>2, <3>3, <3>4 DEF Accounted, TypeOK
    <3>. QED BY <2>4, <3>1, <3>2, <3>5
  <2>6. CashAccounted' <= issuedCash' /\ (faults' = 0 => CashAccounted' = issuedCash')
    <3>1. CashAccounted <= issuedCash /\ (faults = 0 => CashAccounted = issuedCash)
      BY <1>2, <2>2 DEF HandlersBalance
    <3>2. /\ CashAccounted' - issuedCash' <= CashAccounted - issuedCash
          /\ faults' = 0 => CashAccounted' - issuedCash' = CashAccounted - issuedCash
      BY <2>3 DEF CashBalances
    <3>4. /\ SumOf(toldCash) \in Int /\ SumOf(boxCash) \in Int /\ CashInFlight \in Int
          /\ SumOf(toldCash)' \in Int /\ SumOf(boxCash)' \in Int /\ CashInFlight' \in Int
      BY <1>2, SumsTyped, SumTypesNext DEF Summed
    <3>5. CashAccounted \in Int /\ CashAccounted' \in Int /\ issuedCash \in Int /\ issuedCash' \in Int
      BY <1>2, <3>4 DEF CashAccounted, TypeOK
    <3>6. /\ CashAccounted' - issuedCash' <= CashAccounted - issuedCash /\ CashAccounted <= issuedCash
             => CashAccounted' <= issuedCash'
          /\ CashAccounted' - issuedCash' = CashAccounted - issuedCash /\ CashAccounted = issuedCash
             => CashAccounted' = issuedCash'
      BY <3>5, StaysCovered, Zenon
    <3>. QED BY <2>4, <3>1, <3>2, <3>6, Zenon
  <2>. QED BY <2>5, <2>6
<1>. QED BY <1>1, <1>2, TypeCorrect, AlwaysSound, PTL DEF Spec

\* What a restart brings back into a trunk is what was in it, unless saving it
\* was refused.
THEOREM TrunksStaySaved == Spec => []TrunksSaved
BY AlwaysSound, PTL

\* A server where nothing is bought, gathered or given by staff never holds more
\* items than it started with: processing puts out no more than it took in,
\* whatever the player does with the inputs meanwhile, and a restart adds none.
THEOREM StoresKept ==
    ASSUME NoMakers
    PROVE  Spec => []StoresHold
<1>. DEFINE Most == InitItems * Cardinality(Players) * Cardinality(Classes)
            Owing == SumOf(issued) + AllOwed <= Most
<1>1. Most \in Int
  <2>1. InitItems \in Nat /\ Cardinality(Players) \in Nat /\ Cardinality(Classes) \in Nat
    BY ItemsAssumption, FinitelyMany, FS_CardinalityType
  <2>. QED BY <2>1
<1>2. Init => Owing
  BY <1>1, InitSums
<1>. HIDE DEF Most
<1>3. ASSUME TypeOK, TypeOK', Sound, TrunksSaved, Owing, [Next]_vars
      PROVE  Owing'
  <2>2. NothingMade
    BY <1>3, StepKeeps
  <2>3. SumOf(issued) \in Int /\ AllOwed \in Int /\ SumOf(issued)' \in Int /\ AllOwed' \in Int
    BY <1>3, SumsTyped, SumTypesNext DEF Summed
  <2>4. Most' = Most
    BY DEF Most
  <2>. QED BY <1>1, <1>3, <2>2, <2>3, <2>4 DEF NothingMade
<1>4. ASSUME TypeOK, TrunksSaved, Owing
      PROVE  StoresHold
  <2>1. PICK c \in Classes : TRUE
    BY ItemsAssumption
  <2>2. SumOf(issued) \in Int /\ AllOwed \in Int
    BY <1>4, <2>1, SumTypes
  <2>3. AllOwed >= 0
    BY <1>4, OwedAtLeast
  <2>4. SumOf(issued) <= Most
    BY <1>1, <1>4, <2>2, <2>3
  <2>. QED BY <1>4, <2>4 DEF StoresHold, NothingFromNothing, Most
<1>. HIDE DEF Owing
<1>. QED BY <1>2, <1>3, <1>4, TypeCorrect, AlwaysSound, PTL DEF Spec

-----------------------------------------------------------------------------
(* Cash: the database, what handlers were told, and the record.              *)

Booked(p) ==
    /\ pocket[p] = toldCash[p]
    /\ p \in online => pocket[p] = purse[p] + AllUnbooked(p)

LEMMA PocketIsBooked == PocketAgrees <=> \A p \in Players \ doubtful : Booked(p)
BY DEF PocketAgrees, Booked, AllUnbooked

LEMMA NextPocketAgrees == (\A p \in Players \ doubtful' : Booked(p)') => PocketAgrees'
BY DEF PocketAgrees, Booked, AllUnbooked, Unbooked

LEMMA UnbookedType ==
    ASSUME NEW j \in Jobs, NEW p \in Players
    PROVE  Unbooked(j, p) \in Int /\ (j.stage # "book" => Unbooked(j, p) = 0)
<1>1. Delta(j) \in Int
  BY JobFields
<1>. QED BY <1>1 DEF Unbooked

LEMMA AllUnbookedType == ASSUME TypeOK, NEW p \in Players PROVE AllUnbooked(p) \in Int
<1>. DEFINE f == [s \in Scripts |-> Unbooked(scripts[s], p)]
<1>1. f \in [Scripts -> Int]
  BY UnbookedType DEF TypeOK
<1>2. AllUnbooked(p) = SumOf(f) /\ IsFiniteSet(Scripts)
  BY FinitelyMany DEF AllUnbooked
<1>. HIDE DEF f
<1>. QED BY <1>1, <1>2, SumIs

LEMMA UnbookedMoves ==
    ASSUME TypeOK, TypeOK', login' = login, NEW s \in Scripts, NEW x,
             scripts' = [scripts EXCEPT ![s] = x],
           NEW p \in Players
    PROVE  AllUnbooked(p)' = AllUnbooked(p) + (Unbooked(x, p) - Unbooked(scripts[s], p))
<1>. DEFINE f == [t \in Scripts |-> Unbooked(scripts[t], p)]
            g == [t \in Scripts |-> Unbooked(scripts'[t], p)]
<1>1. \A t \in Scripts : scripts[t] \in Jobs /\ scripts'[t] \in Jobs
  BY DEF TypeOK
<1>2. f \in [Scripts -> Int] /\ g \in [Scripts -> Int]
  BY <1>1, UnbookedType
<1>3. f[s] = Unbooked(scripts[s], p) /\ g[s] = Unbooked(x, p) /\ \A t \in Scripts : t # s => f[t] = g[t]
  BY DEF TypeOK
<1>4. AllUnbooked(p) = SumOf(f) /\ AllUnbooked(p)' = SumOf(g)
  BY DEF AllUnbooked, Unbooked
<1>. HIDE DEF f, g
<1>5. SumOf(g) = SumOf(f) + (g[s] - f[s])
  <2>1. IsFiniteSet(Scripts) /\ \A t \in Scripts : t # s => f[t] = g[t]
    BY <1>3, FinitelyMany
  <2>. QED BY <1>2, <2>1, SumMoves
<1>. QED BY <1>3, <1>4, <1>5

LEMMA UnbookedStays ==
    ASSUME UNCHANGED <<scripts, login>>, NEW p \in Players
    PROVE  AllUnbooked(p)' = AllUnbooked(p)
BY DEF AllUnbooked, Unbooked

\* The row and what handlers were told move together, and the record with them
\* but for what is still to be booked.
LEMMA BookedMoves ==
    ASSUME TypeOK, NEW p \in Players, Booked(p), p \in online' => p \in online,
           NEW u \in Int, NEW v \in Int, NEW w \in Int, v = w + u, AllUnbooked(p)' = AllUnbooked(p) + u,
           pocket'[p] = pocket[p] + v, toldCash'[p] = toldCash[p] + v, purse'[p] = purse[p] + w
    PROVE  Booked(p)'
<1>1. pocket[p] \in Int /\ toldCash[p] \in Int /\ purse[p] \in Int /\ AllUnbooked(p) \in Int
  BY AllUnbookedType DEF TypeOK
<1>2. pocket'[p] = toldCash'[p]
  BY <1>1 DEF Booked
<1>3. ASSUME p \in online' PROVE pocket'[p] = purse'[p] + AllUnbooked(p)'
  <2>1. pocket[p] = purse[p] + AllUnbooked(p)
    BY <1>3 DEF Booked
  <2>. QED BY <1>1, <2>1
<1>. QED BY <1>2, <1>3 DEF Booked

\* Nothing happens to anyone's cash.
LEMMA PocketStays ==
    ASSUME TypeOK, PocketAgrees, UNCHANGED <<pocket, toldCash, purse>>, doubtful \subseteq doubtful',
             online' \subseteq online,
           \A p \in Players : AllUnbooked(p)' = AllUnbooked(p)
    PROVE  PocketAgrees'
<1>1. ASSUME NEW p \in Players \ doubtful' PROVE Booked(p)'
  BY PocketIsBooked DEF Booked
<1>. QED BY <1>1, NextPocketAgrees

LEMMA LegStays ==
    ASSUME TypeOK, TypeOK', PocketAgrees, UNCHANGED <<pocket, toldCash, purse, login, online>>,
           doubtful \subseteq doubtful',
           NEW s \in Scripts, NEW x, scripts' = [scripts EXCEPT ![s] = x], scripts[s].stage # "book",
             x.stage # "book"
    PROVE  PocketAgrees'
<1>1. x \in Jobs /\ scripts[s] \in Jobs
  BY DEF TypeOK
<1>2. ASSUME NEW p \in Players PROVE AllUnbooked(p)' = AllUnbooked(p)
  <2>1. Unbooked(x, p) = 0 /\ Unbooked(scripts[s], p) = 0
    BY <1>1, UnbookedType
  <2>2. AllUnbooked(p) \in Int
    BY AllUnbookedType
  <2>3. AllUnbooked(p)' = AllUnbooked(p) + (Unbooked(x, p) - Unbooked(scripts[s], p))
    <3>1. login' = login
      OBVIOUS
    <3>. QED BY <3>1, UnbookedMoves
  <2>. QED BY <2>1, <2>2, <2>3
<1>. QED BY <1>2, PocketStays

LEMMA SaveCashBooks ==
    ASSUME TypeOK, TypeOK', Sound, PocketAgrees, NEW s \in Scripts, SaveCash(s)
    PROVE  PocketAgrees'
<1>. DEFINE j == scripts[s]
            p == Whose(j)
<1>1. j \in Jobs /\ j.stage = "save" /\ j.leg \in CashLegs /\ LegFits(j.ask.kind, j.leg)
      /\ UNCHANGED <<online, login, purse>>
  BY DEF SaveCash, TypeOK, Sound, Fits
<1>2. p \in Players /\ Delta(j) \in Int
  BY <1>1, JobFields
<1>3. PICK answer \in {"OK", "refused", "commitLost"}, applied \in BOOLEAN, accepted \in BOOLEAN :
        /\ applied => accepted
        /\ pocket' = IF applied THEN [pocket EXCEPT ![p] = pocket[p] + Delta(j)] ELSE pocket
        /\ doubtful' = doubtful \cup (IF accepted /\ (~applied \/ j.ask.seen[p] # login[p]) THEN {p}
             ELSE {})
        /\ IF accepted
           THEN /\ scripts' = [scripts EXCEPT ![s] = At(j.ask, j.leg, "book", Nothing, 0)]
                /\ toldCash' = [toldCash EXCEPT ![p] = toldCash[p] + Delta(j)]
           ELSE Goto(s, j, OnRefusal(j)) /\ UNCHANGED <<toldCash, issuedCash, issued>>
  BY DEF SaveCash
<1>4. CASE ~accepted
  <2>. DEFINE x == NextJob(j, OnRefusal(j))
  <2>1. Goto(s, j, OnRefusal(j)) /\ UNCHANGED <<pocket, toldCash, doubtful>>
    BY <1>3, <1>4
  <2>2. scripts' = [scripts EXCEPT ![s] = x]
    BY <2>1, GotoNext
  <2>3. x.stage # "book"
    <3>1. OnRefusal(j) \in Legs
      BY <1>1, LegsFollow
    <3>. QED BY <1>1, <3>1, NextHolds
  <2>. HIDE DEF x
  <2>. QED BY <1>1, <2>1, <2>2, <2>3, LegStays
<1>5. CASE accepted
  <2>. DEFINE x == At(j.ask, j.leg, "book", Nothing, 0)
  <2>1. /\ scripts' = [scripts EXCEPT ![s] = x]
        /\ toldCash' = [toldCash EXCEPT ![p] = toldCash[p] + Delta(j)]
    BY <1>3, <1>5
  <2>2. x.ask = j.ask /\ x.leg = j.leg /\ x.stage = "book"
    BY DEF At
  <2>3. x \in Jobs
    BY <2>1 DEF TypeOK
  <2>4. Whose(x) = p /\ Delta(x) = Delta(j)
    BY <2>2 DEF Whose, Delta
  <2>. HIDE DEF x
  <2>5. ASSUME NEW q \in Players \ doubtful' PROVE Booked(q)'
    <3>1. Booked(q)
      BY <1>3, <2>5, PocketIsBooked
    <3>2. AllUnbooked(q)' = AllUnbooked(q) + (Unbooked(x, q) - Unbooked(j, q)) /\ Unbooked(j, q) = 0
      BY <1>1, <2>1, UnbookedMoves, UnbookedType
    <3>3. pocket[q] \in Int /\ toldCash[q] \in Int /\ purse[q] \in Int /\ AllUnbooked(q) \in Int
      BY AllUnbookedType DEF TypeOK
    <3>4. CASE q = p
      <4>1. applied /\ j.ask.seen[p] = login[p]
        BY <1>3, <1>5, <2>5, <3>4
      <4>2. Unbooked(x, q) = Delta(j)
        BY <2>2, <2>4, <3>4, <4>1 DEF Unbooked
      <4>3. pocket'[q] = pocket[q] + Delta(j) /\ toldCash'[q] = toldCash[q] + Delta(j)
              /\ purse'[q] = purse[q] + 0
        BY <1>1, <1>2, <1>3, <2>1, <3>3, <3>4, <4>1 DEF TypeOK
      <4>4. AllUnbooked(q)' = AllUnbooked(q) + Delta(j) /\ Delta(j) = 0 + Delta(j) /\ 0 \in Int
        BY <1>2, <3>2, <3>3, <4>2
      <4>5. q \in online' => q \in online
        BY <1>1
      <4>. HIDE DEF j, p
      <4>. QED BY <1>2, <3>1, <4>3, <4>4, <4>5, BookedMoves
    <3>5. CASE q # p
      <4>1. Unbooked(x, q) = 0
        BY <2>4, <3>5 DEF Unbooked
      <4>2. pocket'[q] = pocket[q] + 0 /\ toldCash'[q] = toldCash[q] + 0 /\ purse'[q] = purse[q] + 0
        BY <1>1, <1>2, <1>3, <2>1, <3>3, <3>5 DEF TypeOK
      <4>3. AllUnbooked(q)' = AllUnbooked(q) + 0 /\ 0 = 0 + 0 /\ 0 \in Int
        BY <3>2, <3>3, <4>1
      <4>4. q \in online' => q \in online
        BY <1>1
      <4>. HIDE DEF j, p
      <4>. QED BY <3>1, <4>2, <4>3, <4>4, BookedMoves
    <3>. QED BY <3>4, <3>5
  <2>. QED BY <2>5, NextPocketAgrees
<1>. QED BY <1>4, <1>5

LEMMA BookBooks ==
    ASSUME TypeOK, TypeOK', Sound, PocketAgrees, NEW s \in Scripts, Book(s)
    PROVE  PocketAgrees'
<1>. DEFINE j == scripts[s]
            p == Whose(j)
            x == NextJob(j, OnOk(j))
            w == IF j.ask.seen[p] = login[p] THEN Delta(j) ELSE 0
<1>1. /\ j \in Jobs /\ j.stage = "book" /\ Goto(s, j, OnOk(j)) /\ LegFits(j.ask.kind, j.leg)
      /\ purse' = IF j.ask.seen[p] = login[p] THEN [purse EXCEPT ![p] = purse[p] + Delta(j)] ELSE purse
      /\ UNCHANGED <<online, login, pocket, toldCash, doubtful>>
  BY DEF Book, TypeOK, Sound, Fits, db, ghosts
<1>2. p \in Players /\ Delta(j) \in Int /\ OnOk(j) \in Legs
  BY <1>1, JobFields, LegsFollow
<1>3. scripts' = [scripts EXCEPT ![s] = x]
  BY <1>1, GotoNext
<1>4. x \in Jobs /\ x.stage # "book"
  BY <1>1, <1>2, <1>3, NextHolds DEF TypeOK
<1>5. w \in Int /\ purse'[p] = purse[p] + w /\ \A q \in Players \ {p} : purse'[q] = purse[q]
  <2>1. purse \in [Players -> Int] /\ purse[p] \in Int
    BY <1>2 DEF TypeOK
  <2>. QED BY <1>1, <1>2, <2>1
<1>6. Unbooked(j, p) = w /\ \A q \in Players \ {p} : Unbooked(j, q) = 0
  BY <1>1 DEF Unbooked
<1>. HIDE DEF x, w
<1>7. ASSUME NEW q \in Players \ doubtful' PROVE Booked(q)'
  <2>1. Booked(q)
    BY <1>1, <1>7, PocketIsBooked
  <2>2. AllUnbooked(q)' = AllUnbooked(q) + (Unbooked(x, q) - Unbooked(j, q)) /\ Unbooked(x, q) = 0
    BY <1>1, <1>3, <1>4, UnbookedMoves, UnbookedType
  <2>3. pocket[q] \in Int /\ toldCash[q] \in Int /\ purse[q] \in Int /\ AllUnbooked(q) \in Int
    BY AllUnbookedType DEF TypeOK
  <2>4. pocket'[q] = pocket[q] + 0 /\ toldCash'[q] = toldCash[q] + 0 /\ (q \in online' => q \in online)
    BY <1>1, <2>3
  <2>5. CASE q = p
    <3>1. AllUnbooked(q)' = AllUnbooked(q) + (-w) /\ 0 = w + (-w) /\ -w \in Int /\ 0 \in Int
      BY <1>5, <1>6, <2>2, <2>3, <2>5
    <3>2. purse'[q] = purse[q] + w
      BY <1>5, <2>5
    <3>. HIDE DEF j, p
    <3>. QED BY <1>5, <2>1, <2>4, <3>1, <3>2, BookedMoves
  <2>6. CASE q # p
    <3>1. AllUnbooked(q)' = AllUnbooked(q) + 0 /\ 0 = 0 + 0 /\ 0 \in Int
      BY <1>6, <2>2, <2>3, <2>6
    <3>2. purse'[q] = purse[q] + 0
      BY <1>5, <2>3, <2>6
    <3>. HIDE DEF j, p
    <3>. QED BY <2>1, <2>4, <3>1, <3>2, BookedMoves
  <2>. QED BY <2>5, <2>6
<1>. QED BY <1>7, NextPocketAgrees

LEMMA MoveBooks ==
    ASSUME TypeOK, PocketAgrees, NEW p \in online, NEW k \in Containers, NEW c \in Classes,
           NEW d \in Int, NEW dollars \in Int, NEW a \in {"OK", "refused", "replyLost"},
           NEW b \in {"OK", "refused", "commitLost"}, NEW t \in {"OK", "refused"},
           Move(p, k, c, d, dollars, a, b, t), UNCHANGED <<online, login, scripts>>
    PROVE  PocketAgrees'
<1>. DEFINE paid == IF b # "refused" /\ ~(pocket[p] + dollars < 0) THEN dollars ELSE 0
<1>1. /\ pocket' = IF b = "OK" THEN [pocket EXCEPT ![p] = pocket[p] + paid] ELSE pocket
      /\ purse' = [purse EXCEPT ![p] = purse[p] + paid]
      /\ toldCash' = [toldCash EXCEPT ![p] = toldCash[p] + paid]
      /\ doubtful \subseteq doubtful' /\ (b = "commitLost" => p \in doubtful')
  BY DEF Move, PayFrom
<1>2. paid \in Int /\ (b = "refused" => paid = 0)
  OBVIOUS
<1>. HIDE DEF paid
<1>3. ASSUME NEW q \in Players \ doubtful' PROVE Booked(q)'
  <2>1. Booked(q)
    BY <1>1, <1>3, PocketIsBooked
  <2>2. AllUnbooked(q)' = AllUnbooked(q) /\ AllUnbooked(q) \in Int
    BY UnbookedStays, AllUnbookedType
  <2>3. /\ pocket \in [Players -> Int] /\ toldCash \in [Players -> Int] /\ purse \in [Players -> Int]
        /\ pocket[q] \in Int /\ toldCash[q] \in Int /\ purse[q] \in Int
    BY DEF TypeOK
  <2>4. PICK w \in Int : /\ pocket'[q] = pocket[q] + w /\ toldCash'[q] = toldCash[q] + w
          /\ purse'[q] = purse[q] + w
    <3>1. CASE q = p
      <4>1. b = "OK" \/ paid = 0
        BY <1>1, <1>2, <1>3, <3>1
      <4>2. pocket'[q] = pocket[q] + paid
        BY <1>1, <1>2, <2>3, <3>1, <4>1
      <4>3. toldCash'[q] = toldCash[q] + paid /\ purse'[q] = purse[q] + paid
        BY <1>1, <2>3, <3>1
      <4>. QED BY <1>2, <4>2, <4>3
    <3>2. CASE q # p
      <4>1. pocket'[q] = pocket[q] /\ toldCash'[q] = toldCash[q] /\ purse'[q] = purse[q]
        BY <1>1, <2>3, <3>2
      <4>2. pocket'[q] = pocket[q] + 0 /\ toldCash'[q] = toldCash[q] + 0 /\ purse'[q] = purse[q] + 0
              /\ 0 \in Int
        BY <2>3, <4>1
      <4>. QED BY <4>2
    <3>. QED BY <3>1, <3>2
  <2>5. AllUnbooked(q)' = AllUnbooked(q) + 0 /\ w = w + 0 /\ 0 \in Int
          /\ (q \in online' => q \in online)
    BY <2>2
  <2>. QED BY <2>1, <2>4, <2>5, BookedMoves
<1>. QED BY <1>3, NextPocketAgrees

LEMMA TransferBooks ==
    ASSUME TypeOK, PocketAgrees, NEW sign \in {1, -1}, NEW p \in Players, NEW k \in Containers,
             NEW c \in Classes,
           NEW n \in Nat, NEW m \in Nat, Transfer(p, k, sign, c, n, m)
    PROVE  PocketAgrees'
<1>1. p \in online /\ UNCHANGED <<online, login, scripts>>
  BY DEF Transfer
<1>. QED BY <1>1, TransferMoves, MoveBooks

LEMMA AdminGiveCashBooks ==
    ASSUME TypeOK, PocketAgrees, AdminGiveCash
    PROVE  PocketAgrees'
<1>1. PICK p \in online, n \in Quantities, answer \in {"OK", "refused", "commitLost"} :
        /\ pocket' = IF answer = "OK" THEN [pocket EXCEPT ![p] = pocket[p] + n] ELSE pocket
        /\ IF answer = "refused"
           THEN UNCHANGED <<purse, toldCash, issuedCash>>
           ELSE /\ purse' = [purse EXCEPT ![p] = purse[p] + n]
                /\ toldCash' = [toldCash EXCEPT ![p] = toldCash[p] + n]
                /\ issuedCash' = issuedCash + n
        /\ doubtful' = doubtful \cup (IF answer = "commitLost" THEN {p} ELSE {})
  BY DEF AdminGiveCash
<1>2. UNCHANGED <<online, login, scripts>> /\ n \in Int
  BY ItemsAssumption DEF AdminGiveCash
<1>3. ASSUME NEW q \in Players \ doubtful' PROVE Booked(q)'
  <2>1. Booked(q)
    BY <1>1, <1>3, PocketIsBooked
  <2>2. AllUnbooked(q)' = AllUnbooked(q) /\ AllUnbooked(q) \in Int
    BY <1>2, UnbookedStays, AllUnbookedType
  <2>3. /\ pocket \in [Players -> Int] /\ toldCash \in [Players -> Int] /\ purse \in [Players -> Int]
        /\ pocket[q] \in Int /\ toldCash[q] \in Int /\ purse[q] \in Int
    BY DEF TypeOK
  <2>4. PICK w \in Int : /\ pocket'[q] = pocket[q] + w /\ toldCash'[q] = toldCash[q] + w
          /\ purse'[q] = purse[q] + w
    <3>1. CASE q = p /\ answer = "OK"
      <4>1. pocket'[q] = pocket[q] + n /\ toldCash'[q] = toldCash[q] + n /\ purse'[q] = purse[q] + n
        BY <1>1, <2>3, <3>1
      <4>. QED BY <1>2, <4>1
    <3>2. CASE q # p \/ answer # "OK"
      <4>1. q # p \/ answer = "refused"
        BY <1>1, <1>3, <3>2
      <4>2. pocket'[q] = pocket[q] /\ toldCash'[q] = toldCash[q] /\ purse'[q] = purse[q]
        BY <1>1, <2>3, <4>1
      <4>3. pocket'[q] = pocket[q] + 0 /\ toldCash'[q] = toldCash[q] + 0 /\ purse'[q] = purse[q] + 0
              /\ 0 \in Int
        BY <2>3, <4>2
      <4>. QED BY <4>3
    <3>. QED BY <3>1, <3>2
  <2>5. AllUnbooked(q)' = AllUnbooked(q) + 0 /\ w = w + 0 /\ 0 \in Int
          /\ (q \in online' => q \in online)
    BY <1>2, <2>2
  <2>. QED BY <2>1, <2>4, <2>5, BookedMoves
<1>. QED BY <1>3, NextPocketAgrees

LEMMA JoinBooks ==
    ASSUME TypeOK, TypeOK', Sound, PocketAgrees, Join
    PROVE  PocketAgrees'
<1>1. PICK p \in Players \ online :
        /\ online' = online \cup {p}
        /\ login' = [login EXCEPT ![p] = login[p] + 1]
        /\ purse' = [purse EXCEPT ![p] = pocket[p]]
  BY DEF Join
<1>2. UNCHANGED <<pocket, toldCash, scripts>> /\ doubtful \subseteq doubtful'
  BY DEF Join, db
<1>3. ASSUME NEW q \in Players \ doubtful' PROVE Booked(q)'
  <2>1. Booked(q)
    BY <1>2, <1>3, PocketIsBooked
  <2>2. CASE q = p
    <3>. DEFINE f == [s \in Scripts |-> Unbooked(scripts[s], q)']
    <3>1. \A s \in Scripts : f[s] = 0
      <4>1. SUFFICES ASSUME NEW s \in Scripts PROVE Unbooked(scripts[s], q)' = 0
        OBVIOUS
      <4>2. scripts[s].ask.seen[p] \in Nat /\ scripts[s].ask.seen[p] <= login[p] /\ login[p] \in Nat
        BY DEF TypeOK, Jobs, Requested, Sound, Fits
      <4>3. login'[p] = login[p] + 1
        BY <1>1 DEF TypeOK
      <4>4. scripts'[s].ask.seen[q] # login'[q]
        BY <1>2, <2>2, <4>2, <4>3
      <4>. QED BY <4>4 DEF Unbooked
    <3>2. f \in [Scripts -> Int] /\ IsFiniteSet(Scripts) /\ 0 \in Nat
      BY <3>1, FinitelyMany
    <3>3. AllUnbooked(q)' = SumOf(f)
      BY DEF AllUnbooked
    <3>. HIDE DEF f
    <3>4. SumOf(f) = 0 * Cardinality(Scripts) /\ Cardinality(Scripts) \in Nat
      BY <3>1, <3>2, SumOfEqual, FS_CardinalityType
    <3>5. AllUnbooked(q)' = 0
      BY <3>3, <3>4
    <3>6. purse'[q] = pocket[q] /\ pocket[q] \in Int /\ pocket[q] = toldCash[q]
      BY <1>1, <2>1, <2>2 DEF TypeOK, Booked
    <3>. QED BY <1>2, <3>5, <3>6 DEF Booked
  <2>3. CASE q # p
    <3>1. purse'[q] = purse[q] /\ (q \in online' => q \in online) /\ login'[q] = login[q]
      BY <1>1, <2>3 DEF TypeOK
    <3>2. AllUnbooked(q)' = AllUnbooked(q)
      BY <1>2, <3>1 DEF AllUnbooked, Unbooked
    <3>. QED BY <1>2, <2>1, <3>1, <3>2 DEF Booked
  <2>. QED BY <2>2, <2>3
<1>. QED BY <1>3, NextPocketAgrees

LEMMA CrashBooks ==
    ASSUME TypeOK, PocketAgrees, Crash
    PROVE  PocketAgrees'
<1>1. UNCHANGED <<pocket, toldCash, doubtful>> /\ online' = {}
  BY DEF Crash, db, ghosts
<1>2. ASSUME NEW p \in Players \ doubtful' PROVE Booked(p)'
  BY <1>1, <1>2, PocketIsBooked DEF Booked
<1>. QED BY <1>2, NextPocketAgrees

LEMMA LegBooks ==
    ASSUME TypeOK, TypeOK', Sound, PocketAgrees, NEW s \in Scripts, Step(s)
    PROVE  PocketAgrees'
<1>. DEFINE j == scripts[s]
<1>1. j \in Jobs /\ j.ask \in Requested /\ LegFits(j.ask.kind, j.leg)
  BY DEF TypeOK, Jobs, Sound, Fits
<1>2. OnOk(j) \in Legs /\ OnRefusal(j) \in Legs
  BY <1>1, LegsFollow
<1>3. ASSUME NEW i \in Jobs, NEW leg \in Legs, Goto(s, i, leg), j.stage # "book",
             UNCHANGED <<pocket, toldCash, purse, login, online>>, doubtful \subseteq doubtful'
      PROVE  PocketAgrees'
  <2>. DEFINE x == NextJob(i, leg)
  <2>1. scripts' = [scripts EXCEPT ![s] = x]
    BY <1>3, GotoNext
  <2>2. x.stage # "book"
    BY <1>3, NextHolds
  <2>. HIDE DEF x
  <2>. QED BY <1>3, <2>1, <2>2, LegStays
<1>4. CASE WaitOver(s)
  <2>. DEFINE r == j.ask
              i(n) == At([kind |-> r.kind, who |-> r.who, other |-> r.other, class |-> r.class,
                          n |-> n, seen |-> r.seen], "wait", "wait", Nothing, 0)
  <2>1. UNCHANGED <<pocket, toldCash, purse, login, online>> /\ doubtful \subseteq doubtful'
          /\ j.stage = "wait"
    BY <1>4 DEF WaitOver, db, ghosts
  <2>2. (\E n \in 1..r.n : Goto(s, i(n), AfterWait(r.kind))) \/ Goto(s, j, "done")
    BY <1>4 DEF WaitOver
  <2>3. "done" \in Legs /\ AfterWait(r.kind) \in Legs
    BY DEF Legs, AfterWait, ItemLegs, CashLegs
  <2>4. \A n \in 1..r.n : i(n) \in Jobs
    <3>1. SUFFICES ASSUME NEW n \in 1..r.n PROVE i(n) \in Jobs
      OBVIOUS
    <3>2. r.n \in Nat /\ n \in Nat
      BY <1>1 DEF Requested
    <3>3. [kind |-> r.kind, who |-> r.who, other |-> r.other, class |-> r.class, n |-> n,
            seen |-> r.seen] \in Requested
      BY <1>1, <3>2 DEF Requested
    <3>. QED BY <3>3, NothingType, AtJob
  <2>. HIDE DEF i
  <2>. QED BY <1>1, <1>3, <2>1, <2>2, <2>3, <2>4
<1>5. CASE ReadList(s)
  <2>1. UNCHANGED <<pocket, toldCash, purse, login, online>> /\ doubtful \subseteq doubtful'
          /\ j.stage = "read"
    BY <1>5 DEF ReadList, db
  <2>2. Goto(s, j, OnRefusal(j))
          \/ \E list, gen : scripts' = [scripts EXCEPT ![s] = At(j.ask, j.leg, "save", list, gen)]
    BY <1>5 DEF ReadList
  <2>3. \A list, gen : At(j.ask, j.leg, "save", list, gen).stage = "save"
    BY DEF At
  <2>. QED BY <1>1, <1>2, <1>3, <2>1, <2>2, <2>3, LegStays
<1>6. CASE SaveList(s)
  <2>1. UNCHANGED <<pocket, toldCash, purse, login, online>> /\ doubtful \subseteq doubtful'
          /\ j.stage = "save"
    BY <1>6 DEF SaveList
  <2>2. Goto(s, j, OnRefusal(j))
          \/ scripts' = [scripts EXCEPT ![s] = At(j.ask, j.leg, "set", j.list, j.gen)]
    BY <1>6 DEF SaveList
  <2>3. At(j.ask, j.leg, "set", j.list, j.gen).stage = "set"
    BY DEF At
  <2>. QED BY <1>1, <1>2, <1>3, <2>1, <2>2, <2>3, LegStays
<1>7. CASE SetRecord(s)
  <2>1. UNCHANGED <<pocket, toldCash, purse, login, online>> /\ doubtful \subseteq doubtful'
          /\ j.stage = "set"
    BY <1>7 DEF SetRecord, db, ghosts
  <2>2. Goto(s, j, OnOk(j))
    BY <1>7 DEF SetRecord
  <2>. QED BY <1>1, <1>2, <1>3, <2>1, <2>2
<1>8. CASE SaveCash(s) \/ Book(s)
  BY <1>8, SaveCashBooks, BookBooks
<1>. QED BY <1>4, <1>5, <1>6, <1>7, <1>8 DEF Step

LEMMA StepBooks ==
    ASSUME TypeOK, TypeOK', Sound, PocketAgrees, [Next]_vars
    PROVE  PocketAgrees'
<1>1. ASSUME NEW s \in Scripts, Request(s)
      PROVE  PocketAgrees'
  <2>1. PICK kind \in Scripted, p \in Players, q \in Players, c \in Classes,
          n \in Nat : Start(s, kind, p, q, c, n)
    BY <1>1, RequestStarts
  <2>2. UNCHANGED <<pocket, toldCash, purse, login, online, doubtful>> /\ scripts[s].stage # "book"
    BY <2>1 DEF Start, db, ghosts
  <2>3. PICK ask, list, gen :
          scripts' = [scripts EXCEPT ![s] = At(ask, FirstLeg(kind), Stage(FirstLeg(kind)), list, gen)]
    BY <2>1 DEF Start
  <2>4. FirstLeg(kind) \in ItemLegs \cup CashLegs \cup {"wait"}
    BY DEF FirstLeg, ItemLegs, CashLegs
  <2>5. At(ask, FirstLeg(kind), Stage(FirstLeg(kind)), list, gen).stage # "book"
    BY <2>4 DEF At, Stage, ItemLegs, CashLegs
  <2>. QED BY <2>2, <2>3, <2>5, LegStays
<1>2. ASSUME NEW s \in Scripts, Step(s)
      PROVE  PocketAgrees'
  BY <1>2, LegBooks
<1>3. CASE Take \/ Store
  BY <1>3, TakeAndStore, TransferBooks
<1>4. ASSUME UNCHANGED <<pocket, toldCash, purse, login, scripts>>, doubtful \subseteq doubtful',
               online' \subseteq online
      PROVE  PocketAgrees'
  <2>1. \A p \in Players : AllUnbooked(p)' = AllUnbooked(p)
    BY <1>4, UnbookedStays
  <2>. QED BY <1>4, <2>1, PocketStays
<1>5. CASE Strip
  BY <1>4, <1>5 DEF Strip
<1>6. CASE AdminGive \/ UseAtOnce
  BY <1>4, <1>6 DEF AdminGive, UseAtOnce, ChangeAtOnce
<1>7. CASE AdminGiveCash
  BY <1>7, AdminGiveCashBooks
<1>8. CASE Expire
  BY <1>4, <1>8 DEF Expire, db
<1>9. CASE Leave
  BY <1>4, <1>9 DEF Leave, db, ghosts
<1>10. CASE Join
  BY <1>10, JoinBooks
<1>11. CASE Crash
  BY <1>11, CrashBooks
<1>12. CASE UNCHANGED vars
  BY <1>4, <1>12 DEF vars, db, ghosts
<1>. QED BY <1>1, <1>2, <1>3, <1>5, <1>6, <1>7, <1>8, <1>9, <1>10, <1>11, <1>12 DEF Next

LEMMA InitBooks == Init => PocketAgrees
<1>. SUFFICES ASSUME Init PROVE PocketAgrees
  OBVIOUS
<1>1. Idle.stage = "none"
  BY DEF Idle, At
<1>2. ASSUME NEW p \in Players PROVE Booked(p)
  <2>. DEFINE f == [s \in Scripts |-> Unbooked(scripts[s], p)]
  <2>1. \A s \in Scripts : f[s] = 0
    BY <1>1 DEF Init, Unbooked
  <2>2. f \in [Scripts -> Int] /\ IsFiniteSet(Scripts) /\ 0 \in Nat /\ AllUnbooked(p) = SumOf(f)
    BY <2>1, FinitelyMany DEF AllUnbooked
  <2>. HIDE DEF f
  <2>3. SumOf(f) = 0 * Cardinality(Scripts) /\ Cardinality(Scripts) \in Nat
    BY <2>1, <2>2, SumOfEqual, FS_CardinalityType
  <2>4. AllUnbooked(p) = 0
    BY <2>2, <2>3
  <2>5. pocket[p] = toldCash[p] /\ pocket[p] = purse[p] /\ purse[p] \in Int
    BY ItemsAssumption DEF Init
  <2>. QED BY <2>4, <2>5 DEF Booked
<1>. QED BY <1>2, PocketIsBooked

\* Cash is saved as a change, so however scripts, gifts and refunds overlap, the
\* row has what handlers were told, and the record follows once it is booked.
THEOREM PocketsAgree == Spec => []PocketAgrees
<1>1. TypeOK /\ TypeOK' /\ Sound /\ PocketAgrees /\ [Next]_vars => PocketAgrees'
  BY StepBooks
<1>. QED BY <1>1, InitBooks, TypeCorrect, AlwaysSound, PTL DEF Spec
=============================================================================
