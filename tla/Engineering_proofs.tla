------------------------- MODULE Engineering_proofs -------------------------
(***************************************************************************)
(* Both sides of the engineering memory.  The goal manager (GoalManager)   *)
(* keeps the goals of which it has records: what it promises of its        *)
(* repository, of its listeners and of its backlog, whatever callers add   *)
(* and the memory has recorded.  A self-repair execution (RepairPipeline)  *)
(* writes a record: that its rounds are informed and its report is what    *)
(* became of the project, whatever the model answers, the tests do and     *)
(* others edit; and that the patches generated from two texts make the one *)
(* of the other and are refused for a reason.  Planning (GoalPlanning) is  *)
(* about algorithms on graphs: that its searches, which are functions on   *)
(* what is left to search, exist and answer what the relation of the       *)
(* dependencies says.                                                      *)
(***************************************************************************)
EXTENDS GoalPlanning, RepairPipeline, NaturalsInduction, FiniteSetTheorems, SequenceTheorems, TLAPS
-----------------------------------------------------------------------------
(* Numbers and tuples of them                                              *)

LEMMA First ==
  ASSUME NEW S \in SUBSET Nat, S # {}
  PROVE  Min(S) \in S /\ \A x \in S : Min(S) <= x
<1>1. PICK x \in S : \A y \in Nat : <<y, x>> \in OpToRel(<, Nat) => y \notin S
  BY NatLessThanWellFounded, WFMin
<1>2. \A y \in S : ~(y < x)
  BY <1>1 DEF OpToRel
<1>3. \A y \in S : x <= y
  BY <1>2
<1> QED BY <1>3 DEF Min

LEMMA NeverBeforeItself ==
  ASSUME NEW k \in Seq(Int)
  PROVE  ~Before(k, k)
BY DEF Before

LEMMA BeforeIsTransitive ==
  ASSUME NEW k \in Seq(Int), NEW l \in Seq(Int), NEW m \in Seq(Int), Before(k, l), Before(l, m)
  PROVE  Before(k, m)
<1>0. /\ DOMAIN k = 1..Len(k) /\ DOMAIN l = 1..Len(l) /\ DOMAIN m = 1..Len(m)
      /\ Len(k) \in Nat /\ Len(l) \in Nat /\ Len(m) \in Nat
      /\ \A i \in 1..Len(k) : k[i] \in Int
      /\ \A i \in 1..Len(l) : l[i] \in Int
      /\ \A i \in 1..Len(m) : m[i] \in Int
  OBVIOUS
<1> DEFINE Shorter(a, b) == Len(a) < Len(b) /\ \A i \in 1..Len(a) : a[i] = b[i]
           Less(a, b, i) == i \in 1..Len(a) /\ i \in 1..Len(b) /\ a[i] < b[i]
                            /\ \A j \in 1..(i - 1) : a[j] = b[j]
<1>1. /\ Shorter(k, l) \/ \E i \in 1..Len(k) : Less(k, l, i)
      /\ Shorter(l, m) \/ \E i \in 1..Len(l) : Less(l, m, i)
  BY <1>0 DEF Before
<1>2. /\ Shorter(k, m) => Before(k, m)
      /\ \A i : Less(k, m, i) => Before(k, m)
  BY <1>0 DEF Before
<1>3. CASE Shorter(k, l) /\ Shorter(l, m)
  BY <1>0, <1>2, <1>3
<1>4. ASSUME Shorter(k, l), NEW i \in 1..Len(l), Less(l, m, i)
      PROVE  Before(k, m)
  <2>1. CASE i \in 1..Len(k)
    <3>1. Less(k, m, i)
      BY <1>0, <1>4, <2>1
    <3> QED BY <1>2, <3>1
  <2>2. CASE i \notin 1..Len(k)
    <3>1. Shorter(k, m)
      BY <1>0, <1>4, <2>2, SMTT(60)
    <3> QED BY <1>2, <3>1
  <2> QED BY <2>1, <2>2
<1>5. ASSUME NEW i \in 1..Len(k), Less(k, l, i), Shorter(l, m)
      PROVE  Before(k, m)
  <2>1. Less(k, m, i)
    BY <1>0, <1>5
  <2> QED BY <1>2, <2>1
<1>6. ASSUME NEW i \in 1..Len(k), Less(k, l, i), NEW n \in 1..Len(l), Less(l, m, n)
      PROVE  Before(k, m)
  <2>1. CASE i <= n
    <3>1. Less(k, m, i)
      BY <1>0, <1>6, <2>1, SMTT(60)
    <3> QED BY <1>2, <3>1
  <2>2. CASE n < i
    <3>1. Less(k, m, n)
      BY <1>0, <1>6, <2>2, SMTT(60)
    <3> QED BY <1>2, <3>1
  <2> QED BY <1>0, <2>1, <2>2
<1> HIDE DEF Shorter, Less
<1> QED BY <1>1, <1>3, <1>4, <1>5, <1>6

\* Of two tuples that differ one comes before the other.
LEMMA BeforeIsTotal ==
  ASSUME NEW k \in Seq(Int), NEW l \in Seq(Int), k # l
  PROVE  Before(k, l) \/ Before(l, k)
<1>0. /\ DOMAIN k = 1..Len(k) /\ DOMAIN l = 1..Len(l) /\ Len(k) \in Nat /\ Len(l) \in Nat
      /\ \A i \in 1..Len(k) : k[i] \in Int
      /\ \A i \in 1..Len(l) : l[i] \in Int
      /\ k = [i \in 1..Len(k) |-> k[i]] /\ l = [i \in 1..Len(l) |-> l[i]]
  OBVIOUS
<1> DEFINE D == {i \in 1..Len(k) : i \in 1..Len(l) /\ k[i] # l[i]}
<1>1. CASE D # {}
  <2>1. D \in SUBSET Nat
    OBVIOUS
  <2>2. PICK i \in D : \A j \in D : i <= j
    <3> HIDE DEF D
    <3> QED BY <1>1, <2>1, First
  <2>3. i \in 1..Len(k) /\ i \in 1..Len(l) /\ k[i] # l[i]
    OBVIOUS
  <2>4. ASSUME NEW j \in 1..(i - 1)
        PROVE  k[j] = l[j]
    <3>1. j \in 1..Len(k) /\ j \in 1..Len(l) /\ ~(i <= j)
      BY <1>0, <2>3, SMTT(60)
    <3> QED BY <2>2, <3>1
  <2>5. k[i] < l[i] \/ l[i] < k[i]
    BY <1>0, <2>3
  <2>6. i \in DOMAIN k \cap DOMAIN l /\ i \in DOMAIN l \cap DOMAIN k
    BY <1>0, <2>3
  <2> HIDE DEF D
  <2>7. \A j \in 1..(i - 1) : l[j] = k[j]
    BY <2>4
  <2>8. ASSUME k[i] < l[i]
        PROVE  Before(k, l)
    <3>1. \E n \in DOMAIN k \cap DOMAIN l : k[n] < l[n] /\ \A j \in 1..(n - 1) : k[j] = l[j]
      BY <2>4, <2>6, <2>8
    <3> QED BY <3>1 DEF Before
  <2>9. ASSUME l[i] < k[i]
        PROVE  Before(l, k)
    <3>1. \E n \in DOMAIN l \cap DOMAIN k : l[n] < k[n] /\ \A j \in 1..(n - 1) : l[j] = k[j]
      BY <2>6, <2>7, <2>9
    <3> QED BY <3>1 DEF Before
  <2> QED BY <2>5, <2>8, <2>9
<1>2. CASE D = {}
  <2>1. \A i \in 1..Len(k) : i \in 1..Len(l) => k[i] = l[i]
    BY <1>2, SMTT(60)
  <2>2. Len(k) # Len(l)
    BY <1>0, <2>1
  <2>3. CASE Len(k) < Len(l)
    <3>1. \A i \in 1..Len(k) : k[i] = l[i]
      BY <1>0, <2>1, <2>3
    <3> QED BY <1>0, <2>3, <3>1 DEF Before
  <2>4. CASE Len(l) < Len(k)
    <3>1. \A i \in 1..Len(l) : l[i] = k[i]
      BY <1>0, <2>1, <2>4
    <3> QED BY <1>0, <2>4, <3>1 DEF Before
  <2>5. Len(k) < Len(l) \/ Len(l) < Len(k)
    <3>1. Len(k) \in Nat /\ Len(l) \in Nat
      BY <1>0
    <3> HIDE DEF D
    <3> QED BY <2>2, <3>1
  <2> QED BY <2>3, <2>4, <2>5
<1> QED BY <1>1, <1>2
\* A finite set in order: every member once, at one more than the number of those that
\* are earlier.
LEMMA InOrderIs ==
  ASSUME NEW S, IsFiniteSet(S), NEW earlier \in [S -> SUBSET S],
         \A x \in S : x \notin earlier[x],
         \A x, y \in S : x \in earlier[y] => earlier[x] \subseteq earlier[y],
         \A x, y \in S : x # y => x \in earlier[y] \/ y \in earlier[x]
  PROVE  /\ Cardinality(S) \in Nat
         /\ InOrder(S, earlier) \in Seq(S) /\ Len(InOrder(S, earlier)) = Cardinality(S)
         /\ \A x \in S : /\ Cardinality(earlier[x]) + 1 \in 1..Cardinality(S)
                         /\ InOrder(S, earlier)[Cardinality(earlier[x]) + 1] = x
         /\ \A i \in 1..Cardinality(S) :
               InOrder(S, earlier)[i] \in S /\ Cardinality(earlier[InOrder(S, earlier)[i]]) + 1 = i
         /\ \A x, y \in S : x \in earlier[y] => Cardinality(earlier[x]) < Cardinality(earlier[y])
<1> DEFINE n == Cardinality(S)
           P == [x \in S |-> Cardinality(earlier[x]) + 1]
<1>1. n \in Nat
  BY FS_CardinalityType
<1>2. ASSUME NEW x \in S
      PROVE  /\ IsFiniteSet(earlier[x]) /\ Cardinality(earlier[x]) \in Nat
             /\ Cardinality(earlier[x]) < n
  <2>1. earlier[x] \in SUBSET S /\ x \notin earlier[x] /\ earlier[x] # S
    OBVIOUS
  <2>2. /\ IsFiniteSet(earlier[x]) /\ Cardinality(earlier[x]) <= Cardinality(S)
        /\ Cardinality(S) # Cardinality(earlier[x])
    BY <2>1, FS_Subset
  <2>3. Cardinality(earlier[x]) \in Nat
    BY <2>2, FS_CardinalityType
  <2> QED BY <1>1, <2>2, <2>3
<1>3. ASSUME NEW x \in S, NEW y \in S, x \in earlier[y]
      PROVE  Cardinality(earlier[x]) < Cardinality(earlier[y])
  <2>1. earlier[x] \in SUBSET earlier[y] /\ earlier[x] # earlier[y]
    BY <1>3
  <2>2. IsFiniteSet(earlier[y])
    BY <1>2
  <2>3. /\ Cardinality(earlier[x]) <= Cardinality(earlier[y])
        /\ Cardinality(earlier[x]) # Cardinality(earlier[y])
    BY <2>1, <2>2, FS_Subset
  <2> QED BY <1>2, <2>3
<1>4. \A x \in S : P[x] \in 1..n
  <2> HIDE DEF n
  <2> QED BY <1>1, <1>2
<1>5. \A x, y \in S : P[x] = P[y] => x = y
  BY <1>2, <1>3
<1>6. \A i \in 1..n : \E x \in S : Cardinality(earlier[x]) = i - 1
  <2>1. P \in Injection(S, 1..n)
    BY <1>4, <1>5 DEF Injection, IsInjective
  <2>2. IsFiniteSet(1..n) /\ Cardinality(1..n) = n
    BY <1>1, FS_Interval
  <2>3. P \in Surjection(S, 1..n)
    <3> HIDE DEF P
    <3> QED BY <2>1, <2>2, FS_Injection
  <2>4. ASSUME NEW i \in 1..n
        PROVE  \E x \in S : Cardinality(earlier[x]) = i - 1
    <3>1. PICK x \in S : P[x] = i
      BY <2>3 DEF Surjection
    <3>2. Cardinality(earlier[x]) + 1 = i /\ Cardinality(earlier[x]) \in Nat
      BY <1>2, <3>1
    <3> HIDE DEF n
    <3> QED BY <1>1, <3>2
  <2> QED BY <2>4
<1> DEFINE L == InOrder(S, earlier)
<1>7. L = [i \in 1..n |-> CHOOSE x \in S : Cardinality(earlier[x]) = i - 1]
  BY DEF InOrder
<1>8. \A i \in 1..n : L[i] \in S /\ Cardinality(earlier[L[i]]) = i - 1
  BY <1>6, <1>7
<1>9. L \in [1..n -> S]
  BY <1>7, <1>8
<1>10. L \in Seq(S) /\ Len(L) = n
  <2> HIDE DEF L, n
  <2> QED BY <1>1, <1>9
<1>11. \A i \in 1..n : L[i] \in S /\ Cardinality(earlier[L[i]]) + 1 = i
  <2> HIDE DEF L, n
  <2> QED BY <1>1, <1>8
<1>12. ASSUME NEW x \in S
       PROVE  Cardinality(earlier[x]) + 1 \in 1..n /\ L[Cardinality(earlier[x]) + 1] = x
  <2>1. P[x] \in 1..n
    BY <1>4
  <2>2. L[P[x]] \in S /\ P[L[P[x]]] = P[x]
    BY <1>11, <2>1
  <2>3. L[P[x]] = x
    <3> HIDE DEF L, P
    <3> QED BY <1>5, <2>2
  <2> QED BY <2>1, <2>3
<1> QED BY <1>1, <1>3, <1>10, <1>11, <1>12
-----------------------------------------------------------------------------
(* Goals in order                                                          *)

LEMMA RankIs ==
  ASSUME NEW g \in Goal
  PROVE  /\ Rank(g) \in Seq(Int) /\ Len(Rank(g)) = Len(g.title) + 1
         /\ Rank(g)[1] = g.priority
         /\ \A i \in 1..Len(g.title) : Rank(g)[i + 1] = g.title[i]
<1>1. g.priority \in Int /\ g.title \in Seq(Nat)
  BY DEF Goal
<1> DEFINE p == g.priority
           t == g.title
<1>2. t \in Seq(Int)
  BY <1>1
<1>3. ASSUME NEW q \in Int, NEW s \in Seq(Int)
      PROVE  /\ <<q>> \o s \in Seq(Int) /\ Len(<<q>> \o s) = Len(s) + 1
             /\ (<<q>> \o s)[1] = q
             /\ \A i \in 1..Len(s) : (<<q>> \o s)[i + 1] = s[i]
  OBVIOUS
<1> QED BY <1>1, <1>2, <1>3 DEF Rank

LEMMA MoreUrgentFirst ==
  ASSUME NEW g \in Goal, NEW h \in Goal, g.priority < h.priority
  PROVE  Before(Rank(g), Rank(h))
<1>1. /\ Rank(g)[1] = g.priority /\ Rank(h)[1] = h.priority
      /\ 1 \in DOMAIN Rank(g) /\ 1 \in DOMAIN Rank(h)
  <2>1. Len(g.title) \in Nat /\ Len(h.title) \in Nat
    BY DEF Goal
  <2> QED BY <2>1, RankIs, SMTT(60)
<1> QED BY <1>1 DEF Before

LEMMA OtherTitlesOtherRanks ==
  ASSUME NEW g \in Goal, NEW h \in Goal, g.title # h.title
  PROVE  Before(Rank(g), Rank(h)) \/ Before(Rank(h), Rank(g))
<1>1. g.title \in Seq(Nat) /\ h.title \in Seq(Nat)
  BY DEF Goal
<1> SUFFICES ASSUME Rank(g) = Rank(h)
             PROVE  FALSE
  BY RankIs, BeforeIsTotal
<1>2. Len(g.title) = Len(h.title)
  BY <1>1, RankIs
<1>3. \A i \in 1..Len(g.title) : g.title[i] = h.title[i]
  BY <1>2, RankIs, SMTT(60)
<1>4. \A t, u \in Seq(Nat) : Len(t) = Len(u) /\ (\A i \in 1..Len(t) : t[i] = u[i]) => t = u
  OBVIOUS
<1>5. g.title = h.title
  BY <1>1, <1>2, <1>3, <1>4
<1> QED BY <1>5

\* A set of goals no two of which have the same title.
Listable(S) == /\ S \subseteq Goal /\ IsFiniteSet(S)
               /\ \A g, h \in S : g.title = h.title => g = h

\* Where a goal of S stands in the list of S.
Earlier(S) == [g \in S |-> {h \in S : Before(Rank(h), Rank(g))}]
Place(g, S) == Cardinality(Earlier(S)[g]) + 1

LEMMA GoalsAreOrdered ==
  ASSUME NEW S, Listable(S)
  PROVE  /\ IsFiniteSet(S) /\ Earlier(S) \in [S -> SUBSET S]
         /\ \A g \in S : g \notin Earlier(S)[g]
         /\ \A g, h \in S : g \in Earlier(S)[h] => Earlier(S)[g] \subseteq Earlier(S)[h]
         /\ \A g, h \in S : g # h => g \in Earlier(S)[h] \/ h \in Earlier(S)[g]
<1>1. \A g \in S : g \in Goal /\ Rank(g) \in Seq(Int) /\ ~Before(Rank(g), Rank(g))
  BY RankIs, NeverBeforeItself DEF Listable
<1>2. \A g, h \in S : g # h => Before(Rank(g), Rank(h)) \/ Before(Rank(h), Rank(g))
  BY OtherTitlesOtherRanks DEF Listable
<1>3. \A f, g, h \in S : Before(Rank(f), Rank(g)) /\ Before(Rank(g), Rank(h))
                           => Before(Rank(f), Rank(h))
  BY <1>1, BeforeIsTransitive
<1>4. IsFiniteSet(S)
  BY DEF Listable
<1> QED BY <1>1, <1>2, <1>3, <1>4 DEF Earlier

\* The list holds every goal once, and none that comes before another behind it.
LEMMA SortedIs ==
  ASSUME NEW S, Listable(S)
  PROVE  /\ Cardinality(S) \in Nat
         /\ Sorted(S) \in Seq(S) /\ Len(Sorted(S)) = Cardinality(S)
         /\ \A g \in S : /\ Place(g, S) \in 1..Len(Sorted(S)) /\ Sorted(S)[Place(g, S)] = g
         /\ \A i \in 1..Len(Sorted(S)) : Place(Sorted(S)[i], S) = i
         /\ \A g, h \in S : Before(Rank(g), Rank(h)) => Place(g, S) < Place(h, S)
<1> DEFINE E == Earlier(S)
           L == InOrder(S, E)
<1>1. Sorted(S) = L
  BY DEF Sorted, Earlier
<1>2. /\ IsFiniteSet(S) /\ E \in [S -> SUBSET S]
      /\ \A g \in S : g \notin E[g]
      /\ \A g, h \in S : g \in E[h] => E[g] \subseteq E[h]
      /\ \A g, h \in S : g # h => g \in E[h] \/ h \in E[g]
  BY GoalsAreOrdered
<1>3. \A g, h \in S : Before(Rank(g), Rank(h)) => g \in E[h]
  BY DEF Earlier
<1>4. \A g : Place(g, S) = Cardinality(E[g]) + 1
  BY DEF Place
<1> HIDE DEF E
<1>5. /\ Cardinality(S) \in Nat /\ L \in Seq(S) /\ Len(L) = Cardinality(S)
      /\ \A x \in S : /\ Cardinality(E[x]) + 1 \in 1..Cardinality(S)
                      /\ L[Cardinality(E[x]) + 1] = x
      /\ \A i \in 1..Cardinality(S) : L[i] \in S /\ Cardinality(E[L[i]]) + 1 = i
      /\ \A x, y \in S : x \in E[y] => Cardinality(E[x]) < Cardinality(E[y])
  BY <1>2, InOrderIs
<1> HIDE DEF L
<1>6. \A x \in S : Cardinality(E[x]) \in Int
  <2>1. \A x \in S : IsFiniteSet(E[x])
    BY <1>2, FS_Subset
  <2> QED BY <2>1, FS_CardinalityType
<1>7. \A g, h \in S : Before(Rank(g), Rank(h)) => Place(g, S) < Place(h, S)
  BY <1>3, <1>4, <1>5, <1>6
<1> QED BY <1>1, <1>4, <1>5, <1>7

\* The first goal to do is one of the most urgent to do.
LEMMA FirstTodoIs ==
  ASSUME NEW S, Listable(S)
  PROVE  \/ FirstTodo(Sorted(S)) = <<"none">> /\ \A g \in S : g.status # "todo"
         \/ \E g \in S : /\ FirstTodo(Sorted(S)) = g.id /\ g.status = "todo"
                         /\ \A h \in S : h.status = "todo" => g.priority <= h.priority
<1> DEFINE L == Sorted(S)
           todo == WithStatus(L, "todo")
<1>1. /\ L \in Seq(S) /\ DOMAIN L = 1..Len(L) /\ Len(L) \in Nat
      /\ \A g \in S : Place(g, S) \in 1..Len(L) /\ L[Place(g, S)] = g
      /\ \A i \in 1..Len(L) : L[i] \in S /\ Place(L[i], S) = i
  <2>1. /\ L \in Seq(S)
        /\ \A g \in S : Place(g, S) \in 1..Len(L) /\ L[Place(g, S)] = g
        /\ \A i \in 1..Len(L) : Place(L[i], S) = i
    BY SortedIs
  <2> HIDE DEF L
  <2> QED BY <2>1
<1>2. FirstTodo(L) = IF todo = {} THEN <<"none">> ELSE L[Min(todo)].id
  BY DEF FirstTodo
<1>3. \A i : i \in todo <=> i \in 1..Len(L) /\ L[i].status = "todo"
  BY <1>1 DEF WithStatus
<1> HIDE DEF L, todo
<1>4. CASE todo = {}
  <2>1. \A g \in S : g.status # "todo"
    BY <1>1, <1>3, <1>4
  <2> QED BY <1>2, <1>4, <2>1 DEF L
<1>5. CASE todo # {}
  <2>1. todo \in SUBSET Nat
    BY <1>3
  <2>2. Min(todo) \in todo /\ \A i \in todo : Min(todo) <= i
    BY <1>5, <2>1, First
  <2> DEFINE m == Min(todo)
             g == L[m]
  <2>3. m \in 1..Len(L) /\ g \in S /\ g.status = "todo" /\ Place(g, S) = m
    BY <1>1, <1>3, <2>2
  <2>4. \A i \in todo : m <= i
    BY <2>2
  <2>5. FirstTodo(L) = g.id
    BY <1>2, <1>5
  <2>6. \A h \in S : h \in Goal /\ h.priority \in Int
    BY DEF Listable, Goal
  <2> HIDE DEF m, g
  <2>7. ASSUME NEW h \in S, h.status = "todo", ~(g.priority <= h.priority)
        PROVE  FALSE
    <3>1. h.priority < g.priority
      BY <2>3, <2>6, <2>7
    <3>2. Place(h, S) < Place(g, S)
      BY <2>3, <2>6, <3>1, MoreUrgentFirst, SortedIs
    <3>3. Place(h, S) \in 1..Len(L) /\ L[Place(h, S)] = h
      BY <1>1
    <3>4. Place(h, S) \in todo
      BY <1>3, <2>7, <3>3
    <3>5. m <= Place(h, S)
      BY <2>4, <3>4
    <3> QED BY <2>3, <3>2, <3>3, <3>5
  <2> QED BY <2>3, <2>5, <2>7 DEF L
<1> QED BY <1>4, <1>5

LEMMA DoneAreCounted ==
  ASSUME NEW S, Listable(S)
  PROVE  Cardinality(WithStatus(Sorted(S), "done")) = Cardinality({g \in S : g.status = "done"})
<1> DEFINE L == Sorted(S)
           D == {g \in S : g.status = "done"}
           W == WithStatus(L, "done")
           P == [g \in D |-> Place(g, S)]
<1>1. /\ L \in Seq(S)
      /\ \A g \in S : Place(g, S) \in 1..Len(L) /\ L[Place(g, S)] = g
      /\ \A i \in 1..Len(L) : Place(L[i], S) = i
  BY SortedIs
<1>2. \A i : i \in W <=> i \in 1..Len(L) /\ L[i] \in S /\ L[i].status = "done"
  <2> HIDE DEF L
  <2>1. DOMAIN L = 1..Len(L) /\ \A i \in 1..Len(L) : L[i] \in S
    BY <1>1
  <2> QED BY <2>1 DEF WithStatus
<1> HIDE DEF L, W
<1>3. P \in [D -> W]
  BY <1>1, <1>2
<1>4. \A g, h \in D : P[g] = P[h] => g = h
  BY <1>1
<1>5. \A i \in W : \E g \in D : P[g] = i
  <2>1. ASSUME NEW i \in W
        PROVE  L[i] \in D /\ P[L[i]] = i
    BY <1>1, <1>2
  <2> QED BY <2>1
<1> HIDE DEF P
<1>6. P \in Bijection(D, W)
  BY <1>3, <1>4, <1>5 DEF Bijection, Injection, Surjection, IsInjective
<1>7. IsFiniteSet(D)
  BY FS_Subset DEF Listable
<1> HIDE DEF D
<1>8. Cardinality(W) = Cardinality(D)
  BY <1>6, <1>7, FS_Bijection DEF ExistsBijection
<1> QED BY <1>8 DEF W, D, L
-----------------------------------------------------------------------------
(* A sound repository, and what is done to it                              *)

Sound(S) ==
  /\ S \subseteq Goal /\ IsFiniteSet(S)
  /\ \A g \in S : GoalValid(g) /\ g.status \in Statuses /\ (g.id[1] = "goal" => g.id[2] = g.title)
  /\ \A g, h \in S : (g.id = h.id \/ g.title = h.title) => g = h

LEMMA SoundIsListable ==
  ASSUME NEW S, Sound(S)
  PROVE  Listable(S)
BY DEF Sound, Listable

\* validate_goal is enough to keep titles and ids unique.
LEMMA SavedIsSound ==
  ASSUME NEW S, Sound(S), NEW g \in Goal, GoalValid(g), g.status \in Statuses,
         g.id[1] = "goal" => g.id[2] = g.title,
         \A e \in S : e.id = g.id \/ e.title # g.title
  PROVE  Sound(Saved(S, g))
<1>1. IsFiniteSet(Saved(S, g))
  <2> DEFINE K == {x \in S : x.id # g.id}
  <2>1. IsFiniteSet(K)
    BY FS_Subset DEF Sound
  <2>2. IsFiniteSet(K \cup {g})
    <3> HIDE DEF K
    <3> QED BY <2>1, FS_AddElement
  <2> QED BY <2>2 DEF Saved
<1>2. \A x \in Saved(S, g) : x = g \/ (x \in S /\ x.id # g.id /\ x.title # g.title)
  BY DEF Saved
<1> QED BY <1>1, <1>2 DEF Sound

LEMMA SubsetIsSound ==
  ASSUME NEW S, Sound(S), NEW T \in SUBSET S
  PROVE  Sound(T)
BY FS_Subset DEF Sound

LEMMA StatusesStay ==
  ASSUME NEW s \in Statuses
  PROVE  normalize_status(s) = s /\ s \in Written
<1>1. /\ DOMAIN Legacy = {"pending", "running", "completed", "failed", "cancelled"}
      /\ Legacy["cancelled"] = "cancelled"
  BY DEF Legacy
<1>2. s \notin DOMAIN Legacy \/ s = "cancelled"
  BY <1>1 DEF Statuses
<1>3. s \in Written
  BY DEF Written
<1>4. ASSUME s \notin DOMAIN Legacy
      PROVE  normalize_status(s) = s
  BY <1>4 DEF normalize_status
<1>5. ASSUME s = "cancelled"
      PROVE  normalize_status(s) = s
  <2>1. normalize_status("cancelled") = Legacy["cancelled"]
    BY <1>1 DEF normalize_status
  <2> QED BY <1>1, <1>5, <2>1
<1> QED BY <1>2, <1>3, <1>4, <1>5

\* What a goal becomes when it is built again with another status or priority.
LEMMA RebuiltIs ==
  ASSUME NEW g \in Goal, GoalValid(g), NEW status \in Statuses, NEW priority \in 0..4
  PROVE  /\ Rebuilt(g, status, priority) \in Goal /\ GoalValid(Rebuilt(g, status, priority))
         /\ Rebuilt(g, status, priority).id = g.id /\ Rebuilt(g, status, priority).title = g.title
         /\ Rebuilt(g, status, priority).status = status
<1> DEFINE h == Rebuilt(g, status, priority)
<1>0. status \in Written /\ normalize_status(status) = status
  BY StatusesStay
<1>1. <<>> \in Seq(GoalId) /\ 2 \in 0..4 /\ priority \in Int
  OBVIOUS
<1>2. h \in Goal /\ h.id = g.id /\ h.title = g.title /\ h.status = status /\ h.priority = priority
  <2>1. ASSUME NEW A, NEW B, NEW C, NEW D, NEW E, NEW F,
               NEW x \in [id : A, title : B, priority : C, status : D, depends : E, complexity : F],
               NEW s \in D, NEW p \in C, NEW d \in E, NEW c \in F
        PROVE  /\ [x EXCEPT !.status = s, !.priority = p, !.depends = d, !.complexity = c]
                    \in [id : A, title : B, priority : C, status : D, depends : E, complexity : F]
               /\ [x EXCEPT !.status = s, !.priority = p, !.depends = d, !.complexity = c].id = x.id
               /\ [x EXCEPT !.status = s, !.priority = p, !.depends = d, !.complexity = c].title = x.title
               /\ [x EXCEPT !.status = s, !.priority = p, !.depends = d, !.complexity = c].status = s
               /\ [x EXCEPT !.status = s, !.priority = p, !.depends = d, !.complexity = c].priority = p
    OBVIOUS
  <2> QED BY <1>0, <1>1, <2>1 DEF Goal, Rebuilt
<1> HIDE DEF h
<1>3. GoalValid(h)
  BY <1>0, <1>2 DEF GoalValid
<1> QED BY <1>2, <1>3 DEF h

LEMMA MadeIs ==
  ASSUME NEW g \in Goal, GoalValid(g)
  PROVE  /\ MakeGoal(g) \in Goal /\ GoalValid(MakeGoal(g)) /\ MakeGoal(g).status \in Statuses
         /\ MakeGoal(g).id = g.id /\ MakeGoal(g).title = g.title
<1> DEFINE h == MakeGoal(g)
           s == normalize_status(g.status)
<1>1. h = [id |-> g.id, title |-> g.title, priority |-> g.priority, status |-> s,
           depends |-> g.depends, complexity |-> g.complexity]
  BY SMTT(60) DEF MakeGoal, Goal
<1>2. s \in Statuses
  BY DEF GoalValid
<1> HIDE DEF s
<1>4. normalize_status(s) = s /\ s \in Written
  BY <1>2, StatusesStay
<1>5. h \in Goal
  BY <1>1, <1>4 DEF Goal
<1> HIDE DEF h
<1>6. GoalValid(h)
  BY <1>1, <1>2, <1>4 DEF GoalValid
<1> QED BY <1>1, <1>2, <1>5, <1>6 DEF h

-----------------------------------------------------------------------------
(* The goals of the memory                                                 *)

LEMMA MemoryGoalIs ==
  ASSUME memory \in Seq(Records), NEW t \in Titles, ~Untitled(t)
  PROVE  /\ MemoryGoal(t) \in Goal /\ GoalValid(MemoryGoal(t)) /\ MemoryGoal(t).status \in Statuses
         /\ MemoryGoal(t).id = <<"goal", t>> /\ MemoryGoal(t).title = t
         /\ MemoryGoal(t).status = IF Failed(t) = {} THEN "done" ELSE "todo"
         /\ Cardinality(Failed(t)) >= 2 => MemoryGoal(t).priority = 0
<1> DEFINE n == Cardinality(Failed(t))
           p == failed_count_to_priority(n)
           s == IF Failed(t) = {} THEN "done" ELSE "todo"
<1>1. n \in Nat
  <2>1. Failed(t) \in SUBSET (1..Len(memory)) /\ Len(memory) \in Nat
    BY DEF Failed, Sessions
  <2>2. IsFiniteSet(1..Len(memory))
    BY <2>1, FS_Interval
  <2>3. IsFiniteSet(Failed(t))
    BY <2>1, <2>2, FS_Subset
  <2> QED BY <2>3, FS_CardinalityType
<1>2. p \in 0..4 /\ (n >= 2 => p = 0)
  <2> HIDE DEF n
  <2> QED BY <1>1 DEF failed_count_to_priority
<1>3. s \in Statuses /\ s \in Written /\ normalize_status(s) = s
  BY StatusesStay DEF Statuses
<1>4. t \in Seq(Nat) /\ <<"goal", t>> \in GoalId /\ <<>> \in Seq(GoalId) /\ 2 \in 0..4
  BY TitlesAssumption DEF GoalId
<1> DEFINE g == [id |-> <<"goal", t>>, title |-> t, depends |-> <<>>, complexity |-> 2,
                 priority |-> p, status |-> s]
<1>5. MemoryGoal(t) = g
  BY DEF MemoryGoal
<1> HIDE DEF n, p, s
<1>6. g \in Goal
  BY <1>2, <1>3, <1>4 DEF Goal
<1>7. /\ g.id = <<"goal", t>> /\ g.title = t /\ g.priority = p /\ g.status = s
  OBVIOUS
<1> HIDE DEF g
<1>8. GoalValid(g)
  BY <1>2, <1>3, <1>7 DEF GoalValid
<1> QED BY <1>2, <1>3, <1>5, <1>6, <1>7, <1>8 DEF n, s

\* What the merge brings is added to what there is, and keeps the repository sound.
LEMMA MergedIs ==
  ASSUME Sound(repository), memory \in Seq(Records), ~MergeRaises, NEW F \in SUBSET Remembered
  PROVE  /\ SaveAll(repository, MergedGoals(F)) = repository \cup MergedGoals(F)
         /\ Sound(repository \cup MergedGoals(F))
         /\ \A g \in MergedGoals(F) :
              /\ \A e \in repository : e.id # g.id
              /\ g.title \in Titles /\ ~Untitled(g.title) /\ g = MemoryGoal(g.title)
              /\ \E i \in DOMAIN memory : memory[i].objective = g.title
<1> DEFINE M == MergedGoals(F)
           title(i) == memory[i].objective
<1>1. ASSUME NEW i \in F
      PROVE  /\ i \in DOMAIN memory /\ title(i) \in Titles /\ ~Untitled(title(i))
             /\ \A g \in repository : g.title # title(i)
  <2>1. i \in Remembered /\ i \in DOMAIN memory
    BY DEF Remembered
  <2>2. memory[i] \in Records
    BY <2>1
  <2>3. title(i) \in Titles
    BY <2>2 DEF Records
  <2>4. ~Untitled(title(i))
    BY <2>1 DEF MergeRaises
  <2>5. \A g \in repository : g.title # title(i)
    BY <2>1 DEF Remembered
  <2> QED BY <2>1, <2>3, <2>4, <2>5
<1>2. M = {MemoryGoal(title(i)) : i \in F}
  BY DEF MergedGoals
<1>3. ASSUME NEW g \in M
      PROVE  /\ g \in Goal /\ GoalValid(g) /\ g.status \in Statuses
             /\ g.id = <<"goal", g.title>> /\ g = MemoryGoal(g.title)
             /\ g.title \in Titles /\ ~Untitled(g.title)
             /\ \A e \in repository : e.title # g.title
             /\ \E i \in DOMAIN memory : title(i) = g.title
  <2>1. PICK i \in F : g = MemoryGoal(title(i))
    BY <1>2
  <2> HIDE DEF M
  <2>2. /\ title(i) \in Titles /\ ~Untitled(title(i)) /\ i \in DOMAIN memory
        /\ \A e \in repository : e.title # title(i)
    BY <1>1
  <2>3. /\ g \in Goal /\ GoalValid(g) /\ g.status \in Statuses
        /\ g.id = <<"goal", title(i)>> /\ g.title = title(i)
    BY <2>1, <2>2, MemoryGoalIs
  <2> QED BY <2>1, <2>2, <2>3
<1>4. IsFiniteSet(M)
  <2> DEFINE f == [i \in F |-> MemoryGoal(title(i))]
  <2>1. IsFiniteSet(F)
    <3>1. F \in SUBSET (1..Len(memory)) /\ Len(memory) \in Nat
      BY DEF Remembered
    <3>2. IsFiniteSet(1..Len(memory))
      BY <3>1, FS_Interval
    <3> QED BY <3>1, <3>2, FS_Subset
  <2>2. f \in Surjection(F, M)
    BY <1>2 DEF Surjection
  <2> HIDE DEF f, M
  <2> QED BY <2>1, <2>2, FS_Surjection
<1> HIDE DEF M, title
<1>5. ASSUME NEW g \in M, NEW e \in repository
      PROVE  e.id # g.id /\ e.title # g.title
  <2>1. e.id[1] = "goal" => e.id[2] = e.title
    BY DEF Sound
  <2>2. g.id = <<"goal", g.title>> /\ e.title # g.title
    BY <1>3, <1>5
  <2>3. g.id[1] = "goal" /\ g.id[2] = g.title
    BY <2>2
  <2> QED BY <2>1, <2>2, <2>3
<1>6. SaveAll(repository, M) = repository \cup M
  BY <1>5 DEF SaveAll
<1>7. \A g, h \in M : g.id = h.id \/ g.title = h.title => g = h
  <2>1. ASSUME NEW g \in M, NEW h \in M, g.id = h.id \/ g.title = h.title
        PROVE  g = h
    <3>1. /\ g.id = <<"goal", g.title>> /\ g = MemoryGoal(g.title)
          /\ h.id = <<"goal", h.title>> /\ h = MemoryGoal(h.title)
      BY <1>3
    <3>2. g.id[2] = g.title /\ h.id[2] = h.title
      BY <3>1
    <3>3. g.title = h.title
      BY <2>1, <3>2
    <3> QED BY <3>1, <3>3
  <2> QED BY <2>1
<1>8. \A g \in M : g.id[2] = g.title
  BY <1>3
<1>9. IsFiniteSet(repository \cup M)
  BY <1>4, FS_Union DEF Sound
<1>10. Sound(repository \cup M)
  BY <1>3, <1>5, <1>7, <1>8, <1>9 DEF Sound
<1> QED BY <1>3, <1>5, <1>6, <1>10 DEF M, title
-----------------------------------------------------------------------------
(* What listeners were told                                                *)

LoadIn(S, id) == IF \E g \in S : g.id = id THEN CHOOSE g \in S : g.id = id ELSE None

LEMMA LoadInIs ==
  ASSUME NEW S, Sound(S), NEW id
  PROVE  /\ \A g \in S : g.id = id => LoadIn(S, id) = g
         /\ (\A g \in S : g.id # id) => LoadIn(S, id) = None
         /\ \A g \in S : g # None
<1>1. \A g \in S : g # None
  <2>1. None.id[1] = "none"
    BY DEF None
  <2>2. \A g \in S : g.id[1] \in {"goal", "plan"}
    BY DEF Sound, Goal, GoalId
  <2> QED BY <2>1, <2>2
<1> QED BY <1>1 DEF LoadIn, Sound

\* Every goal has its event, and every event is true of its goal.
Tell(S, K) ==
  /\ \A g \in S : \E p \in K : p[1] = g.id
  /\ \A p \in K :
       /\ p[2] = "cancelled" => \A g \in S : g.id # p[1]
       /\ p[2] # "cancelled" => \E g \in S : g.id = p[1]
       /\ \A g \in S : g.id = p[1] => /\ p[2] = "completed" => g.status = "done"
                                      /\ p[2] = "failed" => g.status = "blocked"
TellIn(S, K) ==
  /\ \A g \in S : \E p \in K : p[1] = g.id
  /\ \A p \in K :
       LET g == LoadIn(S, p[1])
       IN CASE p[2] = "created" -> g # None
            [] p[2] = "completed" -> g # None /\ g.status = "done"
            [] p[2] = "failed" -> g # None /\ g.status = "blocked"
            [] p[2] = "cancelled" -> g = None

LEMMA TellInIs ==
  ASSUME NEW S, Sound(S), NEW K \in SUBSET (GoalId \X Events)
  PROVE  TellIn(S, K) <=> Tell(S, K)
<1>1. ASSUME NEW p \in K
      PROVE  LET g == LoadIn(S, p[1])
             IN (CASE p[2] = "created" -> g # None
                   [] p[2] = "completed" -> g # None /\ g.status = "done"
                   [] p[2] = "failed" -> g # None /\ g.status = "blocked"
                   [] p[2] = "cancelled" -> g = None)
                <=> /\ p[2] = "cancelled" => \A e \in S : e.id # p[1]
                    /\ p[2] # "cancelled" => \E e \in S : e.id = p[1]
                    /\ \A e \in S : e.id = p[1] => /\ p[2] = "completed" => e.status = "done"
                                                   /\ p[2] = "failed" => e.status = "blocked"
  <2>1. p[2] \in Events
    OBVIOUS
  <2>2. CASE \E e \in S : e.id = p[1]
    <3>1. PICK e \in S : e.id = p[1]
      BY <2>2
    <3>2. LoadIn(S, p[1]) = e /\ e # None /\ \A x \in S : x.id = p[1] => x = e
      BY <3>1, LoadInIs DEF Sound
    <3> QED BY <2>1, <3>1, <3>2 DEF Events
  <2>3. CASE \A e \in S : e.id # p[1]
    <3>1. LoadIn(S, p[1]) = None
      BY <2>3, LoadInIs
    <3> QED BY <2>1, <2>3, <3>1 DEF Events
  <2> QED BY <2>2, <2>3
<1> QED BY <1>1 DEF TellIn, Tell

LEMMA SavedIsTold ==
  ASSUME NEW S, Sound(S), NEW K, Tell(S, K), NEW g, NEW event,
         event = "created" \/ (event = "completed" /\ g.status = "done")
           \/ (event = "failed" /\ g.status = "blocked")
  PROVE  Tell(Saved(S, g), Emitted(K, g.id, event))
<1>1. \A x \in Saved(S, g) : x = g \/ (x \in S /\ x.id # g.id)
  BY DEF Saved
<1>2. \A x \in S : x.id # g.id => x \in Saved(S, g)
  BY DEF Saved
<1>3. g \in Saved(S, g)
  BY DEF Saved
<1> DEFINE q == <<g.id, event>>
<1>4. /\ \A p \in Emitted(K, g.id, event) : p = q \/ (p \in K /\ p[1] # g.id)
      /\ \A p \in K : p[1] # g.id => p \in Emitted(K, g.id, event)
      /\ q \in Emitted(K, g.id, event)
      /\ q[1] = g.id /\ q[2] = event
  BY DEF Emitted
<1> HIDE DEF q
<1>5. \A x \in Saved(S, g) : \E p \in Emitted(K, g.id, event) : p[1] = x.id
  BY <1>1, <1>4 DEF Tell
<1>6. ASSUME NEW p \in Emitted(K, g.id, event)
      PROVE  /\ p[2] = "cancelled" => \A x \in Saved(S, g) : x.id # p[1]
             /\ p[2] # "cancelled" => \E x \in Saved(S, g) : x.id = p[1]
             /\ \A x \in Saved(S, g) : x.id = p[1] => /\ p[2] = "completed" => x.status = "done"
                                                      /\ p[2] = "failed" => x.status = "blocked"
  <2>1. CASE p = q
    BY <1>1, <1>3, <1>4, <2>1
  <2>2. CASE p \in K /\ p[1] # g.id
    BY <1>1, <1>2, <2>2 DEF Tell
  <2> QED BY <1>4, <2>1, <2>2
<1> QED BY <1>5, <1>6 DEF Tell

LEMMA RemovedIsTold ==
  ASSUME NEW S, Sound(S), NEW K, Tell(S, K), NEW g \in S
  PROVE  Tell(S \ {g}, Emitted(K, g.id, "cancelled"))
<1>1. \A x \in S \ {g} : x \in S /\ x.id # g.id
  BY DEF Sound
<1>2. \A x \in S : x.id # g.id => x \in S \ {g}
  OBVIOUS
<1> DEFINE q == <<g.id, "cancelled">>
<1>3. /\ \A p \in Emitted(K, g.id, "cancelled") : p = q \/ (p \in K /\ p[1] # g.id)
      /\ \A p \in K : p[1] # g.id => p \in Emitted(K, g.id, "cancelled")
      /\ q[1] = g.id /\ q[2] = "cancelled"
  BY DEF Emitted
<1> HIDE DEF q
<1>4. \A x \in S \ {g} : \E p \in Emitted(K, g.id, "cancelled") : p[1] = x.id
  BY <1>1, <1>3 DEF Tell
<1>5. ASSUME NEW p \in Emitted(K, g.id, "cancelled")
      PROVE  /\ p[2] = "cancelled" => \A x \in S \ {g} : x.id # p[1]
             /\ p[2] # "cancelled" => \E x \in S \ {g} : x.id = p[1]
             /\ \A x \in S \ {g} : x.id = p[1] => /\ p[2] = "completed" => x.status = "done"
                                                  /\ p[2] = "failed" => x.status = "blocked"
  <2>1. CASE p = q
    BY <1>1, <1>3, <2>1
  <2>2. CASE p \in K /\ p[1] # g.id
    BY <1>1, <1>2, <2>2 DEF Tell
  <2> QED BY <1>3, <2>1, <2>2
<1> QED BY <1>4, <1>5 DEF Tell

\* A change nobody hears of must leave the status as it was.
LEMMA SilentlySaved ==
  ASSUME NEW S, Sound(S), NEW K, Tell(S, K), NEW e \in S, NEW g, g.id = e.id, g.status = e.status
  PROVE  Tell(Saved(S, g), K)
<1>1. \A x \in Saved(S, g) : x = g \/ (x \in S /\ x.id # g.id)
  BY DEF Saved
<1>2. \A x \in S : x.id # g.id => x \in Saved(S, g)
  BY DEF Saved
<1>3. g \in Saved(S, g)
  BY DEF Saved
<1>4. ASSUME NEW x \in Saved(S, g)
      PROVE  \E y \in S : y.id = x.id /\ y.status = x.status
  BY <1>1
<1>5. ASSUME NEW y \in S
      PROVE  \E x \in Saved(S, g) : y.id = x.id
  BY <1>2, <1>3
<1>6. \A x \in Saved(S, g) : \E p \in K : p[1] = x.id
  BY <1>4 DEF Tell
<1>7. ASSUME NEW p \in K
      PROVE  /\ p[2] = "cancelled" => \A x \in Saved(S, g) : x.id # p[1]
             /\ p[2] # "cancelled" => \E x \in Saved(S, g) : x.id = p[1]
             /\ \A x \in Saved(S, g) : x.id = p[1] => /\ p[2] = "completed" => x.status = "done"
                                                      /\ p[2] = "failed" => x.status = "blocked"
  <2>1. p[2] # "cancelled" => \E y \in S : y.id = p[1]
    BY DEF Tell
  <2>2. p[2] # "cancelled" => \E x \in Saved(S, g) : x.id = p[1]
    BY <1>5, <2>1
  <2>3. ASSUME NEW x \in Saved(S, g), x.id = p[1]
        PROVE  /\ p[2] # "cancelled"
               /\ p[2] = "completed" => x.status = "done"
               /\ p[2] = "failed" => x.status = "blocked"
    <3>1. PICK y \in S : y.id = x.id /\ y.status = x.status
      BY <1>4
    <3> QED BY <2>3, <3>1 DEF Tell
  <2> QED BY <2>2, <2>3
<1> QED BY <1>6, <1>7 DEF Tell

LEMMA MergedIsTold ==
  ASSUME NEW S, NEW K, Tell(S, K), NEW M, \A g \in M : \A e \in S : e.id # g.id
  PROVE  Tell(S \cup M, EmitAll(K, M))
<1>1. /\ \A p \in EmitAll(K, M) : \/ p \in K /\ \A g \in M : p[1] # g.id
                                  \/ \E g \in M : p[1] = g.id /\ p[2] = "created"
      /\ \A p \in K : (\A g \in M : p[1] # g.id) => p \in EmitAll(K, M)
      /\ \A g \in M : \E p \in EmitAll(K, M) : p[1] = g.id
  <2>1. \A g \in M : <<g.id, "created">> \in EmitAll(K, M) /\ <<g.id, "created">>[1] = g.id
    BY DEF EmitAll
  <2>2. ASSUME NEW p \in EmitAll(K, M), ~(p \in K /\ \A g \in M : p[1] # g.id)
        PROVE  \E g \in M : p[1] = g.id /\ p[2] = "created"
    <3>1. PICK g \in M : p = <<g.id, "created">>
      BY <2>2 DEF EmitAll
    <3> QED BY <3>1
  <2>3. \A p \in K : (\A g \in M : p[1] # g.id) => p \in EmitAll(K, M)
    BY DEF EmitAll
  <2> QED BY <2>1, <2>2, <2>3
<1>2. ASSUME NEW x \in S \cup M
      PROVE  \E p \in EmitAll(K, M) : p[1] = x.id
  <2>1. CASE x \in M
    BY <1>1, <2>1
  <2>2. CASE x \in S
    <3>1. PICK p \in K : p[1] = x.id
      BY <2>2 DEF Tell
    <3> QED BY <1>1, <2>2, <3>1
  <2> QED BY <2>1, <2>2
<1>3. ASSUME NEW p \in EmitAll(K, M)
      PROVE  /\ p[2] = "cancelled" => \A x \in S \cup M : x.id # p[1]
             /\ p[2] # "cancelled" => \E x \in S \cup M : x.id = p[1]
             /\ \A x \in S \cup M : x.id = p[1] => /\ p[2] = "completed" => x.status = "done"
                                                   /\ p[2] = "failed" => x.status = "blocked"
  <2>1. CASE p \in K /\ \A g \in M : p[1] # g.id
    BY <2>1 DEF Tell
  <2>2. CASE \E g \in M : p[1] = g.id /\ p[2] = "created"
    BY <2>2
  <2> QED BY <1>1, <2>1, <2>2
<1> QED BY <1>2, <1>3 DEF Tell

-----------------------------------------------------------------------------
(* The inductive invariant, in two parts                                   *)

Kept ==
  /\ Sound(repository) /\ memory \in Seq(Records)
  /\ told \in SUBSET (GoalId \X Events) /\ Tell(repository, told)
  /\ cached \in BOOLEAN /\ stale \in BOOLEAN /\ (stale => cached)
  /\ ~cached => backlog = <<>>
  /\ cached /\ ~stale => backlog = Sorted(repository)
Answered ==
  cached /\ ~stale =>
    /\ last.call \in {"next_goal", "progress"} /\ ~last.raised =>
         \/ last.goal = <<"none">> /\ \A g \in repository : g.status # "todo"
         \/ /\ load(last.goal) # None /\ load(last.goal).status = "todo"
            /\ \A g \in repository : g.status = "todo" => g.priority >= load(last.goal).priority
    /\ last.call = "progress" /\ ~last.raised =>
         last.done = Cardinality({g \in repository : g.status = "done"})

LEMMA Opened ==
  ASSUME GoalsInv
  PROVE  Kept /\ Answered /\ calls \in 0..MaxCalls
<1>1. Sound(repository) /\ told \in SUBSET (GoalId \X Events)
  BY DEF GoalsInv, RepositoryIsTold, GoalsOK, HeldOK, TitlesUnique, Sound
<1>2. TellIn(repository, told)
  BY DEF GoalsInv, RepositoryIsTold, EventsTellTheStatus, TellIn, LoadIn, load
<1>3. Tell(repository, told)
  BY <1>1, <1>2, TellInIs
<1>4. Answered
  BY DEF GoalsInv, BacklogIsCurrent, Answered
<1>5. cached /\ ~stale => backlog = Sorted(repository)
  BY DEF GoalsInv, BacklogIsCurrent, list
<1> QED BY <1>1, <1>3, <1>4, <1>5 DEF GoalsInv, RepositoryIsTold, GoalsOK, HeldOK, Kept

LEMMA Closed ==
  ASSUME Kept', Answered', calls' \in 0..MaxCalls
  PROVE  GoalsInv'
<1>1. Sound(repository') /\ told' \in SUBSET (GoalId \X Events) /\ Tell(repository', told')
  BY DEF Kept
<1>2. TellIn(repository', told')
  BY <1>1, TellInIs
<1>3. EventsTellTheStatus'
  BY <1>2 DEF EventsTellTheStatus, TellIn, LoadIn, load
<1>4. cached' /\ ~stale' => backlog' = Sorted(repository')
  BY DEF Kept
<1>5. BacklogIsCurrent'
  BY <1>4 DEF Answered, BacklogIsCurrent, list
<1>6. GoalsOK'
  BY DEF Kept, Sound, GoalsOK, HeldOK, TitlesUnique
<1> QED BY <1>3, <1>5, <1>6 DEF GoalsInv, RepositoryIsTold

LEMMA AtFirst ==
  ASSUME GoalsInit
  PROVE  GoalsInv
<1>1. repository = {} /\ told = {} /\ memory = <<>>
  BY DEF GoalsInit
<1>2. HeldOK
  <2>1. IsFiniteSet(repository)
    BY <1>1, FS_EmptySet
  <2>2. memory \in Seq(Records) /\ told \subseteq GoalId \X Events
    BY <1>1
  <2>3. calls \in 0..MaxCalls
    <3>1. calls = 0
      BY DEF GoalsInit
    <3> QED BY <3>1, BoundsAssumption
  <2>4. cached \in BOOLEAN /\ stale \in BOOLEAN
    BY DEF GoalsInit
  <2> QED BY <1>1, <2>1, <2>2, <2>3, <2>4 DEF HeldOK
<1>3. GoalsOK /\ EventsTellTheStatus
  BY <1>1, <1>2 DEF GoalsInit, GoalsOK, TitlesUnique, EventsTellTheStatus
<1>4. BacklogIsCurrent
  BY DEF GoalsInit, BacklogIsCurrent
<1> QED BY <1>3, <1>4 DEF GoalsInv, RepositoryIsTold
-----------------------------------------------------------------------------
(* What is answered                                                        *)

LEMMA NothingAsked ==
  ASSUME NEW c, NEW r \in BOOLEAN, last' = Answer(c, r), c \notin {"next_goal", "progress"} \/ r
  PROVE  Answered'
BY DEF Answer, Answered

LEMMA AskedOfTheOrder ==
  ASSUME Sound(repository'), backlog' = Sorted(repository'), last'.goal = FirstTodo(backlog'),
         last'.call = "progress" => last'.done = Cardinality(WithStatus(backlog', "done"))
  PROVE  Answered'
<1>1. Listable(repository')
  BY SoundIsListable
<1>2. \/ last'.goal = <<"none">> /\ \A g \in repository' : g.status # "todo"
      \/ /\ load(last.goal)' # None /\ load(last.goal)'.status = "todo"
         /\ \A g \in repository' : g.status = "todo" => g.priority >= load(last.goal)'.priority
  <2>1. \/ last'.goal = <<"none">> /\ \A g \in repository' : g.status # "todo"
        \/ \E g \in repository' : /\ last'.goal = g.id /\ g.status = "todo"
                                  /\ \A h \in repository' : h.status = "todo" => g.priority <= h.priority
    BY <1>1, FirstTodoIs
  <2>2. ASSUME NEW g \in repository', last'.goal = g.id, g.status = "todo",
               \A h \in repository' : h.status = "todo" => g.priority <= h.priority
        PROVE  /\ load(last.goal)' # None /\ load(last.goal)'.status = "todo"
               /\ \A h \in repository' : h.status = "todo" => h.priority >= load(last.goal)'.priority
    <3>1. load(last.goal)' = LoadIn(repository', g.id)
      BY <2>2 DEF load, LoadIn
    <3>2. load(last.goal)' = g /\ g # None
      BY <3>1, LoadInIs
    <3>3. \A h \in repository' : h.priority \in Int
      BY DEF Sound, Goal
    <3> QED BY <2>2, <3>2, <3>3
  <2> QED BY <2>1, <2>2
<1>3. last'.call = "progress" => last'.done = Cardinality({g \in repository' : g.status = "done"})
  BY <1>1, DoneAreCounted
<1> QED BY <1>2, <1>3 DEF Answered

LEMMA NextGoalAnswers ==
  ASSUME NEW goal, last' = [Answer("next_goal", FALSE) EXCEPT !.goal = goal]
  PROVE  last'.call = "next_goal" /\ last'.goal = goal
BY DEF Answer

LEMMA ProgressAnswers ==
  ASSUME NEW goal, NEW done, NEW total,
         last' = [Answer("progress", FALSE) EXCEPT !.goal = goal, !.done = done, !.total = total]
  PROVE  last'.call = "progress" /\ last'.goal = goal /\ last'.done = done
BY DEF Answer
-----------------------------------------------------------------------------
(* The backlog is built                                                    *)

LEMMA NothingDeduped ==
  ASSUME Sound(repository)
  PROVE  Deduped(repository) = repository
<1>1. \A g \in repository : ~Before(Rank(g), Rank(g))
  BY RankIs, NeverBeforeItself DEF Sound
<1> QED BY <1>1 DEF Deduped, Sound

LEMMA EmittedAllIs ==
  ASSUME NEW K \in SUBSET (GoalId \X Events), NEW M, \A g \in M : g.id \in GoalId
  PROVE  EmitAll(K, M) \in SUBSET (GoalId \X Events)
BY DEF EmitAll, Events

LEMMA EmittedIs ==
  ASSUME NEW K \in SUBSET (GoalId \X Events), NEW id \in GoalId, NEW event \in Events
  PROVE  Emitted(K, id, event) \in SUBSET (GoalId \X Events)
BY DEF Emitted

\* A merge, whole or up to where a handler raises, keeps the repository and its events.
LEMMA MergeKeeps ==
  ASSUME Kept, ~MergeRaises, NEW F \in SUBSET Remembered,
         repository' = SaveAll(repository, MergedGoals(F)), told' = EmitAll(told, MergedGoals(F))
  PROVE  /\ repository' = repository \cup MergedGoals(F) /\ Sound(repository')
         /\ told' \in SUBSET (GoalId \X Events) /\ Tell(repository', told')
<1> DEFINE M == MergedGoals(F)
<1>1. /\ repository' = repository \cup M /\ Sound(repository')
      /\ \A g \in M : \A e \in repository : e.id # g.id
  BY MergedIs DEF Kept
<1>2. \A g \in M : g.id \in GoalId
  BY <1>1 DEF Sound, Goal
<1> HIDE DEF M
<1>3. told' = EmitAll(told, M)
  BY DEF M
<1>4. Tell(repository', told')
  BY <1>1, <1>3, MergedIsTold DEF Kept
<1>5. told' \in SUBSET (GoalId \X Events)
  BY <1>2, <1>3, EmittedAllIs DEF Kept
<1> QED BY <1>1, <1>4, <1>5 DEF M

LEMMA BuildKeeps ==
  ASSUME Kept, Build, memory' = memory
  PROVE  Kept' /\ cached' /\ ~stale' /\ backlog' = Sorted(repository')
<1>1. /\ repository' = repository \cup MergedGoals(Remembered) /\ Sound(repository')
      /\ told' \in SUBSET (GoalId \X Events) /\ Tell(repository', told')
  BY MergeKeeps DEF Build
<1>2. backlog' = Sorted(repository')
  BY <1>1, NothingDeduped DEF Build, Built, Kept
<1> QED BY <1>1, <1>2 DEF Build, Kept

LEMMA BuildFailsKeeps ==
  ASSUME Kept, NEW n \in 0..Len(memory), BuildFails(n), UNCHANGED <<backlog, cached, memory>>
  PROVE  Kept'
<1>1. CASE MergeRaises
  BY <1>1 DEF BuildFails, Kept
<1>2. CASE ~MergeRaises
  <2> DEFINE F == {i \in Remembered : i <= n}
  <2>1. /\ F \in SUBSET Remembered /\ stale' = (stale \/ cached)
        /\ repository' = SaveAll(repository, MergedGoals(F)) /\ told' = EmitAll(told, MergedGoals(F))
    BY <1>2 DEF BuildFails
  <2> HIDE DEF F
  <2>2. Sound(repository') /\ told' \in SUBSET (GoalId \X Events) /\ Tell(repository', told')
    BY <1>2, <2>1, MergeKeeps
  <2> QED BY <2>1, <2>2 DEF Kept
<1> QED BY <1>1, <1>2
-----------------------------------------------------------------------------
(* One lemma for every kind of call                                        *)

LEMMA LoadIs ==
  ASSUME Sound(repository), NEW g \in repository
  PROVE  load(g.id) = g /\ g \in Goal /\ g.id \in GoalId /\ GoalValid(g) /\ g.status \in Statuses
<1>1. load(g.id) = LoadIn(repository, g.id)
  BY DEF load, LoadIn
<1>2. load(g.id) = g
  BY <1>1, LoadInIs
<1> QED BY <1>2 DEF Sound, Goal

LEMMA BuildCalls ==
  ASSUME Kept, CreateBacklog \/ CreateBacklogRaises
  PROVE  Kept' /\ Answered'
<1>1. CASE CreateBacklog
  <2>1. Build /\ memory' = memory /\ last' = Answer("create_backlog", FALSE)
    BY <1>1 DEF CreateBacklog
  <2> QED BY <2>1, BuildKeeps, NothingAsked
<1>2. CASE CreateBacklogRaises
  <2>1. PICK n \in 0..Len(memory) : BuildFails(n)
    BY <1>2 DEF CreateBacklogRaises
  <2>2. last' = Answer("create_backlog", TRUE) /\ UNCHANGED <<backlog, cached, memory>>
    BY <1>2 DEF CreateBacklogRaises
  <2> QED BY <2>1, <2>2, BuildFailsKeeps, NothingAsked
<1> QED BY <1>1, <1>2

LEMMA AskCalls ==
  ASSUME Kept, NextGoal \/ Progress \/ AskRaises
  PROVE  Kept' /\ Answered'
<1>1. ASSUME Reuse, memory' = memory
      PROVE  Kept' /\ (cached' /\ ~stale' => Sound(repository') /\ backlog' = Sorted(repository'))
  BY <1>1 DEF Reuse, Kept
<1>2. CASE NextGoal
  <2>1. /\ memory' = memory /\ (Reuse \/ Build)
        /\ last' = [Answer("next_goal", FALSE) EXCEPT !.goal = FirstTodo(backlog')]
    BY <1>2 DEF NextGoal
  <2>2. Kept' /\ (cached' /\ ~stale' => Sound(repository') /\ backlog' = Sorted(repository'))
    BY <1>1, <2>1, BuildKeeps DEF Kept
  <2>3. last'.call = "next_goal" /\ last'.goal = FirstTodo(backlog')
    BY <2>1, NextGoalAnswers
  <2>4. cached' /\ ~stale' => Answered'
    BY <2>2, <2>3, AskedOfTheOrder
  <2>5. ~(cached' /\ ~stale') => Answered'
    BY DEF Answered
  <2> QED BY <2>2, <2>4, <2>5
<1>3. CASE Progress
  <2>1. memory' = memory /\ (Reuse \/ Build)
    BY <1>3 DEF Progress
  <2>2. Kept' /\ (cached' /\ ~stale' => Sound(repository') /\ backlog' = Sorted(repository'))
    BY <1>1, <1>3, <2>1, BuildKeeps DEF Kept, Progress
  <2>3. /\ last'.call = "progress" /\ last'.goal = FirstTodo(backlog')
        /\ last'.done = Cardinality(WithStatus(backlog', "done"))
    BY <1>3, ProgressAnswers DEF Progress
  <2>4. cached' /\ ~stale' => Answered'
    BY <2>2, <2>3, AskedOfTheOrder
  <2>5. ~(cached' /\ ~stale') => Answered'
    BY DEF Answered
  <2> QED BY <2>2, <2>4, <2>5
<1>4. CASE AskRaises
  <2>1. PICK n \in 0..Len(memory) : BuildFails(n)
    BY <1>4 DEF AskRaises
  <2>2. /\ UNCHANGED <<backlog, cached, memory>>
        /\ last' = Answer("next_goal", TRUE) \/ last' = Answer("progress", TRUE)
    BY <1>4 DEF AskRaises
  <2>3. Answered'
    BY <2>2, NothingAsked
  <2> QED BY <2>1, <2>2, <2>3, BuildFailsKeeps
<1> QED BY <1>2, <1>3, <1>4

LEMMA AddCalls ==
  ASSUME Kept, NEW g \in Offered, AddGoal(g) \/ AddGoalRaises(g)
  PROVE  Kept' /\ Answered'
<1>1. CASE AddGoal(g)
  <2> DEFINE h == MakeGoal(g)
  <2>1. /\ g \in Goal /\ GoalValid(g) /\ (g.id[1] = "goal" => g.id[2] = g.title)
        /\ \A e \in repository : e.id = g.id \/ e.title # g.title
    BY <1>1, OfferedAssumption DEF AddGoal, validate_goal
  <2>2. /\ h \in Goal /\ GoalValid(h) /\ h.status \in Statuses /\ h.id = g.id /\ h.title = g.title
        /\ g.id \in GoalId
    BY <2>1, MadeIs DEF Goal
  <2>3. repository' = Saved(repository, h) /\ told' = Emitted(told, g.id, "created") /\ memory' = memory
    BY <1>1 DEF AddGoal
  <2> HIDE DEF h
  <2>4. Sound(repository')
    BY <2>1, <2>2, <2>3, SavedIsSound DEF Kept
  <2>5. Tell(repository', told')
    BY <2>2, <2>3, SavedIsTold DEF Kept
  <2>6. told' \in SUBSET (GoalId \X Events)
    BY <2>2, <2>3, EmittedIs DEF Kept, Events
  <2>7. PICK raises \in BOOLEAN :
          /\ IF raises THEN stale' = (stale \/ cached) /\ UNCHANGED <<backlog, cached>> ELSE Invalidate
          /\ last' = Answer("add_goal", raises)
    BY <1>1 DEF AddGoal
  <2>8. Kept'
    BY <2>3, <2>4, <2>5, <2>6, <2>7 DEF Kept, Invalidate
  <2> QED BY <2>7, <2>8, NothingAsked
<1>2. CASE AddGoalRaises(g)
  <2>1. Kept'
    BY <1>2 DEF AddGoalRaises, Kept
  <2> QED BY <1>2, <2>1, NothingAsked DEF AddGoalRaises
<1> QED BY <1>1, <1>2

LEMMA SettleCalls ==
  ASSUME Kept, NEW g \in repository, NEW call, call \notin {"next_goal", "progress"},
         Settle(g.id, "done", "completed", call) \/ Settle(g.id, "blocked", "failed", call)
  PROVE  Kept' /\ Answered'
<1>1. load(g.id) = g /\ g \in Goal /\ g.id \in GoalId /\ GoalValid(g)
  BY LoadIs DEF Kept
<1>2. ASSUME NEW status \in Statuses, NEW event \in Events,
             (event = "completed" /\ status = "done") \/ (event = "failed" /\ status = "blocked"),
             Settle(g.id, status, event, call)
      PROVE  Kept' /\ Answered'
  <2> DEFINE h == Rebuilt(g, status, g.priority)
  <2>1. g.priority \in 0..4 /\ \A e \in repository : e.id = g.id \/ e.title # g.title
    BY <1>1 DEF GoalValid, Kept, Sound
  <2>2. /\ h \in Goal /\ GoalValid(h) /\ h.id = g.id /\ h.title = g.title /\ h.status = status
        /\ g.id[1] = "goal" => g.id[2] = g.title
    BY <1>1, <2>1, RebuiltIs, ZenonT(60) DEF Kept, Sound
  <2>3. /\ repository' = Saved(repository, h) /\ told' = Emitted(told, g.id, event)
        /\ memory' = memory /\ Invalidate
    BY <1>1, <1>2 DEF Settle
  <2> HIDE DEF h
  <2>4. Sound(repository')
    BY <2>1, <2>2, <2>3, SavedIsSound DEF Kept
  <2>5. Tell(repository', told')
    BY <1>2, <2>2, <2>3, SavedIsTold DEF Kept
  <2>6. told' \in SUBSET (GoalId \X Events)
    BY <1>1, <2>3, EmittedIs DEF Kept
  <2>7. Kept'
    BY <2>3, <2>4, <2>5, <2>6 DEF Kept, Invalidate
  <2>8. PICK raises \in BOOLEAN : last' = Answer(call, raises)
    BY <1>2 DEF Settle
  <2> QED BY <2>7, <2>8, NothingAsked
<1> QED BY <1>2 DEF Statuses, Events

LEMMA ReprioritizeCalls ==
  ASSUME Kept, NEW g \in repository, NEW priority, Reprioritize(g.id, priority)
  PROVE  Kept' /\ Answered'
<1>1. load(g.id) = g /\ g \in Goal /\ GoalValid(g) /\ g.status \in Statuses
  BY LoadIs DEF Kept
<1>2. Answered'
  <2>1. last' = Answer("reprioritize", priority \notin 0..4)
    BY DEF Reprioritize
  <2> QED BY <2>1, NothingAsked
<1>3. CASE priority \in 0..4
  <2> DEFINE h == Rebuilt(g, g.status, priority)
  <2>1. \A e \in repository : e.id = g.id \/ e.title # g.title
    BY DEF Kept, Sound
  <2>2. /\ h \in Goal /\ GoalValid(h) /\ h.id = g.id /\ h.title = g.title /\ h.status = g.status
        /\ g.id[1] = "goal" => g.id[2] = g.title
    BY <1>1, <1>3, RebuiltIs, ZenonT(60) DEF Kept, Sound
  <2>3. repository' = Saved(repository, h) /\ told' = told /\ memory' = memory /\ Invalidate
    BY <1>1, <1>3 DEF Reprioritize
  <2> HIDE DEF h
  <2>4. Sound(repository')
    BY <1>1, <2>1, <2>2, <2>3, SavedIsSound DEF Kept
  <2>5. Tell(repository', told')
    BY <2>2, <2>3, SilentlySaved DEF Kept
  <2>6. Kept'
    BY <2>3, <2>4, <2>5 DEF Kept, Invalidate
  <2> QED BY <1>2, <2>6
<1>4. CASE priority \notin 0..4
  BY <1>2, <1>4 DEF Reprioritize, Kept
<1> QED BY <1>3, <1>4

LEMMA RemoveCalls ==
  ASSUME Kept, NEW g \in repository, RemoveGoal(g.id)
  PROVE  Kept' /\ Answered'
<1>1. load(g.id) = g /\ g.id \in GoalId
  BY LoadIs DEF Kept
<1>2. /\ repository' = repository \ {g} /\ told' = Emitted(told, g.id, "cancelled")
      /\ memory' = memory /\ Invalidate
  BY <1>1 DEF RemoveGoal
<1>3. Sound(repository')
  BY <1>2, SubsetIsSound DEF Kept
<1>4. Tell(repository', told')
  BY <1>2, RemovedIsTold DEF Kept
<1>5. told' \in SUBSET (GoalId \X Events)
  BY <1>1, <1>2, EmittedIs DEF Kept, Events
<1>6. Kept'
  BY <1>2, <1>3, <1>4, <1>5 DEF Kept, Invalidate
<1>7. PICK raises \in BOOLEAN : last' = Answer("remove_goal", raises)
  BY DEF RemoveGoal
<1> QED BY <1>6, <1>7, NothingAsked

LEMMA UpdateCalls ==
  ASSUME Kept, NEW g \in repository, NEW completion, UpdateProgress(g.id, completion)
  PROVE  Kept' /\ Answered'
<1>1. CASE Settle(g.id, "done", "completed", "update_progress")
  BY <1>1, SettleCalls
<1>2. CASE \E raises \in BOOLEAN :
             /\ last' = Answer("update_progress", raises)
             /\ UNCHANGED <<repository, backlog, cached, memory, told, stale>>
  <2>1. Kept'
    BY <1>2 DEF Kept
  <2> QED BY <1>2, <2>1, NothingAsked
<1> QED BY <1>1, <1>2 DEF UpdateProgress

LEMMA RecordCalls ==
  ASSUME Kept, NEW title \in Titles, NEW success \in BOOLEAN, NEW blank \in BOOLEAN,
         Record(title, success, blank)
  PROVE  Kept' /\ Answered'
<1> DEFINE r == [objective |-> title, success |-> success, blank |-> blank]
<1>1. r \in Records
  BY DEF Records
<1>2. memory' = Append(memory, r) /\ UNCHANGED <<repository, backlog, cached, told, stale>>
  BY DEF Record
<1> HIDE DEF r
<1>3. memory' \in Seq(Records)
  BY <1>1, <1>2 DEF Kept
<1>4. Kept'
  BY <1>2, <1>3 DEF Kept
<1>5. last' = Answer("record", FALSE)
  BY DEF Record
<1> QED BY <1>4, <1>5, NothingAsked

LEMMA CallKeeps ==
  ASSUME Kept, Call
  PROVE  Kept' /\ Answered'
<1>1. ASSUME NEW g \in Offered, AddGoal(g) \/ AddGoalRaises(g)
      PROVE  Kept' /\ Answered'
  BY <1>1, AddCalls
<1>2. ASSUME NEW g \in repository, CompleteGoal(g.id) \/ FailGoal(g.id)
      PROVE  Kept' /\ Answered'
  <2>1. CASE CompleteGoal(g.id)
    BY <2>1, SettleCalls DEF CompleteGoal
  <2>2. CASE FailGoal(g.id)
    <3>1. Settle(g.id, "blocked", "failed", "fail_goal")
      BY <2>2 DEF FailGoal
    <3>2. "fail_goal" \notin {"next_goal", "progress"}
      OBVIOUS
    <3> QED BY <3>1, <3>2, SettleCalls
  <2> QED BY <1>2, <2>1, <2>2
<1>3. ASSUME NEW g \in repository, RemoveGoal(g.id)
      PROVE  Kept' /\ Answered'
  BY <1>3, RemoveCalls
<1>4. ASSUME NEW g \in repository, NEW p \in Priorities, Reprioritize(g.id, p)
      PROVE  Kept' /\ Answered'
  BY <1>4, ReprioritizeCalls
<1>5. ASSUME NEW g \in repository, NEW c \in {-1, 50, 100}, UpdateProgress(g.id, c)
      PROVE  Kept' /\ Answered'
  BY <1>5, UpdateCalls
<1>6. ASSUME NEW t \in Titles, NEW success \in BOOLEAN, NEW blank \in BOOLEAN, Record(t, success, blank)
      PROVE  Kept' /\ Answered'
  BY <1>6, RecordCalls
<1>7. CASE CreateBacklog \/ CreateBacklogRaises
  BY <1>7, BuildCalls
<1>8. CASE NextGoal \/ Progress \/ AskRaises
  BY <1>8, AskCalls
<1> QED BY <1>1, <1>2, <1>3, <1>4, <1>5, <1>6, <1>7, <1>8 DEF Call

LEMMA StepKeeps ==
  ASSUME GoalsInv, [GoalsNext]_goalVars
  PROVE  GoalsInv'
<1>1. Kept /\ Answered /\ calls \in 0..MaxCalls
  BY Opened
<1>2. CASE GoalsNext
  <2>1. Call /\ calls' = calls + 1 /\ calls < MaxCalls
    BY <1>2 DEF GoalsNext
  <2>2. Kept' /\ Answered'
    BY <1>1, <2>1, CallKeeps
  <2>3. calls' \in 0..MaxCalls
    BY <1>1, <2>1, BoundsAssumption
  <2> QED BY <2>2, <2>3, Closed
<1>3. CASE UNCHANGED goalVars
  <2>1. Kept' /\ Answered' /\ calls' \in 0..MaxCalls
    BY <1>1, <1>3 DEF goalVars, Kept, Answered, load
  <2> QED BY <2>1, Closed
<1> QED BY <1>2, <1>3
-----------------------------------------------------------------------------
(* The theorems                                                            *)

\* Whatever callers add, settle and reprioritize and whatever the memory brings back: the
\* inductive invariant holds.
THEOREM GoalsInvariant == GoalsSpec => []GoalsInv
<1>1. GoalsInit => GoalsInv
  BY AtFirst
<1>2. GoalsInv /\ [GoalsNext]_goalVars => GoalsInv'
  BY StepKeeps
<1> QED BY <1>1, <1>2, PTL DEF GoalsSpec

\* The repository holds valid goals, one of an id and of a title, and the last event of
\* each tells how it is there.
THEOREM ListenersAreTold == GoalsSpec => []RepositoryIsTold
<1>1. GoalsInv => RepositoryIsTold
  BY DEF GoalsInv
<1> QED BY <1>1, GoalsInvariant, PTL

\* What next_goal and progress answer from a backlog no handler cut short is true of the
\* repository.
THEOREM Current == GoalsSpec => []BacklogIsCurrent
<1>1. GoalsInv => BacklogIsCurrent
  BY DEF GoalsInv
<1> QED BY <1>1, GoalsInvariant, PTL

\* A goal no caller added comes from the sessions the memory has, and says what they say.
THEOREM Cautious == GoalsSpec => MergeIsCautious
<1> DEFINE A == \A g \in repository' : (\A h \in repository : h.id # g.id) /\ last'.call # "add_goal" =>
                  LET about == {i \in DOMAIN memory : memory[i].objective = g.title}
                      failed == {i \in about : ~memory[i].success}
                  IN /\ about # {}
                     /\ (g.status = "done") = (failed = {})
                     /\ Cardinality(failed) >= 2 => g.priority = 0
           Merged(g) == /\ g.title \in Titles /\ ~Untitled(g.title) /\ g = MemoryGoal(g.title)
                        /\ \E i \in DOMAIN memory : memory[i].objective = g.title
<1>1. ASSUME Kept, NEW g, Merged(g)
      PROVE  LET about == {i \in DOMAIN memory : memory[i].objective = g.title}
                 failed == {i \in about : ~memory[i].success}
             IN /\ about # {}
                /\ (g.status = "done") = (failed = {})
                /\ Cardinality(failed) >= 2 => g.priority = 0
  <2>1. /\ g.status = IF Failed(g.title) = {} THEN "done" ELSE "todo"
        /\ Cardinality(Failed(g.title)) >= 2 => g.priority = 0
    BY <1>1, MemoryGoalIs DEF Kept
  <2> QED BY <1>1, <2>1 DEF Failed, Sessions
<1>2. ASSUME Kept, NEW F \in SUBSET Remembered, ~MergeRaises,
             repository' = SaveAll(repository, MergedGoals(F))
      PROVE  A
  <2>1. /\ repository' = repository \cup MergedGoals(F)
        /\ \A g \in MergedGoals(F) : Merged(g)
    BY <1>2, MergedIs DEF Kept
  <2> HIDE DEF Merged
  <2> QED BY <1>1, <1>2, <2>1
<1>3. ASSUME Kept, Build
      PROVE  A
  <2>1. ~MergeRaises /\ repository' = SaveAll(repository, MergedGoals(Remembered))
    BY <1>3 DEF Build
  <2> HIDE DEF A
  <2> QED BY <1>2, <1>3, <2>1
<1>4. ASSUME repository' = repository
      PROVE  A
  BY <1>4
<1>5. ASSUME Kept, NEW n, BuildFails(n)
      PROVE  A
  <2> DEFINE F == {i \in Remembered : i <= n}
  <2>1. \/ repository' = repository
        \/ /\ ~MergeRaises /\ F \in SUBSET Remembered
           /\ repository' = SaveAll(repository, MergedGoals(F))
    BY <1>5 DEF BuildFails
  <2> HIDE DEF A, F
  <2> QED BY <1>2, <1>4, <1>5, <2>1
<1>6. ASSUME NEW g \in repository, NEW h, h.id = g.id, repository' = Saved(repository, h)
      PROVE  A
  <2>1. \A x \in repository' : x \in repository \/ x.id = g.id
    BY <1>6 DEF Saved
  <2> QED BY <2>1
<1>7. ASSUME repository' \subseteq repository
      PROVE  A
  BY <1>7
<1>8. ASSUME Kept, NEW g \in repository, NEW status \in Statuses, NEW event, NEW call,
             Settle(g.id, status, event, call)
      PROVE  A
  <2>1. load(g.id) = g /\ g \in Goal /\ GoalValid(g) /\ g.priority \in 0..4
    BY <1>8, LoadIs DEF Kept, GoalValid
  <2>2. repository' = Saved(repository, Rebuilt(g, status, g.priority))
    BY <1>8, <2>1 DEF Settle
  <2>3. Rebuilt(g, status, g.priority).id = g.id
    BY <2>1, RebuiltIs
  <2> HIDE DEF A
  <2> QED BY <1>6, <2>2, <2>3
<1>9. ASSUME Kept, NEW g \in repository, NEW p, Reprioritize(g.id, p)
      PROVE  A
  <2>1. load(g.id) = g /\ g \in Goal /\ GoalValid(g) /\ g.status \in Statuses
    BY <1>9, LoadIs DEF Kept
  <2>2. \/ repository' = repository
        \/ p \in 0..4 /\ repository' = Saved(repository, Rebuilt(g, g.status, p))
    BY <1>9, <2>1 DEF Reprioritize
  <2>3. p \in 0..4 => Rebuilt(g, g.status, p).id = g.id
    BY <2>1, RebuiltIs
  <2> HIDE DEF A
  <2> QED BY <1>4, <1>6, <2>2, <2>3
<1>10. ASSUME NEW g, AddGoal(g)
       PROVE  A
  <2>1. last'.call = "add_goal"
    BY <1>10 DEF AddGoal, Answer
  <2> QED BY <2>1
<1>11. ASSUME Kept, Call
       PROVE  A
  <2> HIDE DEF A
  <2>1. ASSUME NEW g \in Offered, AddGoal(g) \/ AddGoalRaises(g)
        PROVE  A
    BY <1>4, <1>10, <2>1 DEF AddGoalRaises
  <2>2. ASSUME NEW g \in repository, CompleteGoal(g.id) \/ FailGoal(g.id)
        PROVE  A
    <3>1. "done" \in Statuses /\ "blocked" \in Statuses
      BY DEF Statuses
    <3> QED BY <1>8, <1>11, <2>2, <3>1 DEF CompleteGoal, FailGoal
  <2>3. ASSUME NEW g \in repository, RemoveGoal(g.id)
        PROVE  A
    BY <1>7, <2>3 DEF RemoveGoal
  <2>4. ASSUME NEW g \in repository, NEW p \in Priorities, Reprioritize(g.id, p)
        PROVE  A
    BY <1>9, <1>11, <2>4
  <2>5. ASSUME NEW g \in repository, NEW c \in {-1, 50, 100}, UpdateProgress(g.id, c)
        PROVE  A
    <3>1. "done" \in Statuses
      BY DEF Statuses
    <3>2. repository' = repository \/ Settle(g.id, "done", "completed", "update_progress")
      BY <2>5 DEF UpdateProgress
    <3> QED BY <1>4, <1>8, <1>11, <3>1, <3>2
  <2>6. ASSUME NEW t \in Titles, NEW success \in BOOLEAN, NEW blank \in BOOLEAN, Record(t, success, blank)
        PROVE  A
    BY <1>4, <2>6 DEF Record
  <2>7. CASE CreateBacklog \/ CreateBacklogRaises
    BY <1>3, <1>5, <1>11, <2>7 DEF CreateBacklog, CreateBacklogRaises
  <2>8. CASE NextGoal \/ Progress \/ AskRaises
    BY <1>3, <1>4, <1>5, <1>11, <2>8 DEF NextGoal, Progress, AskRaises, Reuse
  <2> QED BY <1>11, <2>1, <2>2, <2>3, <2>4, <2>5, <2>6, <2>7, <2>8 DEF Call
<1>12. GoalsInv /\ [GoalsNext]_goalVars => [A]_goalVars
  <2> HIDE DEF A
  <2>1. GoalsInv => Kept
    BY Opened
  <2> QED BY <1>11, <2>1 DEF GoalsNext
<1> QED BY <1>12, GoalsInvariant, PTL DEF GoalsSpec, MergeIsCautious
-----------------------------------------------------------------------------
(* What a project is about                                                 *)

LEMMA ScanIs ==
  ASSUME NEW t
  PROVE  scan(t) \in Seq(Files) /\ IsInjective(scan(t))
<1> DEFINE found == {f \in Files : t[f] # Missing /\ ~About[f].ignored}
           E == [f \in found |-> {g \in found : About[g].order < About[f].order}]
           L == InOrder(found, E)
<1>1. scan(t) = L
  BY DEF scan
<1>2. \A f \in Files : About[f].order \in Nat
  BY AboutAssumption
<1>3. IsFiniteSet(found) /\ found \in SUBSET Files
  BY FilesAssumption, FS_Subset
<1>4. E \in [found -> SUBSET found]
  OBVIOUS
<1>5. \A f \in found : E[f] = {g \in found : About[g].order < About[f].order}
  OBVIOUS
<1> HIDE DEF E, found
<1>6. /\ \A f \in found : f \notin E[f]
      /\ \A f, g \in found : f \in E[g] => E[f] \subseteq E[g]
      /\ \A f, g \in found : f # g => f \in E[g] \/ g \in E[f]
  BY <1>2, <1>3, <1>5, OrderAssumption
<1>7. /\ Cardinality(found) \in Nat /\ L \in Seq(found) /\ Len(L) = Cardinality(found)
      /\ \A i \in 1..Cardinality(found) : L[i] \in found /\ Cardinality(E[L[i]]) + 1 = i
  BY <1>3, <1>4, <1>6, InOrderIs
<1> HIDE DEF L
<1>8. \A i, j \in 1..Cardinality(found) : L[i] = L[j] => i = j
  BY <1>7
<1>9. DOMAIN L = 1..Cardinality(found)
  BY <1>7
<1>10. L \in Seq(Files)
  BY <1>3, <1>7, <1>9
<1> QED BY <1>1, <1>8, <1>9, <1>10 DEF IsInjective

\* The closest file comes first, and no two are equally close.
LEMMA KeysAreOrdered ==
  ASSUME NEW q \in Queries, NEW f \in Files, NEW g \in Files
  PROVE  /\ SortKey(f, q) \in Seq(Int)
         /\ SortKey(f, q) = SortKey(g, q) => f = g
<1>1. /\ Score(f, q) \in Int /\ About[f].order \in Nat /\ About[g].order \in Nat
      /\ About[f].base_len \in Nat /\ About[f].path_len \in Nat
  BY AboutAssumption DEF Score
<1>2. SortKey(f, q) \in Seq(Int)
  BY <1>1 DEF SortKey
<1>3. SortKey(f, q)[5] = About[f].order /\ SortKey(g, q)[5] = About[g].order
  BY DEF SortKey
<1> QED BY <1>2, <1>3, OrderAssumption

LEMMA MatchIs ==
  ASSUME NEW files \in Seq(Files), NEW q \in Queries
  PROVE  /\ ToSet(match(files, q)) = {f \in ToSet(files) : Matching[f][q] # "none"}
         /\ IsInjective(match(files, q))
<1> DEFINE alike == {f \in ToSet(files) : Score(f, q) > 0}
           E == [f \in alike |-> {g \in alike : Before(SortKey(g, q), SortKey(f, q))}]
           L == InOrder(alike, E)
<1>1. match(files, q) = L
  BY DEF match
<1>2. ToSet(files) \in SUBSET Files
  BY DEF ToSet
<1>3. alike \in SUBSET Files /\ IsFiniteSet(alike)
  BY <1>2, FilesAssumption, FS_Subset
<1>4. E \in [alike -> SUBSET alike]
  OBVIOUS
<1>5. \A f \in alike : E[f] = {g \in alike : Before(SortKey(g, q), SortKey(f, q))}
  OBVIOUS
<1>6. alike = {f \in ToSet(files) : Matching[f][q] # "none"}
  <2>1. \A f \in Files : Matching[f][q] \in {"equality", "prefix", "suffix", "contains", "none"}
    BY MatchingAssumption
  <2>2. \A f \in Files : Score(f, q) > 0 <=> Matching[f][q] # "none"
    BY <2>1 DEF Score
  <2> QED BY <1>2, <2>2
<1> HIDE DEF E, alike
<1>7. \A f \in alike : f \notin E[f]
  BY <1>3, <1>5, KeysAreOrdered, NeverBeforeItself
<1>8. ASSUME NEW f \in alike, NEW g \in alike, f \in E[g]
      PROVE  E[f] \subseteq E[g]
  <2>1. /\ \A h \in alike : SortKey(h, q) \in Seq(Int)
        /\ Before(SortKey(f, q), SortKey(g, q))
    BY <1>3, <1>5, <1>8, KeysAreOrdered
  <2>2. \A h \in alike : Before(SortKey(h, q), SortKey(f, q)) => Before(SortKey(h, q), SortKey(g, q))
    BY <2>1, BeforeIsTransitive
  <2> QED BY <1>5, <2>2
<1>9. ASSUME NEW f \in alike, NEW g \in alike, f # g
      PROVE  f \in E[g] \/ g \in E[f]
  <2>1. /\ SortKey(f, q) \in Seq(Int) /\ SortKey(g, q) \in Seq(Int)
        /\ SortKey(f, q) # SortKey(g, q)
    BY <1>3, <1>9, KeysAreOrdered
  <2> QED BY <1>5, <2>1, BeforeIsTotal
<1>10. /\ Cardinality(alike) \in Nat /\ L \in Seq(alike) /\ Len(L) = Cardinality(alike)
       /\ \A f \in alike : /\ Cardinality(E[f]) + 1 \in 1..Cardinality(alike)
                           /\ L[Cardinality(E[f]) + 1] = f
       /\ \A i \in 1..Cardinality(alike) : L[i] \in alike /\ Cardinality(E[L[i]]) + 1 = i
  BY <1>3, <1>4, <1>7, <1>8, <1>9, InOrderIs
<1> HIDE DEF L
<1>11. DOMAIN L = 1..Cardinality(alike)
  BY <1>10
<1>12. ToSet(L) = alike
  BY <1>10, <1>11 DEF ToSet
<1>13. \A i, j \in 1..Cardinality(alike) : L[i] = L[j] => i = j
  BY <1>10
<1> QED BY <1>1, <1>6, <1>11, <1>12, <1>13 DEF IsInjective

\* What is retrieved of an analysed project is what the query is about.
LEMMA RetrievedIsExact ==
  ASSUME NEW t, NEW q \in Queries
  PROVE  LET s == analyze(t)
             c == retrieve(s, q)
         IN /\ ToSet(c.files) = {f \in ToSet(s.files) : Matching[f][q] # "none"}
            /\ IsInjective(c.files)
            /\ \A f \in DOMAIN s.modules :
                 LET named == \/ q \in s.modules[f].functions \cup s.modules[f].classes
                              \/ \E m \in s.modules[f].methods : m.name = q
                 IN named => \E x \in c.symbols : x.file = f /\ x.name = q /\ x.kind # "module"
<1> DEFINE s == analyze(t)
           c == retrieve(s, q)
<1>1. s.files = scan(t) /\ c.files = match(s.files, q) /\ c.symbols = find_symbol(s, q)
  BY DEF analyze, retrieve
<1>2. s.files \in Seq(Files)
  BY <1>1, ScanIs
<1> HIDE DEF s, c
<1>3. /\ ToSet(c.files) = {f \in ToSet(s.files) : Matching[f][q] # "none"}
      /\ IsInjective(c.files)
  BY <1>1, <1>2, MatchIs
<1>4. ASSUME NEW x \in SymbolIndex(s), x.name = q
      PROVE  x \in c.symbols
  BY <1>1, <1>4 DEF find_symbol
<1>5. ASSUME NEW f \in DOMAIN s.modules, q \in s.modules[f].functions
      PROVE  \E x \in c.symbols : x.file = f /\ x.name = q /\ x.kind # "module"
  <2>1. [kind |-> "function", name |-> q, file |-> f] \in SymbolIndex(s)
    BY <1>5 DEF SymbolIndex
  <2> QED BY <1>4, <2>1
<1>6. ASSUME NEW f \in DOMAIN s.modules, q \in s.modules[f].classes
      PROVE  \E x \in c.symbols : x.file = f /\ x.name = q /\ x.kind # "module"
  <2>1. [kind |-> "class", name |-> q, file |-> f] \in SymbolIndex(s)
    BY <1>6 DEF SymbolIndex
  <2> QED BY <1>4, <2>1
<1>7. ASSUME NEW f \in DOMAIN s.modules, NEW m \in s.modules[f].methods, m.name = q
      PROVE  \E x \in c.symbols : x.file = f /\ x.name = q /\ x.kind # "module"
  <2>1. [kind |-> "method", name |-> q, file |-> f] \in SymbolIndex(s)
    BY <1>7 DEF SymbolIndex
  <2> QED BY <1>4, <2>1
<1> QED BY <1>3, <1>5, <1>6, <1>7 DEF s, c
-----------------------------------------------------------------------------
(* The verdict on a test run                                               *)

LEMMA Largest ==
  ASSUME NEW n \in Nat, NEW S \in SUBSET (0..n), S # {}
  PROVE  Max(S) \in S
<1> DEFINE R == {n - x : x \in S}
<1>1. R \in SUBSET Nat /\ R # {}
  <2>1. \A x \in S : n - x \in Nat
    OBVIOUS
  <2> QED BY <2>1
<1>2. Min(R) \in R /\ \A x \in R : Min(R) <= x
  <2> HIDE DEF R
  <2> QED BY <1>1, First
<1>3. PICK m \in S : Min(R) = n - m
  BY <1>2
<1>4. \A x \in S : n - m <= n - x
  BY <1>2, <1>3
<1>5. \A x \in S : m >= x
  BY <1>4
<1> HIDE DEF R
<1>6. \E x \in S : \A y \in S : x >= y
  BY <1>5
<1> QED BY <1>6 DEF Max

LEMMA CountedIs ==
  ASSUME NEW items \in Seq(STRING \X Nat)
  PROVE  \A i \in DOMAIN Counted(items) : Counted(items)[i][2] \in Nat
<1> DEFINE place(i) == SelectInSeq(Kinds, LAMBDA k : k = items[i][1])
           good == {n \in 0..Len(items) : \A i \in 1..n : place(i) > IF i = 1 THEN 0 ELSE place(i - 1)}
<1>1. Counted(items) = SubSeq(items, 1, Max(good))
  BY DEF Counted
<1>2. Max(good) \in 0..Len(items)
  <2> HIDE DEF place
  <2>1. good \in SUBSET (0..Len(items)) /\ Len(items) \in Nat
    OBVIOUS
  <2>2. 0 \in good
    OBVIOUS
  <2> HIDE DEF good
  <2>3. Max(good) \in good
    BY <2>1, <2>2, Largest
  <2> QED BY <2>1, <2>3
<1> HIDE DEF good
<1>3. \A m \in 0..Len(items) : \A i \in DOMAIN SubSeq(items, 1, m) :
        SubSeq(items, 1, m)[i][2] \in Nat
  <2>1. ASSUME NEW m \in 0..Len(items)
        PROVE  SubSeq(items, 1, m) \in Seq(STRING \X Nat)
    OBVIOUS
  <2>2. \A s \in Seq(STRING \X Nat) : \A i \in DOMAIN s : s[i][2] \in Nat
    OBVIOUS
  <2> QED BY <2>1, <2>2
<1> QED BY <1>1, <1>2, <1>3

\* What the parser makes of any output: a failure has been counted, or some test of the
\* run has.
LEMMA ParsedIs ==
  ASSUME NEW out \in TestRuns
  PROVE  /\ parse(out) \in [success : BOOLEAN, total : Nat, failed : Nat, errors : Nat]
         /\ parse(out).failed + parse(out).errors <= Max({parse(out).total, 1})
         /\ ~parse(out).success /\ parse(out).failed = 0 /\ parse(out).errors = 0
              => parse(out).total > 0
<1> DEFINE spoken == {i \in DOMAIN out.lines : out.lines[i].words}
           counts == IF spoken = {} THEN <<>> ELSE Counted(out.lines[Max(spoken)].items)
           Cases(kind) == {i \in DOMAIN out.lines : out.lines[i].case = kind}
           Of(kind) == IF counts = <<>>
                       THEN Cardinality({i \in DOMAIN out.lines : out.lines[i].case = kind})
                       ELSE IF \A i \in DOMAIN counts : counts[i][1] # kind THEN 0
                       ELSE counts[CHOOSE i \in DOMAIN counts : counts[i][1] = kind][2]
           f == Of("failed")
           p == Of("passed")
           s == Of("skipped")
           e == Of("errors")
           total == f + p + s + e
<1>1. parse(out) = IF ~out.text
        THEN [success |-> out.returncode = 0, total |-> 0, failed |-> 0,
              errors |-> IF out.returncode = 0 THEN 0 ELSE 1]
        ELSE [success |-> out.returncode = 0 /\ f = 0 /\ e = 0, total |-> total, failed |-> f,
              errors |-> IF total = 0 /\ out.returncode # 0 THEN Max({e, 1}) ELSE e]
  BY DEF parse
<1>2. /\ out.returncode \in Int /\ out.text \in BOOLEAN
      /\ out.lines \in Seq([case : STRING, items : Seq(STRING \X Nat), words : BOOLEAN])
  BY TestRunsAssumption
<1>3. /\ DOMAIN out.lines = 1..Len(out.lines) /\ Len(out.lines) \in Nat
      /\ \A i \in 1..Len(out.lines) : out.lines[i].items \in Seq(STRING \X Nat)
  <2> DEFINE Line == [case : STRING, items : Seq(STRING \X Nat), words : BOOLEAN]
  <2>1. \A x \in Line : x.items \in Seq(STRING \X Nat)
    OBVIOUS
  <2>2. out.lines \in Seq(Line)
    BY <1>2
  <2> HIDE DEF Line
  <2>3. /\ DOMAIN out.lines = 1..Len(out.lines) /\ Len(out.lines) \in Nat
        /\ \A i \in 1..Len(out.lines) : out.lines[i] \in Line
    BY <2>2, SMTT(60)
  <2> QED BY <2>1, <2>3
<1>4. \A i \in DOMAIN counts : counts[i][2] \in Nat
  <2>1. CASE spoken = {}
    BY <2>1
  <2>2. CASE spoken # {}
    <3>1. spoken \in SUBSET (0..Len(out.lines)) /\ spoken \in SUBSET (1..Len(out.lines))
      BY <1>3
    <3>2. Max(spoken) \in spoken
      <4> HIDE DEF spoken
      <4> QED BY <1>3, <2>2, <3>1, Largest
    <3>3. out.lines[Max(spoken)].items \in Seq(STRING \X Nat)
      <4> HIDE DEF spoken
      <4> QED BY <1>3, <3>1, <3>2
    <3>4. counts = Counted(out.lines[Max(spoken)].items)
      BY <2>2
    <3> HIDE DEF counts, spoken
    <3> QED BY <3>3, <3>4, CountedIs
  <2> QED BY <2>1, <2>2
<1>5. ASSUME NEW kind
      PROVE  Of(kind) \in Nat
  <2>1. Cardinality(Cases(kind)) \in Nat
    <3>1. Cases(kind) \in SUBSET (1..Len(out.lines))
      BY <1>3
    <3> HIDE DEF Cases
    <3>2. IsFiniteSet(1..Len(out.lines))
      BY <1>3, FS_Interval
    <3>3. IsFiniteSet(Cases(kind))
      BY <3>1, <3>2, FS_Subset
    <3> QED BY <3>3, FS_CardinalityType
  <2> HIDE DEF counts
  <2>2. CASE counts = <<>>
    BY <2>1, <2>2
  <2>3. CASE counts # <<>> /\ \A i \in DOMAIN counts : counts[i][1] # kind
    BY <2>3
  <2>4. CASE counts # <<>> /\ \E i \in DOMAIN counts : counts[i][1] = kind
    BY <1>4, <2>4, SMTT(60)
  <2> QED BY <2>2, <2>3, <2>4
<1>6. f \in Nat /\ p \in Nat /\ s \in Nat /\ e \in Nat
  BY <1>5
<1> HIDE DEF f, p, s, e
<1>7. /\ total \in Nat /\ f + e <= total
      /\ total = 0 => f = 0 /\ e = 0
  BY <1>6
<1>8. \A m, n \in Nat : /\ Max({m, n}) = IF m >= n THEN m ELSE n
  BY DEF Max
<1> HIDE DEF total
<1>9. CASE ~out.text
  <2>1. Max({0, 1}) = 1
    BY <1>8
  <2>2. CASE out.returncode = 0
    <3>1. parse(out) = [success |-> TRUE, total |-> 0, failed |-> 0, errors |-> 0]
      BY <1>1, <1>9, <2>2
    <3> HIDE DEF Max
    <3> QED BY <2>1, <3>1
  <2>3. CASE out.returncode # 0
    <3>1. parse(out) = [success |-> FALSE, total |-> 0, failed |-> 0, errors |-> 1]
      BY <1>1, <1>9, <2>3
    <3> HIDE DEF Max
    <3> QED BY <2>1, <3>1
  <2> QED BY <2>2, <2>3
<1>10. CASE out.text
  <2>1. Max({e, 1}) \in Nat /\ (e = 0 => Max({e, 1}) = 1)
    BY <1>6, <1>8
  <2>2. Max({total, 1}) >= total /\ Max({total, 1}) >= 1 /\ Max({total, 1}) \in Nat
    BY <1>7, <1>8
  <2> HIDE DEF Max
  <2> DEFINE errors == IF total = 0 /\ out.returncode # 0 THEN Max({e, 1}) ELSE e
             success == out.returncode = 0 /\ f = 0 /\ e = 0
  <2>3. parse(out) = [success |-> success, total |-> total, failed |-> f, errors |-> errors]
    BY <1>1, <1>10
  <2>4. errors \in Nat /\ success \in BOOLEAN /\ f + errors <= Max({total, 1})
    BY <1>6, <1>7, <2>1, <2>2
  <2>5. ~success /\ f = 0 /\ errors = 0 => total > 0
    BY <1>6, <1>7, <2>1
  <2> HIDE DEF errors, success
  <2> QED BY <1>6, <1>7, <2>3, <2>4, <2>5
<1> QED BY <1>2, <1>9, <1>10, SMTT(60)

LEMMA DiagnosedIs ==
  ASSUME NEW out \in TestRuns
  PROVE  /\ diagnose(out, parse(out)) \in SUBSET Causes
         /\ ~parse(out).success /\ diagnose(out, parse(out)) = {}
              => parse(out).total > 0 /\ parse(out).failed = 0 /\ parse(out).errors = 0
<1> DEFINE r == parse(out)
<1>1. r \in [success : BOOLEAN, total : Nat, failed : Nat, errors : Nat]
      /\ (~r.success /\ r.failed = 0 /\ r.errors = 0 => r.total > 0)
  BY ParsedIs
<1>2. out.known \in SUBSET Causes /\ "errors occurred" \in Causes /\ "tests failed" \in Causes
  <2>1. out.known \in SUBSET Recognised
    BY DEF Recognised
  <2> QED BY <2>1 DEF Causes
<1> HIDE DEF r
<1>3. diagnose(out, r) = IF out.known # {} \/ r.success THEN out.known
        ELSE IF r.errors > 0 THEN {"errors occurred"}
        ELSE IF r.failed > 0 THEN {"tests failed"} ELSE {}
  BY DEF diagnose
<1>4. diagnose(out, r) \in SUBSET Causes
  BY <1>2, <1>3
<1>5. ~r.success /\ diagnose(out, r) = {} => ~(r.errors > 0) /\ ~(r.failed > 0)
  BY <1>3
<1>6. r.errors \in Nat /\ r.failed \in Nat
  BY <1>1
<1> QED BY <1>1, <1>4, <1>5, <1>6 DEF r
-----------------------------------------------------------------------------
(* A round of development                                                  *)

Early == {"decide", "plan", "analyze", "prepare", "propose", "generate", "validate", "rules", "test"}
Plans == [success : BOOLEAN, ops : Edits]

LEMMA EarlyIs ==
  /\ Anywhere = Early \cup {"apply", "write"} /\ Anywhere \ {"apply", "write"} = Early
  /\ "apply" \notin Early /\ "write" \notin Early /\ "finished" \notin Anywhere
  /\ "finished" \notin Early
BY DEF Early, Anywhere

\* What the operations of a plan say of the files is so, given who edited what.
HoldsOf(ops, listed, edits, t) ==
  \A i \in DOMAIN ops :
    /\ \A j \in DOMAIN ops : ops[j].file = ops[i].file => ops[j].original = ops[i].original
    /\ \/ ops[i].file \in ToSet(listed)
       \/ \E e \in edits : e[1] = ops[i].file /\ e[2] \in Anywhere
       \/ t[ops[i].file] = ops[i].original

LEMMA PlansHold ==
  ASSUME pc # "finished"
  PROVE  PlansAreOfTheTree <=> /\ HoldsOf(plan.ops, modified, foreign, tree)
                               /\ HoldsOf(dev.ops, modified, foreign, tree)
BY DEF PlansAreOfTheTree, HoldsOf, Disturbed

LEMMA PlansStillHold ==
  ASSUME HoldsOf(plan'.ops, modified', foreign', tree'), HoldsOf(dev'.ops, modified', foreign', tree')
  PROVE  PlansAreOfTheTree'
BY DEF PlansAreOfTheTree, HoldsOf, Disturbed

LEMMA NothingHolds ==
  ASSUME NEW l, NEW e, NEW t
  PROVE  HoldsOf(<<>>, l, e, t)
BY DEF HoldsOf

LEMMA NothingIsTyped ==
  /\ NoPlan \in Plans /\ NoDev \in Developments /\ NoPlan.ops = <<>> /\ NoDev.ops = <<>>
  /\ Original \in Instructions /\ \A cs \in SUBSET Causes : RefinedBy(cs) \in Instructions
BY DEF NoPlan, NoDev, Plans, Developments, Edits, Original, RefinedBy, Instructions

\* The round goes on: everything but the round is as it was.
LEMMA RoundGoesOn ==
  ASSUME RepairInv, pc \in Early, pc' \in Early \ {"decide"},
         UNCHANGED <<request, iterations, tests, causes, result, world>>,
         instruction' \in Instructions,
         instruction' = IF iterations = <<>> THEN Original ELSE RefinedBy(Last(iterations).causes),
         plan' \in Plans, dev' \in Developments, ContextIsExact',
         HoldsOf(plan'.ops, modified, foreign, tree), HoldsOf(dev'.ops, modified, foreign, tree)
  PROVE  RepairInv'
<1>0. /\ query' = query /\ maxIter' = maxIter /\ iterations' = iterations /\ tests' = tests
      /\ causes' = causes /\ applied' = applied /\ modified' = modified /\ recorded' = recorded
      /\ outcome' = outcome /\ tree' = tree /\ foreign' = foreign /\ foreignEdits' = foreignEdits
  BY DEF request, result, world
<1>1. /\ pc # "finished" /\ pc' # "finished" /\ pc' \in Anywhere \ {"apply", "write"}
      /\ pc \in Anywhere \ {"apply", "write"} /\ pc' # "decide"
      /\ pc' # "apply" /\ pc' # "write" /\ pc' \in Anywhere \cup {"finished"}
  BY EarlyIs
<1>2. /\ TypeOK /\ RoundIsTheNext /\ FeedbackIsFresh /\ FailureHasACause /\ EditsAreAccounted
      /\ EditsFollowPassingTests
  BY DEF RepairInv, RoundsAreInformed
<1>3. applied = 0 /\ modified = <<>> /\ recorded = <<>> /\ outcome = "none"
  BY <1>1, <1>2 DEF RoundIsTheNext, EditsAreAccounted
<1>4. TypeOK'
  <2>1. dev'.ops \in Edits
    BY DEF Developments
  <2>2. applied' \in 0..Len(dev'.ops)
    BY <1>0, <1>3, <2>1 DEF Edits
  <2>3. /\ query \in Queries /\ maxIter \in 1..MaxIterations
        /\ iterations \in Seq(Iterations) /\ Len(iterations) <= maxIter
        /\ causes \in SUBSET Causes
        /\ tests \in [success : BOOLEAN, total : Nat, failed : Nat, errors : Nat]
        /\ tests.failed + tests.errors <= Max({tests.total, 1})
        /\ modified \in Seq(Files) /\ Len(modified) <= applied
        /\ tree \in [Files -> Contents]
        /\ foreign \in SUBSET (Files \X Anywhere) /\ foreignEdits \in 0..MaxForeign
        /\ outcome \in {"none", "self-repair failed", "edit failed", "completed"}
    BY <1>2 DEF TypeOK
  <2> QED BY <1>0, <1>1, <2>2, <2>3 DEF TypeOK, Plans
<1>5. RoundIsTheNext'
  <2>1. iterations # <<>> => causes = Last(iterations).causes /\ tests.success = Last(iterations).success
    BY <1>2 DEF RoundIsTheNext
  <2>2. /\ Len(iterations) < maxIter
        /\ \A i \in DOMAIN iterations : ~iterations[i].success
    BY <1>1, <1>2 DEF RoundIsTheNext
  <2> QED BY <1>0, <1>1, <1>3, <2>1, <2>2 DEF RoundIsTheNext
<1>6. FeedbackIsFresh' /\ FailureHasACause'
  BY <1>0, <1>2 DEF FeedbackIsFresh, FailureHasACause
<1>7. EditsFollowPassingTests'
  BY <1>0, <1>1, <1>3 DEF EditsFollowPassingTests
<1>8. PlansAreOfTheTree'
  BY <1>0, PlansStillHold
<1>9. EditsAreAccounted'
  BY <1>0, <1>1, <1>3 DEF EditsAreAccounted
<1>10. CompletedIsOnDisk' /\ CompletedTouchesAFileOnce' /\ RecordNamesTheEdits'
  BY <1>0, <1>3 DEF CompletedIsOnDisk, CompletedTouchesAFileOnce, RecordNamesTheEdits
<1> QED BY <1>4, <1>5, <1>6, <1>7, <1>8, <1>9, <1>10 DEF RepairInv, RoundsAreInformed

LEMMA RoundOpened ==
  ASSUME RepairInv, pc \in Early \ {"decide"}
  PROVE  /\ instruction \in Instructions
         /\ instruction = IF iterations = <<>> THEN Original ELSE RefinedBy(Last(iterations).causes)
         /\ plan \in Plans /\ dev \in Developments /\ tree \in [Files -> Contents] /\ query \in Queries
         /\ HoldsOf(plan.ops, modified, foreign, tree) /\ HoldsOf(dev.ops, modified, foreign, tree)
<1>1. pc # "finished" /\ pc \in Anywhere \ {"apply", "write"}
  BY EarlyIs
<1>2. TypeOK /\ RoundIsTheNext /\ PlansAreOfTheTree
  BY DEF RepairInv, RoundsAreInformed
<1>3. /\ instruction \in Instructions /\ plan \in Plans /\ dev \in Developments
      /\ tree \in [Files -> Contents] /\ query \in Queries
  BY <1>2 DEF TypeOK, Plans
<1>4. instruction = IF iterations = <<>> THEN Original ELSE RefinedBy(Last(iterations).causes)
  BY <1>1, <1>2 DEF RoundIsTheNext
<1> QED BY <1>1, <1>2, <1>3, <1>4, PlansHold

LEMMA NotAskedYet ==
  ASSUME pc' # "propose"
  PROVE  ContextIsExact'
BY DEF ContextIsExact

\* A step that ends the development, or leaves everything of the round but the place.
LEMMA RoundEnds ==
  ASSUME RepairInv, pc \in Early \ {"decide"},
         UNCHANGED <<request, iterations, instruction, plan, tests, causes, result, world>>,
         NEW ok \in BOOLEAN, NEW carried \in {NoPlan, plan}, Developed(ok, carried)
  PROVE  RepairInv'
<1>1. dev' = [success |-> ok, planned |-> carried.success, ops |-> carried.ops] /\ pc' = "test"
  BY DEF Developed
<1>2. carried \in Plans /\ HoldsOf(carried.ops, modified, foreign, tree)
  BY RoundOpened, NothingIsTyped, NothingHolds
<1>3. dev' \in Developments /\ dev'.ops = carried.ops
  BY <1>1, <1>2 DEF Plans, Developments
<1>4. pc' \in Early \ {"decide"} /\ ContextIsExact'
  BY <1>1, NotAskedYet DEF Early
<1> QED BY <1>2, <1>3, <1>4, RoundOpened, RoundGoesOn

LEMMA RoundMovesOn ==
  ASSUME RepairInv, pc \in Early \ {"decide"},
         UNCHANGED <<request, iterations, instruction, plan, dev, tests, causes, result, world>>,
         pc' \in Early \ {"decide", "propose"}
  PROVE  RepairInv'
<1>1. ContextIsExact'
  BY NotAskedYet
<1> QED BY <1>1, RoundOpened, RoundGoesOn

LEMMA DecideKeeps ==
  ASSUME RepairInv, Decide
  PROVE  RepairInv'
<1>1. /\ pc = "decide" /\ pc' = "plan" /\ plan' = NoPlan /\ dev' = NoDev
      /\ instruction' = IF iterations = <<>> THEN Original ELSE RefinedBy(causes)
      /\ UNCHANGED <<request, iterations, tests, causes, result, world>>
  BY DEF Decide
<1>2. TypeOK /\ RoundIsTheNext
  BY DEF RepairInv, RoundsAreInformed
<1>3. /\ instruction' \in Instructions
      /\ instruction' = IF iterations = <<>> THEN Original ELSE RefinedBy(Last(iterations).causes)
  <2>1. causes \in SUBSET Causes
    BY <1>2 DEF TypeOK
  <2>2. iterations # <<>> => causes = Last(iterations).causes
    BY <1>2 DEF RoundIsTheNext
  <2> QED BY <1>1, <2>1, <2>2, NothingIsTyped
<1>4. plan' \in Plans /\ dev' \in Developments /\ plan'.ops = <<>> /\ dev'.ops = <<>>
  BY <1>1, NothingIsTyped
<1>5. pc \in Early /\ pc' \in Early \ {"decide"} /\ ContextIsExact'
  BY <1>1, NotAskedYet DEF Early
<1> QED BY <1>1, <1>3, <1>4, <1>5, NothingHolds, RoundGoesOn

LEMMA CreatePlanKeeps ==
  ASSUME RepairInv, CreatePlan \/ PlanningFails
  PROVE  RepairInv'
<1>1. CASE CreatePlan
  BY <1>1, RoundMovesOn DEF CreatePlan, Early, round
<1>2. CASE PlanningFails
  BY <1>2, RoundEnds DEF PlanningFails, Early
<1> QED BY <1>1, <1>2

LEMMA AnalyzeKeeps ==
  ASSUME RepairInv, Analyze
  PROVE  RepairInv'
<1>1. /\ pc = "analyze" /\ pc \in Early \ {"decide"}
      /\ UNCHANGED <<request, iterations, instruction, plan, tests, causes, result, world>>
      /\ Developed(FALSE, NoPlan) \/ (pc' = "prepare" /\ UNCHANGED dev)
  BY DEF Analyze, Early
<1>2. CASE Developed(FALSE, NoPlan)
  BY <1>1, <1>2, RoundEnds
<1>3. CASE pc' = "prepare" /\ UNCHANGED dev
  BY <1>1, <1>3, RoundMovesOn DEF Early
<1> QED BY <1>1, <1>2, <1>3

\* What is asked is what has been retrieved.
LEMMA PrepareKeeps ==
  ASSUME RepairInv, Prepare
  PROVE  RepairInv'
<1>1. /\ pc = "prepare" /\ pc \in Early \ {"decide"} /\ snapshot' = analyze(tree)
      /\ UNCHANGED <<request, iterations, instruction, plan, tests, causes, result, world>>
      /\ \/ Developed(FALSE, NoPlan)
         \/ context' = retrieve(snapshot', query) /\ pc' = "propose" /\ UNCHANGED dev
  BY DEF Prepare, Early
<1>2. CASE Developed(FALSE, NoPlan)
  BY <1>1, <1>2, RoundEnds
<1>3. CASE context' = retrieve(snapshot', query) /\ pc' = "propose" /\ UNCHANGED dev
  <2>1. query' = query /\ query \in Queries
    BY <1>1, RoundOpened DEF request
  <2>2. ContextIsExact'
    BY <1>1, <1>3, <2>1, RetrievedIsExact DEF ContextIsExact
  <2>3. pc' \in Early \ {"decide"}
    BY <1>3 DEF Early
  <2> QED BY <1>1, <1>3, <2>2, <2>3, RoundOpened, RoundGoesOn
<1> QED BY <1>1, <1>2, <1>3

\* The plan holds what the files held when it was made.
LEMMA ProposeKeeps ==
  ASSUME RepairInv, Propose
  PROVE  RepairInv'
<1>1. PICK ops \in Proposals :
        /\ Readable(ops)
        /\ plan' = [success |-> TRUE,
                    ops |-> [i \in DOMAIN ops |->
                      [file |-> ops[i].file, original |-> tree[ops[i].file], new |-> ops[i].new]]]
  BY DEF Propose
<1>2. /\ pc \in Early \ {"decide"} /\ pc' = "generate" /\ pc' \in Early \ {"decide"}
      /\ UNCHANGED <<request, iterations, instruction, dev, tests, causes, result, world>>
  BY DEF Propose, Early
<1> DEFINE planned == [i \in DOMAIN ops |->
                        [file |-> ops[i].file, original |-> tree[ops[i].file], new |-> ops[i].new]]
<1>3. ops \in Seq([file : Files, new : Texts])
  BY ProposalsAssumption
<1>4. /\ DOMAIN ops = 1..Len(ops) /\ Len(ops) \in Nat
      /\ \A i \in 1..Len(ops) : ops[i].file \in Files /\ ops[i].new \in Texts
  <2> DEFINE Asked == [file : Files, new : Texts]
  <2>1. \A x \in Asked : x.file \in Files /\ x.new \in Texts
    OBVIOUS
  <2>2. ops \in Seq(Asked)
    BY <1>3
  <2> HIDE DEF Asked
  <2>3. DOMAIN ops = 1..Len(ops) /\ Len(ops) \in Nat /\ \A i \in 1..Len(ops) : ops[i] \in Asked
    BY <2>2
  <2> QED BY <2>1, <2>3
<1>5. \A i \in 1..Len(ops) : tree[ops[i].file] \in Texts
  <2>1. tree \in [Files -> Contents]
    BY <1>2, RoundOpened
  <2>2. \A i \in 1..Len(ops) : tree[ops[i].file] \in Contents /\ tree[ops[i].file] \notin {Missing, Binary}
    BY <1>1, <1>4, <2>1 DEF Readable
  <2> QED BY <2>2 DEF Contents
<1>6. planned \in Edits
  <2> DEFINE Edit == [file : Files, original : Texts, new : Texts]
  <2>1. \A i \in 1..Len(ops) : planned[i] \in Edit
    BY <1>4, <1>5
  <2>2. planned = [i \in 1..Len(ops) |-> planned[i]]
    BY <1>4
  <2> HIDE DEF planned, Edit
  <2>3. planned \in Seq(Edit)
    BY <1>4, <2>1, <2>2
  <2> QED BY <2>3 DEF Edits, Edit
<1>7. plan' \in Plans /\ plan'.ops = planned
  <2> HIDE DEF planned
  <2> QED BY <1>1, <1>6 DEF Plans, planned
<1>8. HoldsOf(planned, modified, foreign, tree)
  BY DEF HoldsOf
<1>9. ContextIsExact'
  BY <1>2, NotAskedYet
<1> HIDE DEF planned
<1> QED BY <1>2, <1>7, <1>8, <1>9, RoundOpened, RoundGoesOn

LEMMA ProposalFailsKeeps ==
  ASSUME RepairInv, ProposalFails
  PROVE  RepairInv'
BY RoundEnds DEF ProposalFails, Early

LEMMA GenerateKeeps ==
  ASSUME RepairInv, Generate
  PROVE  RepairInv'
<1>1. /\ pc = "generate" /\ pc \in Early \ {"decide"}
      /\ UNCHANGED <<request, iterations, instruction, plan, tests, causes, result, world>>
      /\ Developed(FALSE, plan) \/ (pc' = "validate" /\ UNCHANGED dev)
  BY DEF Generate, Early
<1>2. CASE Developed(FALSE, plan)
  BY <1>1, <1>2, RoundEnds
<1>3. CASE pc' = "validate" /\ UNCHANGED dev
  BY <1>1, <1>3, RoundMovesOn DEF Early
<1> QED BY <1>1, <1>2, <1>3

LEMMA ValidateKeeps ==
  ASSUME RepairInv, Validate \/ RunRules
  PROVE  RepairInv'
<1>1. CASE Validate
  <2>1. /\ pc = "validate" /\ pc \in Early \ {"decide"}
        /\ UNCHANGED <<request, iterations, instruction, plan, tests, causes, result, world>>
        /\ Developed(FALSE, plan) \/ (pc' = "rules" /\ UNCHANGED dev)
    BY <1>1 DEF Validate, Early
  <2>2. CASE Developed(FALSE, plan)
    BY <2>1, <2>2, RoundEnds
  <2>3. CASE pc' = "rules" /\ UNCHANGED dev
    BY <2>1, <2>3, RoundMovesOn DEF Early
  <2> QED BY <2>1, <2>2, <2>3
<1>2. CASE RunRules
  <2>1. verify(tree, patches) \in BOOLEAN
    BY DEF verify
  <2> QED BY <1>2, <2>1, RoundEnds DEF RunRules, Early
<1> QED BY <1>1, <1>2
-----------------------------------------------------------------------------
(* The end of a round                                                      *)

LEMMA RecordedIs ==
  ASSUME recorded = <<>>, NEW how, NEW ok, NEW edited, End(how, ok, edited)
  PROVE  /\ pc' = "finished" /\ outcome' = how
         /\ recorded' # <<>> => recorded'[1].success = ok /\ recorded'[1].files = edited
BY DEF End

LEMMA Appended ==
  ASSUME NEW S, NEW s \in Seq(S), NEW x \in S
  PROVE  /\ Append(s, x) \in Seq(S) /\ Append(s, x) # <<>>
         /\ Len(Append(s, x)) = Len(s) + 1 /\ Last(Append(s, x)) = x
         /\ DOMAIN Append(s, x) = 1..(Len(s) + 1) /\ DOMAIN s = 1..Len(s)
         /\ \A i \in 1..Len(s) : Append(s, x)[i] = s[i]
         /\ Append(s, x)[Len(s) + 1] = x
         /\ \A y : y \in ToSet(s) => y \in ToSet(Append(s, x))
         /\ x \in ToSet(Append(s, x))
<1>1. /\ Append(s, x) \in Seq(S) /\ Append(s, x) # <<>>
      /\ Len(Append(s, x)) = Len(s) + 1
      /\ DOMAIN Append(s, x) = 1..(Len(s) + 1) /\ DOMAIN s = 1..Len(s)
      /\ \A i \in 1..Len(s) : Append(s, x)[i] = s[i]
      /\ Append(s, x)[Len(s) + 1] = x
      /\ Len(s) \in Nat
  OBVIOUS
<1> DEFINE t == Append(s, x)
<1> HIDE DEF t
<1>2. \A i \in 1..Len(s) : i \in DOMAIN t
  BY <1>1 DEF t
<1>3. Len(s) + 1 \in DOMAIN t
  BY <1>1 DEF t
<1>4. \A y : y \in ToSet(s) => y \in ToSet(t)
  BY <1>1, <1>2 DEF ToSet, t
<1>5. x \in ToSet(t)
  BY <1>1, <1>3 DEF ToSet, t
<1>6. Last(t) = x
  BY <1>1 DEF Last, t
<1> QED BY <1>1, <1>4, <1>5, <1>6 DEF t

LEMMA TestKeeps ==
  ASSUME RepairInv, Test
  PROVE  RepairInv'
<1> DEFINE r == [told |-> instruction, dev |-> dev, success |-> tests'.success, causes |-> causes']
<1>1. /\ pc = "test" /\ iterations' = Append(iterations, r)
      /\ UNCHANGED <<request, instruction, round, applied, modified, world>>
      /\ \E out \in TestRuns : tests' = parse(out) /\ causes' = diagnose(out, parse(out))
  BY DEF Test
<1>2. /\ tests' \in [success : BOOLEAN, total : Nat, failed : Nat, errors : Nat]
      /\ tests'.failed + tests'.errors <= Max({tests'.total, 1})
      /\ causes' \in SUBSET Causes
      /\ ~tests'.success /\ causes' = {} => tests'.total > 0 /\ tests'.failed = 0 /\ tests'.errors = 0
  BY <1>1, ParsedIs, DiagnosedIs
<1>3. /\ query' = query /\ maxIter' = maxIter /\ instruction' = instruction /\ plan' = plan
      /\ dev' = dev /\ applied' = applied /\ modified' = modified /\ tree' = tree
      /\ foreign' = foreign /\ foreignEdits' = foreignEdits
  BY <1>1 DEF request, round, world
<1>4. /\ TypeOK /\ RoundIsTheNext /\ FeedbackIsFresh /\ EditsAreAccounted /\ PlansAreOfTheTree
  BY DEF RepairInv, RoundsAreInformed
<1>5. /\ pc \in Anywhere \ {"apply", "write"} /\ pc # "decide" /\ pc # "finished"
  BY <1>1, EarlyIs DEF Early
<1>6. /\ Len(iterations) < maxIter /\ applied = 0 /\ modified = <<>>
      /\ \A i \in DOMAIN iterations : ~iterations[i].success
      /\ instruction = IF iterations = <<>> THEN Original ELSE RefinedBy(Last(iterations).causes)
      /\ recorded = <<>> /\ outcome = "none"
  BY <1>4, <1>5 DEF RoundIsTheNext, EditsAreAccounted
<1>7. /\ query \in Queries /\ maxIter \in 1..MaxIterations
      /\ iterations \in Seq(Iterations) /\ instruction \in Instructions
      /\ plan \in [success : BOOLEAN, ops : Edits] /\ dev \in Developments
      /\ applied \in 0..Len(dev.ops) /\ modified \in Seq(Files) /\ Len(modified) <= applied
      /\ tree \in [Files -> Contents] /\ foreign \in SUBSET (Files \X Anywhere)
      /\ foreignEdits \in 0..MaxForeign
  BY <1>4 DEF TypeOK
<1>bound. maxIter \in Nat
  BY <1>7, IterationsAssumption
<1>8. r \in Iterations /\ r.success = tests'.success /\ r.causes = causes' /\ r.told = instruction
  BY <1>2, <1>7 DEF Iterations
<1> HIDE DEF r
<1>9. /\ iterations' \in Seq(Iterations) /\ iterations' # <<>>
      /\ Len(iterations') = Len(iterations) + 1 /\ Len(iterations) \in Nat
      /\ Last(iterations') = r
      /\ DOMAIN iterations' = 1..(Len(iterations) + 1) /\ DOMAIN iterations = 1..Len(iterations)
      /\ \A i \in 1..Len(iterations) : iterations'[i] = iterations[i]
      /\ iterations'[Len(iterations) + 1] = r
  <2>1. Len(iterations) \in Nat
    BY <1>7
  <2> QED BY <1>1, <1>7, <1>8, <2>1, Appended
<1>10. /\ pc' \in {"apply", "decide", "finished"}
       /\ pc' = "apply" => tests'.success /\ UNCHANGED <<outcome, recorded>>
       /\ pc' = "decide" => ~tests'.success /\ Len(iterations') < maxIter /\ UNCHANGED <<outcome, recorded>>
       /\ pc' = "finished" => /\ ~tests'.success /\ ~(Len(iterations') < maxIter)
                              /\ outcome' = "self-repair failed"
                              /\ recorded' # <<>> => recorded'[1].success = FALSE
  <2>1. CASE tests'.success
    BY <2>1 DEF Test
  <2>2. CASE ~tests'.success /\ Len(iterations') < maxIter
    BY <2>2 DEF Test
  <2>3. CASE ~tests'.success /\ ~(Len(iterations') < maxIter)
    <3>1. End("self-repair failed", FALSE, <<>>)
      BY <2>3 DEF Test
    <3> QED BY <1>6, <2>3, <3>1, RecordedIs
  <2> QED BY <1>2, <2>1, <2>2, <2>3
<1>11. Len(iterations') <= maxIter
  BY <1>bound, <1>6, <1>9
<1>12. outcome' \in {"none", "self-repair failed"} /\ outcome' # "completed"
       /\ (outcome' = "self-repair failed" <=> pc' = "finished")
  BY <1>6, <1>10
<1>13. TypeOK'
  <2>1. pc' \in Anywhere \cup {"finished"}
    BY <1>10 DEF Anywhere
  <2> QED BY <1>2, <1>3, <1>7, <1>9, <1>11, <1>12, <2>1 DEF TypeOK
<1>14. RoundIsTheNext'
  <2>1. Last(iterations').causes = causes' /\ Last(iterations').success = tests'.success
    BY <1>8, <1>9
  <2>2. ASSUME pc' = "decide"
        PROVE  \A i \in DOMAIN iterations' : ~iterations'[i].success
    <3>1. ASSUME NEW i \in 1..(Len(iterations) + 1)
          PROVE  ~iterations'[i].success
      <4>1. i \in 1..Len(iterations) \/ i = Len(iterations) + 1
        BY <1>9
      <4> QED BY <1>6, <1>8, <1>9, <1>10, <2>2, <4>1
    <3> QED BY <1>9, <3>1
  <2>3. pc' \in Anywhere \ {"apply", "write"} => pc' = "decide"
    BY <1>10, EarlyIs
  <2> QED BY <1>3, <1>6, <1>10, <2>1, <2>2, <2>3 DEF RoundIsTheNext
<1>15. ContextIsExact'
  BY <1>10, NotAskedYet
<1>16. FeedbackIsFresh'
  <2>1. ASSUME NEW i \in 1..(Len(iterations) + 1)
        PROVE  iterations'[i].told = IF i = 1 THEN Original ELSE RefinedBy(iterations'[i - 1].causes)
    <3>1. CASE i \in 1..Len(iterations)
      <4>1. i # 1 => i - 1 \in 1..Len(iterations)
        BY <1>9, <3>1
      <4>2. iterations[i].told = IF i = 1 THEN Original ELSE RefinedBy(iterations[i - 1].causes)
        BY <1>4, <1>9, <3>1 DEF FeedbackIsFresh
      <4> QED BY <1>9, <3>1, <4>1, <4>2
    <3>2. CASE i = Len(iterations) + 1
      <4>1. iterations'[i].told = instruction
        BY <1>8, <1>9, <3>2
      <4>2. CASE iterations = <<>>
        <5>1. Len(iterations) = 0
          BY <4>2
        <5> QED BY <1>6, <3>2, <4>1, <4>2, <5>1
      <4>3. CASE iterations # <<>>
        <5>1. Len(iterations) # 0
          BY <1>7, <4>3
        <5>2. i # 1 /\ i - 1 = Len(iterations) /\ i - 1 \in 1..Len(iterations)
          BY <1>9, <3>2, <5>1
        <5>3. Last(iterations) = iterations[Len(iterations)]
          BY DEF Last
        <5> QED BY <1>6, <1>9, <4>1, <4>3, <5>2, <5>3
      <4> QED BY <4>2, <4>3
    <3>3. i \in 1..Len(iterations) \/ i = Len(iterations) + 1
      BY <1>9
    <3> QED BY <3>1, <3>2, <3>3
  <2> QED BY <1>9, <2>1 DEF FeedbackIsFresh
<1>17. FailureHasACause'
  BY <1>2 DEF FailureHasACause
<1>18. EditsFollowPassingTests'
  <2>1. applied' = 0 /\ modified' = <<>>
    BY <1>3, <1>6
  <2>2. pc' = "apply" => /\ Last(iterations').success
                         /\ \A i \in 1..(Len(iterations') - 1) : ~iterations'[i].success
    <3>1. Len(iterations') - 1 = Len(iterations)
      BY <1>9
    <3> QED BY <1>6, <1>8, <1>9, <1>10, <3>1
  <2>3. ASSUME outcome' = "self-repair failed"
        PROVE  Len(iterations') = maxIter'
    <3>1. ~(Len(iterations') < maxIter)
      BY <1>10, <1>12, <2>3
    <3> QED BY <1>bound, <1>3, <1>9, <1>11, <3>1
  <2>4. pc' # "write"
    BY <1>10
  <2>5. /\ ~(applied' > 0)
        /\ pc' \in {"apply", "write"} => pc' = "apply"
    BY <2>1, <2>4
  <2> QED BY <2>1, <2>2, <2>3, <2>5 DEF EditsFollowPassingTests
<1>19. PlansAreOfTheTree'
  BY <1>3, <1>4, <1>5, PlansHold, PlansStillHold
<1>20. EditsAreAccounted'
  <2>1. applied' = 0 /\ pc' # "write" /\ (pc' # "finished" => recorded' = <<>> /\ outcome' = "none")
    BY <1>3, <1>6, <1>10
  <2> QED BY <2>1 DEF EditsAreAccounted
<1>21. CompletedIsOnDisk' /\ CompletedTouchesAFileOnce'
  BY <1>12 DEF CompletedIsOnDisk, CompletedTouchesAFileOnce
<1>22. RecordNamesTheEdits'
  BY <1>6, <1>10, <1>12 DEF RecordNamesTheEdits
<1> QED BY <1>13, <1>14, <1>15, <1>16, <1>17, <1>18, <1>19, <1>20, <1>21, <1>22
        DEF RepairInv, RoundsAreInformed
-----------------------------------------------------------------------------
(* The edits                                                               *)

\* While edits are made the rounds are over: nothing that they left changes any more.
LEMMA EditingKeeps ==
  ASSUME RepairInv, pc \in {"apply", "write"}, pc' \in {"apply", "write", "finished"},
         UNCHANGED <<request, iterations, instruction, round, tests, causes, foreign, foreignEdits>>,
         tree' \in [Files -> Contents], applied' \in 0..Len(dev.ops),
         modified' \in Seq(Files), Len(modified') <= applied',
         outcome' \in {"none", "edit failed", "completed"},
         PlansAreOfTheTree', EditsAreAccounted', CompletedIsOnDisk', CompletedTouchesAFileOnce',
         RecordNamesTheEdits'
  PROVE  RepairInv'
<1>1. /\ TypeOK /\ RoundIsTheNext /\ FeedbackIsFresh /\ FailureHasACause
      /\ EditsFollowPassingTests
  BY DEF RepairInv, RoundsAreInformed
<1>2. /\ query' = query /\ maxIter' = maxIter /\ iterations' = iterations /\ tests' = tests
      /\ causes' = causes /\ instruction' = instruction /\ plan' = plan /\ dev' = dev
      /\ foreign' = foreign /\ foreignEdits' = foreignEdits
  BY DEF request, round
<1>3. TypeOK'
  <2>1. pc' \in Anywhere \cup {"finished"}
    BY DEF Anywhere
  <2>2. outcome' \in {"none", "self-repair failed", "edit failed", "completed"}
    OBVIOUS
  <2>3. /\ query \in Queries /\ maxIter \in 1..MaxIterations
        /\ iterations \in Seq(Iterations) /\ Len(iterations) <= maxIter
        /\ instruction \in Instructions /\ causes \in SUBSET Causes
        /\ plan \in [success : BOOLEAN, ops : Edits] /\ dev \in Developments
        /\ tests \in [success : BOOLEAN, total : Nat, failed : Nat, errors : Nat]
        /\ tests.failed + tests.errors <= Max({tests.total, 1})
        /\ foreign \in SUBSET (Files \X Anywhere) /\ foreignEdits \in 0..MaxForeign
    BY <1>1 DEF TypeOK
  <2> QED BY <1>2, <2>1, <2>2, <2>3 DEF TypeOK
<1>4. RoundIsTheNext'
  <2>1. pc' \notin Anywhere \ {"apply", "write"}
    BY EarlyIs DEF Early
  <2>2. iterations # <<>> => causes = Last(iterations).causes /\ tests.success = Last(iterations).success
    BY <1>1 DEF RoundIsTheNext
  <2> QED BY <1>2, <2>1, <2>2 DEF RoundIsTheNext
<1>5. ContextIsExact'
  BY NotAskedYet
<1>6. FeedbackIsFresh' /\ FailureHasACause'
  BY <1>1, <1>2 DEF FeedbackIsFresh, FailureHasACause
<1>7. EditsFollowPassingTests'
  <2>1. Last(iterations).success /\ \A i \in 1..(Len(iterations) - 1) : ~iterations[i].success
    BY <1>1 DEF EditsFollowPassingTests
  <2>2. outcome' # "self-repair failed"
    OBVIOUS
  <2> QED BY <1>2, <2>1, <2>2 DEF EditsFollowPassingTests
<1> QED BY <1>3, <1>4, <1>5, <1>6, <1>7 DEF RepairInv, RoundsAreInformed

\* What is known while edits are made.
LEMMA EditingIs ==
  ASSUME RepairInv, pc \in {"apply", "write"}
  PROVE  /\ dev.ops \in Edits /\ DOMAIN dev.ops = 1..Len(dev.ops) /\ Len(dev.ops) \in Nat
         /\ \A i \in 1..Len(dev.ops) : /\ dev.ops[i].file \in Files
                                       /\ dev.ops[i].original \in Texts /\ dev.ops[i].new \in Texts
         /\ applied \in 0..Len(dev.ops) /\ modified \in Seq(Files) /\ Len(modified) <= applied
         /\ Len(modified) \in Nat
         /\ tree \in [Files -> Contents]
         /\ recorded = <<>> /\ outcome = "none"
         /\ HoldsOf(plan.ops, modified, foreign, tree) /\ HoldsOf(dev.ops, modified, foreign, tree)
         /\ \A i \in 1..applied :
              /\ dev.ops[i].new # dev.ops[i].original
              /\ \/ Disturbed(dev.ops[i].file, {"apply", "write"})
                 \/ tree[dev.ops[i].file] = dev.ops[i].new
              /\ \A j \in 1..applied : j # i /\ dev.ops[j].file = dev.ops[i].file
                                         => Disturbed(dev.ops[i].file, {"apply", "write"})
<1>1. TypeOK /\ EditsAreAccounted /\ PlansAreOfTheTree /\ pc # "finished"
  BY DEF RepairInv, RoundsAreInformed
<1>2. /\ dev \in Developments /\ applied \in 0..Len(dev.ops) /\ modified \in Seq(Files)
      /\ Len(modified) <= applied /\ tree \in [Files -> Contents]
  BY <1>1 DEF TypeOK
<1>3. dev.ops \in Edits
  BY <1>2 DEF Developments
<1>4. /\ DOMAIN dev.ops = 1..Len(dev.ops) /\ Len(dev.ops) \in Nat
      /\ \A i \in 1..Len(dev.ops) : /\ dev.ops[i].file \in Files
                                    /\ dev.ops[i].original \in Texts /\ dev.ops[i].new \in Texts
  <2> DEFINE Edit == [file : Files, original : Texts, new : Texts]
  <2>1. \A x \in Edit : x.file \in Files /\ x.original \in Texts /\ x.new \in Texts
    OBVIOUS
  <2>2. dev.ops \in Seq(Edit)
    BY <1>3 DEF Edits
  <2> HIDE DEF Edit
  <2>3. /\ DOMAIN dev.ops = 1..Len(dev.ops) /\ Len(dev.ops) \in Nat
        /\ \A i \in 1..Len(dev.ops) : dev.ops[i] \in Edit
    BY <2>2
  <2> QED BY <2>1, <2>3
<1>5. HoldsOf(plan.ops, modified, foreign, tree) /\ HoldsOf(dev.ops, modified, foreign, tree)
  BY <1>1, PlansHold
<1>6. /\ recorded = <<>> /\ outcome = "none"
      /\ \A i \in 1..applied :
           /\ dev.ops[i].new # dev.ops[i].original
           /\ \/ Disturbed(dev.ops[i].file, {"apply", "write"})
              \/ tree[dev.ops[i].file] = dev.ops[i].new
           /\ \A j \in 1..applied : j # i /\ dev.ops[j].file = dev.ops[i].file
                                      => Disturbed(dev.ops[i].file, {"apply", "write"})
  BY <1>1 DEF EditsAreAccounted
<1>7. Len(modified) \in Nat
  BY <1>2
<1> QED BY <1>2, <1>3, <1>4, <1>5, <1>6, <1>7

LEMMA OneMore ==
  ASSUME NEW n \in Nat, NEW m \in Nat, NEW a \in 0..n, a < n, m <= a
  PROVE  a + 1 \in 0..n /\ m <= a + 1
OBVIOUS

\* A run that ends with a failed edit, which may have emptied the file.
LEMMA EditFailedKeeps ==
  ASSUME RepairInv, pc \in {"apply", "write"}, applied < Len(dev.ops), applied' = applied + 1,
         UNCHANGED <<request, iterations, instruction, round, tests, causes, modified, foreign, foreignEdits>>,
         End("edit failed", FALSE, modified), tree' \in [Files -> Contents],
         \A f \in Files : tree'[f] = tree[f] \/ (f = Operation.file /\ tree'[f] = Blank)
  PROVE  RepairInv'
<1>1. /\ pc' = "finished" /\ outcome' = "edit failed"
      /\ recorded' # <<>> => recorded'[1].success = FALSE /\ recorded'[1].files = modified
  BY EditingIs, RecordedIs
<1>2. plan' = plan /\ dev' = dev /\ modified' = modified /\ foreign' = foreign
  BY DEF round
<1>3. applied' \in 0..Len(dev.ops) /\ Len(modified) <= applied' /\ modified' \in Seq(Files)
  <2>1. /\ applied \in 0..Len(dev.ops) /\ modified \in Seq(Files) /\ Len(modified) <= applied
        /\ Len(modified) \in Nat /\ Len(dev.ops) \in Nat
    BY EditingIs
  <2>2. applied + 1 \in 0..Len(dev.ops) /\ Len(modified) <= applied + 1
    BY <2>1, OneMore
  <2> QED BY <1>2, <2>1, <2>2
<1>4. PlansAreOfTheTree'
  <2>1. HoldsOf(plan.ops, modified, foreign, tree) /\ HoldsOf(dev.ops, modified, foreign, tree)
    BY EditingIs
  <2>2. ASSUME NEW ops, HoldsOf(ops, modified, foreign, tree)
        PROVE  \A i, j \in DOMAIN ops :
                 ops[j].file = ops[i].file => ops[j].original = ops[i].original
    BY <2>2 DEF HoldsOf
  <2>3. \A ops \in {plan.ops, dev.ops} : \A i, j \in DOMAIN ops :
          ops[j].file = ops[i].file => ops[j].original = ops[i].original
    BY <2>1, <2>2
  <2> QED BY <1>1, <1>2, <2>3 DEF PlansAreOfTheTree
<1>5. EditsAreAccounted' /\ CompletedIsOnDisk' /\ CompletedTouchesAFileOnce'
  BY <1>1 DEF EditsAreAccounted, CompletedIsOnDisk, CompletedTouchesAFileOnce
<1>6. RecordNamesTheEdits'
  <2>1. ASSUME NEW i \in DOMAIN dev.ops
        PROVE  \/ dev.ops[i].file \in ToSet(modified)
               \/ Disturbed(dev.ops[i].file, Anywhere)
               \/ tree'[dev.ops[i].file] = dev.ops[i].original
               \/ dev.ops[i].file = dev.ops[applied'].file /\ tree'[dev.ops[i].file] = Blank
    <3>1. dev.ops[i].file \in Files /\ Operation = dev.ops[applied']
      BY EditingIs DEF Operation
    <3>2. \/ dev.ops[i].file \in ToSet(modified)
          \/ Disturbed(dev.ops[i].file, Anywhere)
          \/ tree[dev.ops[i].file] = dev.ops[i].original
      BY EditingIs DEF HoldsOf, Disturbed
    <3> QED BY <3>1, <3>2
  <2>2. \A f, w : Disturbed(f, w)' <=> Disturbed(f, w)
    BY <1>2 DEF Disturbed
  <2> QED BY <1>1, <1>2, <2>1, <2>2 DEF RecordNamesTheEdits
<1> QED BY <1>1, <1>2, <1>3, <1>4, <1>5, <1>6, EditingKeeps

\* An operation that passes the comparison is of a file no edit before it touched, unless
\* somebody did since.
LEMMA ValidateEditKeeps ==
  ASSUME RepairInv, ValidateEdit
  PROVE  RepairInv'
<1>1. /\ pc = "apply" /\ applied < Len(dev.ops)
      /\ UNCHANGED <<request, instruction, round, tests, causes, modified, world>>
  BY DEF ValidateEdit
<1>2. /\ plan' = plan /\ dev' = dev /\ modified' = modified /\ foreign' = foreign /\ tree' = tree
  BY <1>1 DEF round, world
<1> DEFINE k == applied + 1
<1>3. CASE ValidOperation
  <2>1. pc' = "write" /\ UNCHANGED <<outcome, recorded, iterations, applied>>
    BY <1>3 DEF ValidateEdit
  <2>2. /\ tree[dev.ops[k].file] = dev.ops[k].original /\ dev.ops[k].new # dev.ops[k].original
        /\ Operation = dev.ops[k] /\ Operation' = dev'.ops[applied' + 1]
    BY <1>3 DEF ValidOperation, Operation
  <2>3. k \in 1..Len(dev.ops) /\ \A i \in 1..applied : i \in 1..Len(dev.ops)
    BY <1>1, EditingIs
  <2>4. ASSUME NEW i \in 1..applied, dev.ops[i].file = dev.ops[k].file
        PROVE  Disturbed(dev.ops[k].file, {"apply", "write"})
    <3>1. dev.ops[i].original = dev.ops[k].original
      BY <1>1, <2>3, <2>4, EditingIs DEF HoldsOf
    <3>2. \/ Disturbed(dev.ops[i].file, {"apply", "write"})
          \/ tree[dev.ops[i].file] = dev.ops[i].new
      BY <1>1, EditingIs
    <3>3. dev.ops[i].new # dev.ops[i].original
      BY <1>1, EditingIs
    <3> QED BY <2>2, <2>4, <3>1, <3>2, <3>3
  <2>5. \A f, w : Disturbed(f, w)' <=> Disturbed(f, w)
    BY <1>2 DEF Disturbed
  <2>6. EditsAreAccounted'
    <3> HIDE DEF k
    <3>1. Operation' = Operation /\ Operation = dev.ops[k]
      BY <1>2, <2>1, <2>2 DEF k
    <3>2. pc' # "finished" /\ pc' = "write" /\ recorded' = <<>> /\ outcome' = "none"
      BY <1>1, <2>1, EditingIs
    <3>3. \A i \in 1..applied :
            /\ dev.ops[i].new # dev.ops[i].original
            /\ \/ Disturbed(dev.ops[i].file, {"apply", "write"})
               \/ tree[dev.ops[i].file] = dev.ops[i].new
            /\ \A j \in 1..applied : j # i /\ dev.ops[j].file = dev.ops[i].file
                                       => Disturbed(dev.ops[i].file, {"apply", "write"})
      BY <1>1, EditingIs
    <3>4. applied' = applied
      BY <2>1
    <3> QED BY <1>1, <1>2, <2>2, <2>4, <2>5, <3>1, <3>2, <3>3, <3>4 DEF EditsAreAccounted
  <2>7. outcome' = "none" /\ recorded' = <<>>
    BY <1>1, <2>1, EditingIs
  <2>8. CompletedIsOnDisk' /\ CompletedTouchesAFileOnce' /\ RecordNamesTheEdits'
    BY <2>7 DEF CompletedIsOnDisk, CompletedTouchesAFileOnce, RecordNamesTheEdits
  <2>9. PlansAreOfTheTree'
    BY <1>1, <1>2, EditingIs, PlansStillHold
  <2>10. /\ tree' \in [Files -> Contents] /\ applied' \in 0..Len(dev.ops)
         /\ modified' \in Seq(Files) /\ Len(modified') <= applied'
    BY <1>1, <1>2, <2>1, EditingIs
  <2>11. UNCHANGED <<request, iterations, instruction, round, tests, causes, foreign, foreignEdits>>
    BY <1>1, <2>1 DEF world
  <2>12. /\ pc \in {"apply", "write"} /\ pc' \in {"apply", "write", "finished"}
         /\ outcome' \in {"none", "edit failed", "completed"}
    BY <1>1, <2>1, <2>7
  <2> QED BY <2>6, <2>8, <2>9, <2>10, <2>11, <2>12, EditingKeeps
<1>4. CASE ~ValidOperation
  <2>1. applied' = applied + 1 /\ UNCHANGED iterations /\ End("edit failed", FALSE, modified)
    BY <1>4 DEF ValidateEdit
  <2>2. tree' \in [Files -> Contents]
    BY <1>1, <1>2, EditingIs
  <2>3. UNCHANGED <<foreign, foreignEdits>>
    BY <1>1 DEF world
  <2> QED BY <1>1, <1>2, <2>1, <2>2, <2>3, EditFailedKeeps
<1> QED BY <1>3, <1>4

LEMMA WriteFailsKeeps ==
  ASSUME RepairInv, WriteFails
  PROVE  RepairInv'
<1>1. /\ pc = "write" /\ applied' = applied + 1 /\ UNCHANGED iterations
      /\ End("edit failed", FALSE, modified)
      /\ tree' = IF tree[Operation.file] \in {Missing, Binary} THEN tree
                 ELSE [tree EXCEPT ![Operation.file] = Blank]
      /\ UNCHANGED <<request, instruction, round, tests, causes, modified, foreign, foreignEdits>>
  BY DEF WriteFails
<1>2. applied < Len(dev.ops)
  BY <1>1 DEF RepairInv, EditsAreAccounted
<1>3. tree \in [Files -> Contents] /\ Blank \in Contents
  BY <1>1, EditingIs, ProjectsAssumption DEF Contents
<1>4. /\ tree' \in [Files -> Contents]
      /\ \A f \in Files : tree'[f] = tree[f] \/ (f = Operation.file /\ tree'[f] = Blank)
  BY <1>1, <1>3
<1> QED BY <1>1, <1>2, <1>4, EditFailedKeeps

\* The edit is made; one made before of the same file is known to have been disturbed.
LEMMA WriteKeeps ==
  ASSUME RepairInv, Write
  PROVE  RepairInv'
<1> DEFINE k == applied + 1
           f == dev.ops[k].file
<1>1. /\ pc = "write" /\ pc' = "apply" /\ applied' = k
      /\ tree' = [tree EXCEPT ![f] = dev.ops[k].new]
      /\ modified' = Append(modified, f)
      /\ UNCHANGED <<request, iterations, instruction, round, tests, causes, recorded, outcome,
                     foreign, foreignEdits>>
  BY DEF Write, Operation
<1>2. /\ applied < Len(dev.ops) /\ dev.ops[k].new # dev.ops[k].original
      /\ \A i \in 1..applied : dev.ops[i].file = f => Disturbed(f, {"apply", "write"})
  BY <1>1 DEF RepairInv, EditsAreAccounted, Operation
<1>3. plan' = plan /\ dev' = dev /\ foreign' = foreign
  BY <1>1 DEF round
<1>4. /\ applied \in 0..Len(dev.ops) /\ Len(dev.ops) \in Nat /\ Len(modified) \in Nat
      /\ DOMAIN dev.ops = 1..Len(dev.ops)
      /\ \A i \in 1..Len(dev.ops) : dev.ops[i].file \in Files /\ dev.ops[i].new \in Texts
      /\ modified \in Seq(Files) /\ Len(modified) <= applied /\ tree \in [Files -> Contents]
      /\ recorded = <<>> /\ outcome = "none"
  BY <1>1, EditingIs
<1>5. k \in 1..Len(dev.ops) /\ f \in Files /\ dev.ops[k].new \in Contents
  BY <1>2, <1>4 DEF Contents
<1> HIDE DEF f
<1>6. /\ modified' \in Seq(Files) /\ Len(modified') = Len(modified) + 1
      /\ f \in ToSet(modified') /\ \A g : g \in ToSet(modified) => g \in ToSet(modified')
  BY <1>1, <1>4, <1>5, Appended
<1>7. /\ tree' \in [Files -> Contents] /\ tree'[f] = dev.ops[k].new
      /\ \A g \in Files : g # f => tree'[g] = tree[g]
  BY <1>1, <1>4, <1>5
<1>8. \A g, w : Disturbed(g, w)' <=> Disturbed(g, w)
  BY <1>3 DEF Disturbed
<1>9. /\ applied' \in 0..Len(dev.ops) /\ Len(modified') <= applied'
      /\ \A i \in 1..applied' : i \in 1..applied \/ i = k
      /\ \A i \in 1..applied : i \in 1..Len(dev.ops)
  BY <1>1, <1>4, <1>5, <1>6
<1>10. PlansAreOfTheTree'
  <2>1. ASSUME NEW ops, HoldsOf(ops, modified, foreign, tree), \A i \in DOMAIN ops : ops[i].file \in Files
        PROVE  HoldsOf(ops, modified', foreign', tree')
    BY <1>3, <1>6, <1>7, <2>1 DEF HoldsOf
  <2>2. \A i \in DOMAIN plan.ops : plan.ops[i].file \in Files
    <3> DEFINE Edit == [file : Files, original : Texts, new : Texts]
    <3>1. \A x \in Edit : x.file \in Files
      OBVIOUS
    <3>2. plan.ops \in Seq(Edit)
      BY DEF RepairInv, RoundsAreInformed, TypeOK, Edits
    <3> HIDE DEF Edit
    <3> QED BY <3>1, <3>2
  <2>3. HoldsOf(plan.ops, modified, foreign, tree) /\ HoldsOf(dev.ops, modified, foreign, tree)
    BY <1>1, EditingIs
  <2> QED BY <1>3, <1>4, <2>1, <2>2, <2>3, PlansStillHold
<1>11. ASSUME NEW i \in 1..applied'
       PROVE  /\ dev.ops[i].new # dev.ops[i].original
              /\ \/ Disturbed(dev.ops[i].file, {"apply", "write"})
                 \/ tree'[dev.ops[i].file] = dev.ops[i].new
              /\ \A j \in 1..applied' : j # i /\ dev.ops[j].file = dev.ops[i].file
                                          => Disturbed(dev.ops[i].file, {"apply", "write"})
  <2>1. ASSUME NEW m \in 1..applied
        PROVE  /\ dev.ops[m].new # dev.ops[m].original
               /\ \/ Disturbed(dev.ops[m].file, {"apply", "write"})
                  \/ tree[dev.ops[m].file] = dev.ops[m].new
               /\ \A j \in 1..applied : j # m /\ dev.ops[j].file = dev.ops[m].file
                                          => Disturbed(dev.ops[m].file, {"apply", "write"})
    BY <1>1, EditingIs
  <2>2. dev.ops[k].file = f
    BY DEF f
  <2> HIDE DEF k
  <2>3. CASE i = k
    BY <1>2, <1>7, <1>9, <2>2, <2>3
  <2>4. CASE i \in 1..applied
    <3>1. dev.ops[i].file \in Files
      BY <1>4, <1>9, <2>4
    <3>2. CASE dev.ops[i].file = f
      BY <1>2, <2>1, <2>4, <3>2
    <3>3. CASE dev.ops[i].file # f
      BY <1>7, <1>9, <2>1, <2>2, <2>4, <3>1, <3>3
    <3> QED BY <3>2, <3>3
  <2> QED BY <1>9, <2>3, <2>4
<1> HIDE DEF k
<1>12. outcome' = "none" /\ recorded' = <<>> /\ pc' # "write" /\ pc' # "finished"
  BY <1>1, <1>4
<1>13. EditsAreAccounted'
  BY <1>3, <1>8, <1>11, <1>12 DEF EditsAreAccounted
<1>14. CompletedIsOnDisk' /\ CompletedTouchesAFileOnce' /\ RecordNamesTheEdits'
  BY <1>12 DEF CompletedIsOnDisk, CompletedTouchesAFileOnce, RecordNamesTheEdits
<1>15. UNCHANGED <<request, iterations, instruction, round, tests, causes, foreign, foreignEdits>>
  BY <1>1
<1>16. /\ pc \in {"apply", "write"} /\ pc' \in {"apply", "write", "finished"}
       /\ outcome' \in {"none", "edit failed", "completed"}
  BY <1>1, <1>12
<1> QED BY <1>6, <1>7, <1>9, <1>10, <1>13, <1>14, <1>15, <1>16, EditingKeeps

LEMMA CompleteKeeps ==
  ASSUME RepairInv, Complete
  PROVE  RepairInv'
<1>1. /\ pc = "apply" /\ applied = Len(dev.ops) /\ UNCHANGED iterations
      /\ End("completed", TRUE, modified)
      /\ UNCHANGED <<request, instruction, round, tests, causes, applied, modified, world>>
  BY DEF Complete
<1>2. /\ plan' = plan /\ dev' = dev /\ foreign' = foreign /\ tree' = tree /\ applied' = applied
      /\ modified' = modified
  BY <1>1 DEF round, world
<1>3. /\ applied \in 0..Len(dev.ops) /\ DOMAIN dev.ops = 1..applied
      /\ modified \in Seq(Files) /\ Len(modified) <= applied /\ tree \in [Files -> Contents]
      /\ recorded = <<>>
      /\ HoldsOf(plan.ops, modified, foreign, tree) /\ HoldsOf(dev.ops, modified, foreign, tree)
      /\ \A i \in 1..applied :
           /\ dev.ops[i].new # dev.ops[i].original
           /\ \/ Disturbed(dev.ops[i].file, {"apply", "write"})
              \/ tree[dev.ops[i].file] = dev.ops[i].new
           /\ \A j \in 1..applied : j # i /\ dev.ops[j].file = dev.ops[i].file
                                      => Disturbed(dev.ops[i].file, {"apply", "write"})
  BY <1>1, EditingIs
<1>4. /\ pc' = "finished" /\ outcome' = "completed"
      /\ recorded' # <<>> => recorded'[1].success = TRUE /\ recorded'[1].files = modified
  BY <1>1, <1>3, RecordedIs
<1>5. \A f, w : Disturbed(f, w)' <=> Disturbed(f, w)
  BY <1>2 DEF Disturbed
<1>6. PlansAreOfTheTree'
  BY <1>2, <1>3, PlansStillHold
<1>7. EditsAreAccounted'
  BY <1>2, <1>3, <1>4, <1>5 DEF EditsAreAccounted
<1>8. CompletedIsOnDisk' /\ CompletedTouchesAFileOnce'
  BY <1>2, <1>3, <1>5 DEF CompletedIsOnDisk, CompletedTouchesAFileOnce
<1>9. RecordNamesTheEdits'
  <2>1. \A i \in DOMAIN dev.ops :
          \/ dev.ops[i].file \in ToSet(modified)
          \/ Disturbed(dev.ops[i].file, Anywhere)
          \/ tree[dev.ops[i].file] = dev.ops[i].original
    BY <1>3 DEF HoldsOf, Disturbed
  <2> QED BY <1>2, <1>4, <1>5, <2>1 DEF RecordNamesTheEdits
<1>10. /\ UNCHANGED <<request, iterations, instruction, round, tests, causes, foreign, foreignEdits>>
       /\ pc \in {"apply", "write"} /\ pc' \in {"apply", "write", "finished"}
       /\ outcome' \in {"none", "edit failed", "completed"}
       /\ tree' \in [Files -> Contents] /\ applied' \in 0..Len(dev.ops)
       /\ modified' \in Seq(Files) /\ Len(modified') <= applied'
  BY <1>1, <1>2, <1>3, <1>4 DEF world
<1> QED BY <1>6, <1>7, <1>8, <1>9, <1>10, EditingKeeps

\* Somebody else's edit disturbs the file it is of, whatever the run is doing.
LEMMA ForeignEditKeeps ==
  ASSUME RepairInv, ForeignEdit
  PROVE  RepairInv'
<1>1. PICK f \in Files, t \in ForeignTexts :
        /\ tree' = [tree EXCEPT ![f] = t]
        /\ foreign' = foreign \cup {<<f, pc>>}
  BY DEF ForeignEdit
<1>2. pc # "finished" /\ UNCHANGED <<pc, request, iterations, instruction, round, tests, causes, result>>
  BY DEF ForeignEdit
<1>3. /\ pc' = pc /\ query' = query /\ maxIter' = maxIter /\ iterations' = iterations
      /\ tests' = tests /\ causes' = causes /\ applied' = applied /\ modified' = modified
      /\ recorded' = recorded /\ outcome' = outcome /\ instruction' = instruction /\ plan' = plan
      /\ dev' = dev /\ snapshot' = snapshot /\ context' = context
  BY <1>2 DEF request, result, round
<1>4. /\ TypeOK /\ RoundIsTheNext /\ ContextIsExact /\ FeedbackIsFresh /\ FailureHasACause
      /\ EditsFollowPassingTests /\ PlansAreOfTheTree /\ EditsAreAccounted
  BY DEF RepairInv, RoundsAreInformed
<1>5. pc \in Anywhere /\ tree \in [Files -> Contents] /\ foreign \in SUBSET (Files \X Anywhere)
  BY <1>2, <1>4 DEF TypeOK
<1>6. tree' \in [Files -> Contents] /\ \A g \in Files : g # f => tree'[g] = tree[g]
  BY <1>1, <1>5, ForeignAssumption
<1>7. foreign' \in SUBSET (Files \X Anywhere)
  BY <1>1, <1>5
<1>8. /\ \A g, w : Disturbed(g, w) => Disturbed(g, w)'
      /\ \A w : pc \in w => Disturbed(f, w)'
  <2>1. \A g, w : Disturbed(g, w) => Disturbed(g, w)'
    BY <1>1 DEF Disturbed
  <2>2. ASSUME NEW w, pc \in w
        PROVE  Disturbed(f, w)'
    <3>1. <<f, pc>> \in foreign' /\ <<f, pc>>[1] = f /\ <<f, pc>>[2] = pc
      BY <1>1
    <3> QED BY <2>2, <3>1 DEF Disturbed
  <2> QED BY <2>1, <2>2
<1>9. TypeOK'
  <2>1. foreignEdits' \in 0..MaxForeign
    <3>1. /\ foreignEdits \in 0..MaxForeign /\ foreignEdits < MaxForeign
          /\ foreignEdits' = foreignEdits + 1
      BY <1>4 DEF ForeignEdit, TypeOK
    <3>2. MaxForeign \in Nat
      BY ForeignAssumption
    <3> QED BY <3>1, <3>2
  <2> QED BY <1>3, <1>4, <1>6, <1>7, <2>1 DEF TypeOK
<1>10. RoundIsTheNext' /\ ContextIsExact' /\ FeedbackIsFresh' /\ FailureHasACause'
       /\ EditsFollowPassingTests'
  BY <1>3, <1>4 DEF RoundIsTheNext, ContextIsExact, FeedbackIsFresh, FailureHasACause,
                    EditsFollowPassingTests
<1>11. /\ \A i \in DOMAIN plan.ops : plan.ops[i].file \in Files
       /\ \A i \in DOMAIN dev.ops : dev.ops[i].file \in Files
       /\ DOMAIN dev.ops = 1..Len(dev.ops) /\ Len(dev.ops) \in Nat /\ applied \in 0..Len(dev.ops)
  <2> DEFINE Edit == [file : Files, original : Texts, new : Texts]
  <2>1. \A x \in Edit : x.file \in Files
    OBVIOUS
  <2>2. plan.ops \in Seq(Edit) /\ dev.ops \in Seq(Edit) /\ applied \in 0..Len(dev.ops)
    BY <1>4 DEF TypeOK, Developments, Edits
  <2> HIDE DEF Edit
  <2> QED BY <2>1, <2>2
<1>12. PlansAreOfTheTree'
  <2>1. ASSUME NEW ops \in {plan.ops, dev.ops}, NEW i \in DOMAIN ops
        PROVE  /\ \A j \in DOMAIN ops : ops[j].file = ops[i].file => ops[j].original = ops[i].original
               /\ \/ ops[i].file \in ToSet(modified)
                  \/ Disturbed(ops[i].file, Anywhere)'
                  \/ tree'[ops[i].file] = ops[i].original
    <3>1. /\ \A j \in DOMAIN ops : ops[j].file = ops[i].file => ops[j].original = ops[i].original
          /\ \/ ops[i].file \in ToSet(modified)
             \/ Disturbed(ops[i].file, Anywhere)
             \/ tree[ops[i].file] = ops[i].original
      BY <1>2, <1>4 DEF PlansAreOfTheTree
    <3>2. ops[i].file \in Files
      BY <1>11
    <3> QED BY <1>5, <1>6, <1>8, <3>1, <3>2
  <2> QED BY <1>3, <2>1 DEF PlansAreOfTheTree
<1>13. EditsAreAccounted'
  <2>1. recorded = <<>> /\ outcome = "none"
    BY <1>2, <1>4 DEF EditsAreAccounted
  <2>2. ASSUME pc \in {"apply", "write"}, NEW i \in 1..applied
        PROVE  /\ dev.ops[i].new # dev.ops[i].original
               /\ \/ Disturbed(dev.ops[i].file, {"apply", "write"})'
                  \/ tree'[dev.ops[i].file] = dev.ops[i].new
               /\ \A j \in 1..applied : j # i /\ dev.ops[j].file = dev.ops[i].file
                                          => Disturbed(dev.ops[i].file, {"apply", "write"})'
    <3>1. /\ dev.ops[i].new # dev.ops[i].original
          /\ \/ Disturbed(dev.ops[i].file, {"apply", "write"})
             \/ tree[dev.ops[i].file] = dev.ops[i].new
          /\ \A j \in 1..applied : j # i /\ dev.ops[j].file = dev.ops[i].file
                                     => Disturbed(dev.ops[i].file, {"apply", "write"})
      BY <1>4, <2>2 DEF EditsAreAccounted
    <3>2. dev.ops[i].file \in Files
      BY <1>11
    <3>3. \A g : Disturbed(g, {"apply", "write"}) => Disturbed(g, {"apply", "write"})'
      BY <1>8
    <3>4. CASE dev.ops[i].file = f
      <4>1. Disturbed(f, {"apply", "write"})'
        BY <1>8, <2>2, Zenon
      <4> QED BY <1>3, <3>1, <3>4, <4>1
    <3>5. CASE dev.ops[i].file # f
      BY <1>3, <1>6, <3>1, <3>2, <3>3, <3>5
    <3> QED BY <3>4, <3>5
  <2>0. Operation' = Operation
    BY <1>3 DEF Operation
  <2>3. ASSUME pc = "write"
        PROVE  /\ applied < Len(dev.ops) /\ Operation.new # Operation.original
               /\ \/ tree'[Operation.file] = Operation.original
                  \/ Disturbed(Operation.file, {"write"})'
               /\ \A i \in 1..applied : dev.ops[i].file = Operation.file
                                          => Disturbed(Operation.file, {"apply", "write"})'
    <3>1. /\ applied < Len(dev.ops) /\ Operation.new # Operation.original
          /\ tree[Operation.file] = Operation.original \/ Disturbed(Operation.file, {"write"})
          /\ \A i \in 1..applied : dev.ops[i].file = Operation.file
                                     => Disturbed(Operation.file, {"apply", "write"})
      BY <1>4, <2>3 DEF EditsAreAccounted
    <3>2. Operation.file \in Files
      <4>1. applied + 1 \in DOMAIN dev.ops
        BY <1>11, <3>1
      <4> QED BY <1>11, <4>1 DEF Operation
    <3>3. /\ \A g : Disturbed(g, {"apply", "write"}) => Disturbed(g, {"apply", "write"})'
          /\ \A g : Disturbed(g, {"write"}) => Disturbed(g, {"write"})'
      BY <1>8
    <3>4. CASE Operation.file = f
      <4>1. Disturbed(f, {"write"})' /\ Disturbed(f, {"apply", "write"})'
        BY <1>8, <2>3
      <4> QED BY <2>0, <3>1, <3>4, <4>1
    <3>5. CASE Operation.file # f
      BY <1>6, <2>0, <3>1, <3>2, <3>3, <3>5
    <3> QED BY <3>4, <3>5
  <2> QED BY <1>3, <2>0, <2>1, <2>2, <2>3 DEF EditsAreAccounted
<1>14. recorded' = <<>> /\ outcome' = "none"
  BY <1>2, <1>3, <1>4 DEF EditsAreAccounted
<1>15. CompletedIsOnDisk' /\ CompletedTouchesAFileOnce' /\ RecordNamesTheEdits'
  BY <1>14 DEF CompletedIsOnDisk, CompletedTouchesAFileOnce, RecordNamesTheEdits
<1> QED BY <1>9, <1>10, <1>12, <1>13, <1>15 DEF RepairInv, RoundsAreInformed
-----------------------------------------------------------------------------
(* The run as a whole                                                      *)

LEMMA RepairAtFirst ==
  ASSUME Init
  PROVE  RepairInv
<1>1. /\ pc = "decide" /\ query \in Queries /\ maxIter \in 1..MaxIterations /\ iterations = <<>>
      /\ instruction = Original /\ plan = NoPlan /\ dev = NoDev /\ tests = NoTests /\ causes = {}
      /\ applied = 0 /\ modified = <<>> /\ recorded = <<>> /\ outcome = "none"
      /\ tree \in Projects /\ foreign = {} /\ foreignEdits = 0
  BY DEF Init
<1>2. maxIter \in Nat /\ Len(iterations) < maxIter /\ Len(iterations) <= maxIter
  BY <1>1, IterationsAssumption
<1>3. /\ plan \in [success : BOOLEAN, ops : Edits] /\ dev \in Developments
      /\ instruction \in Instructions /\ plan.ops = <<>> /\ dev.ops = <<>>
  BY <1>1, NothingIsTyped DEF Plans
<1>4. TypeOK
  <2>1. tests \in [success : BOOLEAN, total : Nat, failed : Nat, errors : Nat]
        /\ tests.failed + tests.errors <= Max({tests.total, 1})
    <3>1. Max({0, 1}) = 1
      BY DEF Max
    <3> HIDE DEF Max
    <3> QED BY <1>1, <3>1 DEF NoTests
  <2>2. tree \in [Files -> Contents]
    BY <1>1, ProjectsAssumption
  <2>3. pc \in Anywhere
    BY <1>1 DEF Anywhere
  <2>4. applied \in 0..Len(dev.ops) /\ modified \in Seq(Files) /\ Len(modified) <= applied
    BY <1>1, <1>3
  <2>5. iterations \in Seq(Iterations) /\ causes \in SUBSET Causes /\ foreign \in SUBSET (Files \X Anywhere)
    BY <1>1
  <2>6. outcome \in {"none", "self-repair failed", "edit failed", "completed"}
    BY <1>1
  <2>7. foreignEdits \in 0..MaxForeign
    BY <1>1, ForeignAssumption
  <2> QED BY <1>1, <1>2, <1>3, <2>1, <2>2, <2>3, <2>4, <2>5, <2>6, <2>7 DEF TypeOK
<1>5. RoundIsTheNext
  BY <1>1, <1>2 DEF RoundIsTheNext
<1>6. ContextIsExact /\ FeedbackIsFresh /\ FailureHasACause
  BY <1>1 DEF ContextIsExact, FeedbackIsFresh, FailureHasACause
<1>7. EditsFollowPassingTests
  <2>1. ~(applied > 0) /\ pc \notin {"apply", "write"} /\ outcome # "self-repair failed"
    BY <1>1
  <2> QED BY <2>1 DEF EditsFollowPassingTests
<1>8. PlansAreOfTheTree
  BY <1>3 DEF PlansAreOfTheTree
<1>9. EditsAreAccounted
  BY <1>1 DEF EditsAreAccounted
<1>10. CompletedIsOnDisk /\ CompletedTouchesAFileOnce /\ RecordNamesTheEdits
  BY <1>1 DEF CompletedIsOnDisk, CompletedTouchesAFileOnce, RecordNamesTheEdits
<1> QED BY <1>4, <1>5, <1>6, <1>7, <1>8, <1>9, <1>10 DEF RepairInv, RoundsAreInformed

LEMMA RepairStutters ==
  ASSUME RepairInv, UNCHANGED vars
  PROVE  RepairInv'
<1>1. /\ pc' = pc /\ query' = query /\ maxIter' = maxIter /\ iterations' = iterations
      /\ tests' = tests /\ causes' = causes /\ applied' = applied /\ modified' = modified
      /\ recorded' = recorded /\ outcome' = outcome /\ instruction' = instruction /\ plan' = plan
      /\ dev' = dev /\ snapshot' = snapshot /\ context' = context /\ tree' = tree /\ foreign' = foreign
      /\ foreignEdits' = foreignEdits
  BY DEF vars, request, result, round, world
<1>2. \A f, w : Disturbed(f, w)' <=> Disturbed(f, w)
  BY <1>1 DEF Disturbed
<1>3. Operation' = Operation
  BY <1>1 DEF Operation
<1>4. RoundsAreInformed'
  <2>1. TypeOK'
    BY <1>1 DEF RepairInv, RoundsAreInformed, TypeOK
  <2>2. RoundIsTheNext'
    BY <1>1 DEF RepairInv, RoundsAreInformed, RoundIsTheNext
  <2>3. ContextIsExact'
    BY <1>1 DEF RepairInv, RoundsAreInformed, ContextIsExact
  <2>4. FeedbackIsFresh' /\ FailureHasACause' /\ EditsFollowPassingTests'
    BY <1>1 DEF RepairInv, RoundsAreInformed, FeedbackIsFresh, FailureHasACause,
                EditsFollowPassingTests
  <2> QED BY <2>1, <2>2, <2>3, <2>4 DEF RoundsAreInformed
<1>5. PlansAreOfTheTree'
  BY <1>1, <1>2 DEF RepairInv, PlansAreOfTheTree
<1>6. EditsAreAccounted'
  BY <1>1, <1>2, <1>3 DEF RepairInv, EditsAreAccounted
<1>7. CompletedIsOnDisk' /\ CompletedTouchesAFileOnce'
  BY <1>1, <1>2 DEF RepairInv, CompletedIsOnDisk, CompletedTouchesAFileOnce
<1>8. RecordNamesTheEdits'
  BY <1>1, <1>2 DEF RepairInv, RecordNamesTheEdits
<1> QED BY <1>4, <1>5, <1>6, <1>7, <1>8 DEF RepairInv

LEMMA RepairStepKeeps ==
  ASSUME RepairInv, [Next]_vars
  PROVE  RepairInv'
<1>1. CASE Develop
  BY <1>1, DecideKeeps, CreatePlanKeeps, AnalyzeKeeps, PrepareKeeps, ProposeKeeps,
     ProposalFailsKeeps, GenerateKeeps, ValidateKeeps DEF Develop
<1>2. CASE Execute
  BY <1>2, TestKeeps, ValidateEditKeeps, WriteKeeps, WriteFailsKeeps, CompleteKeeps DEF Execute
<1>3. CASE ForeignEdit
  BY <1>3, ForeignEditKeeps
<1>4. CASE UNCHANGED vars
  BY <1>4, RepairStutters
<1> QED BY <1>1, <1>2, <1>3, <1>4 DEF Next

\* The inductive invariant of AutonomousExecutor.run and SelfRepairEngine.run.
THEOREM RepairInvariant == Spec => []RepairInv
<1>1. Init => RepairInv
  BY RepairAtFirst
<1>2. RepairInv /\ [Next]_vars => RepairInv'
  BY RepairStepKeeps
<1> QED BY <1>1, <1>2, PTL DEF Spec

\* What a round is told and shown, and when edits follow it: SelfRepairEngine.run hands
\* the causes of the round before to the strategy, and no round's plan is applied before
\* its tests passed.
THEOREM RoundsInformed == Spec => []RoundsAreInformed
<1>1. RepairInv => RoundsAreInformed
  BY DEF RepairInv
<1> QED BY <1>1, RepairInvariant, PTL

\* What EditApplier overwrites had been compared with the plan, or was edited between the
\* comparison and the write.
LEMMA OverwrittenWasCompared ==
  ASSUME RepairInv, [Next]_vars
  PROVE  \A f \in Files :
           pc = "write" /\ tree'[f] # tree[f] /\ foreignEdits' = foreignEdits
             => tree[f] = Operation.original \/ Disturbed(f, {"write"})
<1> SUFFICES ASSUME NEW f \in Files, pc = "write", tree'[f] # tree[f], foreignEdits' = foreignEdits
             PROVE  tree[f] = Operation.original \/ Disturbed(f, {"write"})
  OBVIOUS
<1>1. tree[Operation.file] = Operation.original \/ Disturbed(Operation.file, {"write"})
  BY DEF RepairInv, EditsAreAccounted
<1>2. ASSUME f # Operation.file
      PROVE  tree'[f] = tree[f]
  <2>1. tree \in [Files -> Contents]
    BY EditingIs
  <2>2. tree' # tree
    OBVIOUS
  <2>3. ~Develop
    BY DEF Develop, Decide, CreatePlan, PlanningFails, Analyze, Prepare, Propose, ProposalFails,
           Generate, Validate, RunRules
  <2>4. ~ForeignEdit
    <3>1. ForeignEdit => foreignEdits' = foreignEdits + 1
      BY DEF ForeignEdit
    <3>2. foreignEdits \in 0..MaxForeign
      BY DEF RepairInv, RoundsAreInformed, TypeOK
    <3>3. foreignEdits \in Int
      BY <3>2
    <3> QED BY <3>1, <3>3
  <2>5. ~UNCHANGED vars
    BY <2>2 DEF vars, world
  <2>6. Execute
    BY <2>3, <2>4, <2>5 DEF Next
  <2>7. Write \/ WriteFails
    BY <2>6 DEF Execute, Test, ValidateEdit, Complete
  <2> QED BY <1>2, <2>1, <2>7 DEF Write, WriteFails
<1> QED BY <1>1, <1>2

\* An execution reports and records what became of the project.
THEOREM OutcomesTrue == Spec => OutcomesAreTrue
<1> DEFINE True == /\ PlansAreOfTheTree /\ EditsAreAccounted
                   /\ CompletedIsOnDisk /\ CompletedTouchesAFileOnce /\ RecordNamesTheEdits
           Survive == \A f \in Files :
                        pc = "write" /\ tree'[f] # tree[f] /\ foreignEdits' = foreignEdits
                          => tree[f] = Operation.original \/ Disturbed(f, {"write"})
<1>1. RepairInv => True
  BY DEF RepairInv
<1>2. RepairInv /\ [Next]_vars => [Survive]_vars
  BY OverwrittenWasCompared
<1> HIDE DEF True, Survive
<1>3. Spec => []True
  BY <1>1, RepairInvariant, PTL
<1>4. Spec => [][Survive]_vars
  BY <1>2, RepairInvariant, PTL DEF Spec
<1> QED BY <1>3, <1>4 DEF OutcomesAreTrue, ForeignEditsSurvive, True, Survive
-----------------------------------------------------------------------------
(* Texts cut and joined                                                    *)

\* The lines from i on, before j.
Cut(s, i, j) == SubSeq(s, i, j - 1)
Full(s) == 1..(Len(s) + 1)

LEMMA CutIs ==
  ASSUME NEW S, NEW s \in Seq(S), NEW i \in Full(s), NEW j \in Full(s), i <= j
  PROVE  /\ Cut(s, i, j) \in Seq(S) /\ Len(Cut(s, i, j)) = j - i
         /\ \A k \in 1..(j - i) : Cut(s, i, j)[k] = s[i + k - 1]
<1>1. i \in Int /\ j - 1 \in Int /\ \A k \in i..(j - 1) : s[k] \in S
  BY DEF Full
<1>2. /\ Cut(s, i, j) \in Seq(S)
      /\ Len(Cut(s, i, j)) = IF i <= j - 1 THEN (j - 1) - i + 1 ELSE 0
      /\ \A k \in 1..((j - 1) - i + 1) : Cut(s, i, j)[k] = s[i + k - 1]
  BY <1>1, SubSeqProperties DEF Cut
<1>3. /\ (j - 1) - i + 1 = j - i
      /\ (IF i <= j - 1 THEN (j - 1) - i + 1 ELSE 0) = j - i
  BY <1>1
<1>4. Len(Cut(s, i, j)) = j - i
  BY <1>2, <1>3, Zenon
<1>5. \A k \in 1..(j - i) : Cut(s, i, j)[k] = s[i + k - 1]
  BY <1>2, <1>3, Zenon
<1> QED BY <1>2, <1>4, <1>5, Zenon

LEMMA CutsJoin ==
  ASSUME NEW S, NEW s \in Seq(S), NEW i \in Full(s), NEW j \in Full(s), NEW k \in Full(s), i <= j, j <= k
  PROVE  Cut(s, i, j) \o Cut(s, j, k) = Cut(s, i, k)
<1>1. i \in 1..(Len(s) + 1) /\ j - 1 \in (i - 1)..Len(s) /\ k - 1 \in (j - 1)..Len(s) /\ (j - 1) + 1 = j
  BY DEF Full
<1>2. SubSeq(s, i, j - 1) \o SubSeq(s, (j - 1) + 1, k - 1) = SubSeq(s, i, k - 1)
  BY <1>1, ConcatAdjacentSubSeq
<1> QED BY <1>1, <1>2 DEF Cut

LEMMA FrontOf ==
  ASSUME NEW S, NEW s \in Seq(S), NEW t \in Seq(S), NEW j \in Full(s)
  PROVE  Cut(s \o t, 1, j) = Cut(s, 1, j)
<1>1. /\ s \o t \in Seq(S) /\ Len(s \o t) = Len(s) + Len(t) /\ Len(s) \in Nat /\ Len(t) \in Nat
      /\ \A i \in 1..(Len(s) + Len(t)) : (s \o t)[i] = IF i <= Len(s) THEN s[i] ELSE t[i - Len(s)]
  BY ConcatProperties
<1>2. 1 \in Full(s \o t) /\ j \in Full(s \o t) /\ 1 \in Full(s) /\ 1 <= j /\ j \in Int /\ j - 1 <= Len(s)
  BY <1>1 DEF Full
<1>3. /\ Cut(s \o t, 1, j) \in Seq(S) /\ Len(Cut(s \o t, 1, j)) = j - 1
      /\ \A k \in 1..(j - 1) : Cut(s \o t, 1, j)[k] = (s \o t)[1 + k - 1]
  BY <1>1, <1>2, CutIs, ZenonT(60)
<1>4. /\ Cut(s, 1, j) \in Seq(S) /\ Len(Cut(s, 1, j)) = j - 1
      /\ \A k \in 1..(j - 1) : Cut(s, 1, j)[k] = s[1 + k - 1]
  BY <1>2, CutIs
<1>5. \A k \in 1..(j - 1) : Cut(s \o t, 1, j)[k] = Cut(s, 1, j)[k]
  <2> TAKE k \in 1..(j - 1)
  <2>1. k \in 1..(Len(s) + Len(t)) /\ k <= Len(s) /\ 1 + k - 1 = k
    BY <1>1, <1>2
  <2> QED BY <1>1, <1>3, <1>4, <2>1
<1> QED BY <1>3, <1>4, <1>5, SeqEqual

LEMMA BackOf ==
  ASSUME NEW S, NEW s \in Seq(S), NEW t \in Seq(S)
  PROVE  Cut(s \o t, Len(s) + 1, Len(s \o t) + 1) = t
<1>1. /\ s \o t \in Seq(S) /\ Len(s \o t) = Len(s) + Len(t) /\ Len(s) \in Nat /\ Len(t) \in Nat
      /\ \A i \in 1..(Len(s) + Len(t)) : (s \o t)[i] = IF i <= Len(s) THEN s[i] ELSE t[i - Len(s)]
  BY ConcatProperties
<1> DEFINE i == Len(s) + 1
           j == Len(s \o t) + 1
<1>2. i \in Full(s \o t) /\ j \in Full(s \o t) /\ i <= j /\ j - i = Len(t)
  BY <1>1 DEF Full
<1>3. /\ Cut(s \o t, i, j) \in Seq(S) /\ Len(Cut(s \o t, i, j)) = Len(t)
      /\ \A k \in 1..Len(t) : Cut(s \o t, i, j)[k] = (s \o t)[i + k - 1]
  <2> HIDE DEF i, j
  <2>1. \A u \in Seq(S) : i \in Full(u) /\ j \in Full(u) /\ i <= j =>
          /\ Cut(u, i, j) \in Seq(S) /\ Len(Cut(u, i, j)) = j - i
          /\ \A k \in 1..(j - i) : Cut(u, i, j)[k] = u[i + k - 1]
    BY CutIs
  <2> QED BY <1>1, <1>2, <2>1
<1>4. \A k \in 1..Len(t) : Cut(s \o t, i, j)[k] = t[k]
  <2> TAKE k \in 1..Len(t)
  <2>1. i + k - 1 \in 1..(Len(s) + Len(t)) /\ ~(i + k - 1 <= Len(s)) /\ (i + k - 1) - Len(s) = k
    BY <1>1
  <2> QED BY <1>1, <1>3, <2>1
<1> QED BY <1>3, <1>4, SeqEqual

-----------------------------------------------------------------------------
(* Pieces put into a text                                                  *)

\* What b has from c[3] on in place of what t has from c[1] on.
PutIn(t, b, c) == (Cut(t, 1, c[1]) \o Cut(b, c[3], c[4])) \o Cut(t, c[2], Len(t) + 1)
\* The ranges of two texts.
Ranges(a, b) ==
  {r \in Full(a) \X Full(a) \X Full(b) \X Full(b) : r[1] <= r[2] /\ r[3] <= r[4]}
\* Putting in what is at cs, from the last to the first, makes u of t.
Leads(S, cs, b, t, u) ==
  \E s \in [0..Len(cs) -> Seq(S)] :
    /\ s[0] = t /\ s[Len(cs)] = u
    /\ \A k \in 1..Len(cs) : s[k] = PutIn(s[k - 1], b, cs[Len(cs) + 1 - k])

LEMMA RangesAre ==
  ASSUME NEW S, NEW a \in Seq(S), NEW b \in Seq(S), NEW r \in Ranges(a, b)
  PROVE  /\ r[1] \in Full(a) /\ r[2] \in Full(a) /\ r[3] \in Full(b) /\ r[4] \in Full(b)
         /\ r[1] \in Int /\ r[2] \in Int /\ r[3] \in Int /\ r[4] \in Int
         /\ 1 <= r[1] /\ r[1] <= r[2] /\ r[2] <= Len(a) + 1 /\ 1 <= r[3] /\ r[3] <= r[4] /\ r[4] <= Len(b) + 1
         /\ r = <<r[1], r[2], r[3], r[4]>>
         /\ 1 \in Full(a) /\ 1 \in Full(b) /\ Len(a) + 1 \in Full(a) /\ Len(b) + 1 \in Full(b)
         /\ Len(a) \in Nat /\ Len(b) \in Nat
<1>1. r \in Full(a) \X Full(a) \X Full(b) \X Full(b) /\ r[1] <= r[2] /\ r[3] <= r[4]
  BY DEF Ranges
<1>2. Len(a) \in Nat /\ Len(b) \in Nat
  OBVIOUS
<1>3. /\ r[1] \in Full(a) /\ r[2] \in Full(a) /\ r[3] \in Full(b) /\ r[4] \in Full(b)
      /\ r = <<r[1], r[2], r[3], r[4]>>
  BY <1>1
<1> QED BY <1>1, <1>2, <1>3 DEF Full

LEMMA RangeIs ==
  ASSUME NEW S, NEW a \in Seq(S), NEW b \in Seq(S), NEW i \in Full(a), NEW j \in Full(a),
         NEW k \in Full(b), NEW l \in Full(b), i <= j, k <= l
  PROVE  <<i, j, k, l>> \in Ranges(a, b)
BY DEF Ranges

LEMMA PutInIs ==
  ASSUME NEW S, NEW a \in Seq(S), NEW b \in Seq(S), NEW c \in Ranges(a, b), NEW x \in Seq(S)
  PROVE  PutIn(Cut(a, 1, c[2]) \o x, b, c) = Cut(a, 1, c[1]) \o (Cut(b, c[3], c[4]) \o x)
<1>1. /\ c[1] \in Full(a) /\ c[2] \in Full(a) /\ c[3] \in Full(b) /\ c[4] \in Full(b)
      /\ c[1] \in Int /\ c[2] \in Int /\ 1 <= c[1] /\ c[1] <= c[2] /\ c[3] <= c[4]
      /\ 1 \in Full(a)
  BY RangesAre
<1> DEFINE f == Cut(a, 1, c[2])
           t == f \o x
<1>2. f \in Seq(S) /\ Len(f) = c[2] - 1
  <2>1. 1 <= c[2]
    BY <1>1
  <2> QED BY <1>1, <2>1, CutIs
<1>3. Cut(a, 1, c[1]) \in Seq(S) /\ Cut(b, c[3], c[4]) \in Seq(S)
  BY <1>1, CutIs
<1>4. Cut(t, 1, c[1]) = Cut(a, 1, c[1])
  <2>1. c[1] \in Full(f)
    BY <1>1, <1>2, SMTT(60) DEF Full
  <2>2. Cut(t, 1, c[1]) = Cut(f, 1, c[1])
    <3> HIDE DEF f
    <3> QED BY <1>2, <2>1, FrontOf
  <2>3. a = Cut(a, 1, c[2]) \o Cut(a, c[2], Len(a) + 1)
    <3>1. Len(a) + 1 \in Full(a) /\ 1 <= c[2] /\ c[2] <= Len(a) + 1 /\ Len(a) \in Nat
      BY <1>1, RangesAre
    <3>2. Cut(a, 1, c[2]) \o Cut(a, c[2], Len(a) + 1) = Cut(a, 1, Len(a) + 1)
      BY <1>1, <3>1, CutsJoin
    <3>3. Cut(a, 1, Len(a) + 1) = a
      <4>1. Len(a) + 1 - 1 = Len(a)
        BY <3>1
      <4> QED BY <4>1, SubSeqFull DEF Cut
    <3> QED BY <3>2, <3>3
  <2>4. Cut(a, c[2], Len(a) + 1) \in Seq(S)
    <3>1. Len(a) + 1 \in Full(a) /\ c[2] <= Len(a) + 1
      BY <1>1, RangesAre
    <3> QED BY <1>1, <3>1, CutIs
  <2>5. Cut(a, 1, c[1]) = Cut(f, 1, c[1])
    <3> DEFINE g == Cut(a, c[2], Len(a) + 1)
    <3>1. a = f \o g /\ g \in Seq(S)
      BY <2>3, <2>4
    <3> HIDE DEF f, g
    <3>2. Cut(f \o g, 1, c[1]) = Cut(f, 1, c[1])
      BY <1>2, <2>1, <3>1, FrontOf
    <3> QED BY <3>1, <3>2
  <2> QED BY <2>2, <2>5
<1>5. Cut(t, c[2], Len(t) + 1) = x
  <2>1. Len(f) + 1 = c[2]
    BY <1>1, <1>2
  <2> HIDE DEF f
  <2>2. Cut(f \o x, Len(f) + 1, Len(f \o x) + 1) = x
    BY <1>2, BackOf
  <2> QED BY <2>1, <2>2
<1>6. PutIn(t, b, c) = (Cut(a, 1, c[1]) \o Cut(b, c[3], c[4])) \o x
  BY <1>4, <1>5 DEF PutIn
<1>7. \A y, z \in Seq(S) : (y \o z) \o x = y \o (z \o x)
  BY ConcatAssociative, SMTT(60)
<1> HIDE DEF t, f
<1>8. t = Cut(a, 1, c[2]) \o x
  BY DEF t, f
<1> QED BY <1>3, <1>6, <1>7, <1>8

LEMMA LeadsOn ==
  ASSUME NEW S, NEW b, NEW R, NEW cs \in Seq(R), NEW ds \in Seq(R), NEW t, NEW u, NEW v,
         Leads(S, ds, b, t, u), Leads(S, cs, b, u, v)
  PROVE  Leads(S, cs \o ds, b, t, v)
<1> DEFINE m == Len(ds)
           n == Len(cs)
<1>1. /\ cs \o ds \in Seq(R) /\ Len(cs \o ds) = n + m /\ n \in Nat /\ m \in Nat
      /\ \A i \in 1..(n + m) : (cs \o ds)[i] = IF i <= n THEN cs[i] ELSE ds[i - n]
  BY ConcatProperties
<1>2. PICK p \in [0..m -> Seq(S)] : /\ p[0] = t /\ p[m] = u
                                    /\ \A k \in 1..m : p[k] = PutIn(p[k - 1], b, ds[m + 1 - k])
  BY DEF Leads
<1>3. PICK q \in [0..n -> Seq(S)] : /\ q[0] = u /\ q[n] = v
                                    /\ \A k \in 1..n : q[k] = PutIn(q[k - 1], b, cs[n + 1 - k])
  BY DEF Leads
<1> DEFINE s == [k \in 0..(n + m) |-> IF k <= m THEN p[k] ELSE q[k - m]]
<1> HIDE DEF m, n
<1>4. s \in [0..(n + m) -> Seq(S)]
  <2>1. \A k \in 0..(n + m) : s[k] \in Seq(S)
    <3> TAKE k \in 0..(n + m)
    <3>1. CASE k <= m
      <4>1. k \in 0..m
        BY <1>1, <3>1
      <4> QED BY <3>1, <4>1
    <3>2. CASE ~(k <= m)
      <4>1. k - m \in 0..n
        BY <1>1, <3>2
      <4> QED BY <3>2, <4>1
    <3> QED BY <3>1, <3>2
  <2> QED BY <2>1
<1>5. s[0] = t /\ s[n + m] = v
  <2>1. s[0] = t
    BY <1>1, <1>2
  <2>2. CASE n = 0
    BY <1>1, <1>2, <1>3, <2>2
  <2>3. CASE n # 0
    <3>1. ~(n + m <= m) /\ (n + m) - m = n /\ n + m \in 0..(n + m)
      BY <1>1, <2>3
    <3> QED BY <1>3, <2>1, <3>1
  <2> QED BY <2>1, <2>2, <2>3
<1>6. ASSUME NEW k \in 1..(n + m)
      PROVE  s[k] = PutIn(s[k - 1], b, (cs \o ds)[n + m + 1 - k])
  <2>1. CASE k <= m
    <3>1. /\ k \in 1..m /\ k - 1 \in 0..(n + m) /\ k - 1 <= m
          /\ n + m + 1 - k \in 1..(n + m) /\ ~(n + m + 1 - k <= n)
          /\ n + m + 1 - k - n = m + 1 - k
      BY <1>1, <2>1
    <3>2. s[k] = p[k] /\ s[k - 1] = p[k - 1] /\ (cs \o ds)[n + m + 1 - k] = ds[m + 1 - k]
      <4>1. \A i \in 1..(n + m) : ~(i <= n) => (cs \o ds)[i] = ds[i - n]
        BY <1>1
      <4> DEFINE i == n + m + 1 - k
      <4>2. i \in 1..(n + m) /\ ~(i <= n) /\ i - n = m + 1 - k
        BY <1>1, <3>1
      <4> HIDE DEF i
      <4>3. (cs \o ds)[i] = ds[m + 1 - k]
        BY <4>1, <4>2
      <4> QED BY <2>1, <3>1, <4>3 DEF i
    <3> QED BY <1>2, <3>1, <3>2
  <2>2. CASE ~(k <= m)
    <3>1. /\ k - m \in 1..n /\ k - 1 \in 0..(n + m)
          /\ n + m + 1 - k \in 1..(n + m) /\ n + m + 1 - k <= n
          /\ n + m + 1 - k = n + 1 - (k - m)
      BY <1>1, <2>2
    <3>2. (cs \o ds)[n + m + 1 - k] = cs[n + 1 - (k - m)]
      BY <1>1, <3>1
    <3>3. s[k - 1] = q[(k - m) - 1]
      <4>1. CASE k - 1 = m
        <5>1. (k - m) - 1 = 0 /\ k - 1 <= m
          BY <1>1, <4>1
        <5> QED BY <1>2, <1>3, <3>1, <4>1, <5>1
      <4>2. CASE k - 1 # m
        <5>1. ~(k - 1 <= m) /\ (k - 1) - m = (k - m) - 1
          BY <1>1, <2>2, <4>2, SMTT(60)
        <5> QED BY <3>1, <5>1
      <4> QED BY <4>1, <4>2
    <3>4. s[k] = q[k - m]
      BY <2>2
    <3> QED BY <1>3, <3>1, <3>2, <3>3, <3>4
  <2> QED BY <2>1, <2>2
<1>7. Len(cs \o ds) = n + m
  BY <1>1
<1> HIDE DEF s
<1> QED BY <1>4, <1>5, <1>6, <1>7, ZenonT(60) DEF Leads

-----------------------------------------------------------------------------
(* The blocks two texts have in common                                     *)

LEMMA MostOf ==
  ASSUME NEW n \in Nat, NEW S \in SUBSET (0..n), S # {}
  PROVE  Max(S) \in S /\ \A x \in S : x <= Max(S)
<1>1. \E x \in S : \A y \in S : x >= y
  <2> DEFINE R == {n - x : x \in S}
  <2>1. R \in SUBSET Nat /\ R # {}
    <3>1. \A x \in S : n - x \in Nat
      OBVIOUS
    <3> QED BY <3>1
  <2>2. Min(R) \in R /\ \A x \in R : Min(R) <= x
    <3> HIDE DEF R
    <3> QED BY <2>1, First
  <2>3. PICK m \in S : Min(R) = n - m
    BY <2>2
  <2>4. \A x \in S : n - m <= n - x
    BY <2>2, <2>3
  <2> QED BY <2>4
<1>2. Max(S) \in S /\ \A y \in S : Max(S) >= y
  BY <1>1 DEF Max
<1> QED BY <1>2

\* No line of the one is a line of the other.
Strangers(a, alo, ahi, b, blo, bhi) == \A x \in alo..(ahi - 1), y \in blo..(bhi - 1) : a[x] # b[y]
Apart(a, b, r) == Strangers(a, r[1], r[2], b, r[3], r[4])

LEMMA BlockIs ==
  ASSUME NEW S, NEW a \in Seq(S), NEW b \in Seq(S), NEW alo \in Int, NEW ahi \in Int,
         NEW blo \in Int, NEW bhi \in Int, 1 <= alo, alo <= ahi, ahi <= Len(a) + 1,
         1 <= blo, blo <= bhi, bhi <= Len(b) + 1, NEW m, m = Common(a, alo, ahi, b, blo, bhi)
  PROVE  /\ m[1] \in alo..ahi /\ m[2] \in blo..bhi /\ m[3] \in Nat
         /\ m[1] + m[3] <= ahi /\ m[2] + m[3] <= bhi
         /\ Cut(a, m[1], m[1] + m[3]) = Cut(b, m[2], m[2] + m[3])
         /\ m[3] = 0 => Strangers(a, alo, ahi, b, blo, bhi)
<1> DEFINE same(i, j, k) == /\ i + k <= ahi /\ j + k <= bhi
                            /\ SubSeq(a, i, i + k - 1) = SubSeq(b, j, j + k - 1)
           K == {k \in 0..(ahi - alo) : \E i \in alo..ahi, j \in blo..bhi : same(i, j, k)}
           n == Max(K)
           I == {i \in alo..ahi : \E j \in blo..bhi : same(i, j, n)}
           J == {j \in blo..bhi : same(Min(I), j, n)}
<1>0. Len(a) \in Nat /\ Len(b) \in Nat
  BY SMTT(60)
<1>1. m = <<Min(I), Min(J), n>>
  BY DEF Common
<1>2. n \in K /\ \A k \in K : k <= n
  <2>1. same(alo, blo, 0)
    <3>1. SubSeq(a, alo, alo + 0 - 1) = <<>> /\ SubSeq(b, blo, blo + 0 - 1) = <<>>
      <4>1. alo + 0 - 1 \in Int /\ alo + 0 - 1 < alo /\ blo + 0 - 1 \in Int /\ blo + 0 - 1 < blo
        BY <1>0
      <4> QED BY <1>0, <4>1, SubSeqEmpty
    <3> QED BY <1>0, <3>1
  <2>2. 0 \in K
    <3> HIDE DEF same
    <3>1. 0 \in 0..(ahi - alo) /\ alo \in alo..ahi /\ blo \in blo..bhi
      BY <1>0
    <3> QED BY <2>1, <3>1
  <2>3. ahi - alo \in Nat
    BY <1>0
  <2>4. K \in SUBSET (0..(ahi - alo))
    OBVIOUS
  <2> HIDE DEF K
  <2> QED BY <2>2, <2>3, <2>4, MostOf
<1>3. n \in 0..(ahi - alo) /\ \E i \in alo..ahi, j \in blo..bhi : same(i, j, n)
  <2> HIDE DEF n, same
  <2> QED BY <1>2
<1> HIDE DEF n
<1>4. Min(I) \in I
  <2>1. I # {}
    <3> HIDE DEF same
    <3> QED BY <1>3
  <2>2. I \in SUBSET Nat
    BY <1>0
  <2> HIDE DEF I
  <2> QED BY <2>1, <2>2, First
<1>5. Min(I) \in alo..ahi /\ \E j \in blo..bhi : same(Min(I), j, n)
  <2> DEFINE i == Min(I)
  <2>1. i \in I
    BY <1>4
  <2> HIDE DEF i, same
  <2>2. i \in alo..ahi /\ \E j \in blo..bhi : same(i, j, n)
    BY <2>1
  <2> QED BY <2>2 DEF i
<1>6. Min(J) \in J
  <2> DEFINE i == Min(I)
  <2> HIDE DEF i
  <2>1. i \in alo..ahi /\ \E j \in blo..bhi : same(i, j, n)
    BY <1>5 DEF i
  <2>2. J = {j \in blo..bhi : same(i, j, n)}
    BY DEF i
  <2>3. J # {}
    <3> HIDE DEF same
    <3> QED BY <2>1, <2>2
  <2>4. J \in SUBSET Nat
    BY <1>0, SMTT(60)
  <2> HIDE DEF J
  <2> QED BY <2>3, <2>4, First
<1>7. Min(J) \in blo..bhi /\ same(Min(I), Min(J), n)
  <2> DEFINE i == Min(I)
             j == Min(J)
  <2>1. j \in J
    BY <1>6
  <2>2. J = {x \in blo..bhi : same(i, x, n)}
    OBVIOUS
  <2> HIDE DEF i, j, J, same
  <2>3. j \in blo..bhi /\ same(i, j, n)
    BY <2>1, <2>2
  <2> QED BY <2>3 DEF i, j
<1>8. /\ m[1] \in alo..ahi /\ m[2] \in blo..bhi /\ m[3] \in 0..(ahi - alo)
      /\ same(m[1], m[2], m[3]) /\ m[3] = n
  <2> DEFINE i == Min(I)
             j == Min(J)
  <2>1. i \in alo..ahi /\ j \in blo..bhi /\ same(i, j, n) /\ m = <<i, j, n>>
    BY <1>1, <1>5, <1>7
  <2> HIDE DEF i, j
  <2> QED BY <1>3, <2>1, SMTT(60)
<1>9. m[3] = 0 => Strangers(a, alo, ahi, b, blo, bhi)
  <2> SUFFICES ASSUME m[3] = 0, NEW x \in alo..(ahi - 1), NEW y \in blo..(bhi - 1), a[x] = b[y]
               PROVE  FALSE
    BY DEF Strangers
  <2>1. x \in 1..Len(a) /\ y \in 1..Len(b) /\ x \in Int /\ y \in Int /\ x + (1 - 1) = x /\ y + (1 - 1) = y
        /\ x + 1 <= ahi /\ y + 1 <= bhi
    <3> HIDE DEF K, I, J, same
    <3>1. x \in Int /\ alo <= x /\ x <= ahi - 1
      BY <1>0
    <3>2. y \in Int /\ blo <= y /\ y <= bhi - 1
      BY <1>0
    <3>3. x \in 1..Len(a)
      BY <1>0, <3>1
    <3>4. y \in 1..Len(b)
      BY <1>0, <3>2
    <3>5. x + (1 - 1) = x /\ y + (1 - 1) = y
      BY <3>1, <3>2
    <3>6. x + 1 <= ahi /\ y + 1 <= bhi
      BY <1>0, <3>1, <3>2
    <3> QED BY <3>1, <3>2, <3>3, <3>4, <3>5, <3>6
  <2>2. SubSeq(a, x, x) = SubSeq(b, y, y)
    <3>1. a[x] \in S /\ b[y] \in S
      BY <2>1
    <3>2. /\ SubSeq(a, x, x) \in Seq(S) /\ Len(SubSeq(a, x, x)) = 1
          /\ \A k \in 1..1 : SubSeq(a, x, x)[k] = a[x + k - 1]
      <4>1. /\ SubSeq(a, x, x) \in Seq(S) /\ Len(SubSeq(a, x, x)) = IF x <= x THEN x - x + 1 ELSE 0
            /\ \A k \in 1..(x - x + 1) : SubSeq(a, x, x)[k] = a[x + k - 1]
        <5>1. \A k \in x..x : a[k] \in S
          BY <2>1, <3>1
        <5> QED BY <2>1, <5>1, SubSeqProperties
      <4> QED BY <2>1, <4>1, SMTT(60)
    <3>3. /\ SubSeq(b, y, y) \in Seq(S) /\ Len(SubSeq(b, y, y)) = 1
          /\ \A k \in 1..1 : SubSeq(b, y, y)[k] = b[y + k - 1]
      <4>1. /\ SubSeq(b, y, y) \in Seq(S) /\ Len(SubSeq(b, y, y)) = IF y <= y THEN y - y + 1 ELSE 0
            /\ \A k \in 1..(y - y + 1) : SubSeq(b, y, y)[k] = b[y + k - 1]
        <5>1. \A k \in y..y : b[k] \in S
          BY <2>1, <3>1
        <5> QED BY <2>1, <5>1, SubSeqProperties
      <4> QED BY <2>1, <4>1
    <3>4. \A k \in 1..1 : SubSeq(a, x, x)[k] = SubSeq(b, y, y)[k]
      <4> TAKE k \in 1..1
      <4>1. k = 1 /\ x + k - 1 = x /\ y + k - 1 = y
        BY <2>1
      <4> QED BY <3>2, <3>3, <4>1
    <3> QED BY <3>2, <3>3, <3>4, SeqEqual
  <2>3. same(x, y, 1)
    BY <2>1, <2>2
  <2>4. 1 \in K
    <3> HIDE DEF same
    <3> HIDE DEF K, I, J
    <3>1. 1 \in 0..(ahi - alo) /\ x \in alo..ahi /\ y \in blo..bhi
      <4>1. x \in Int /\ alo <= x /\ x <= ahi - 1 /\ y \in Int /\ blo <= y /\ y <= bhi - 1
        BY <1>0
      <4> QED BY <1>0, <4>1
    <3> QED BY <2>3, <3>1 DEF K
  <2> HIDE DEF K
  <2>5. 1 <= n
    BY <1>2, <2>4
  <2> QED BY <1>8, <2>5
<1>10. m[1] \in Int /\ m[2] \in Int /\ m[3] \in Nat
  <2> HIDE DEF same
  <2> QED BY <1>0, <1>8
<1>11. Cut(a, m[1], m[1] + m[3]) = Cut(b, m[2], m[2] + m[3])
  <2>1. SubSeq(a, m[1], m[1] + m[3] - 1) = SubSeq(b, m[2], m[2] + m[3] - 1)
    BY <1>8
  <2>2. \A i, j \in Int : i + j - 1 = (i + j) - 1
    OBVIOUS
  <2>3. m[1] + m[3] - 1 = (m[1] + m[3]) - 1 /\ m[2] + m[3] - 1 = (m[2] + m[3]) - 1
    <3>1. m[1] \in Int /\ m[2] \in Int /\ m[3] \in Int
      BY <1>10
    <3> QED BY <2>2, <3>1
  <2> QED BY <2>1, <2>3 DEF Cut
<1> QED BY <1>8, <1>9, <1>10, <1>11

LEMMA CommonIs ==
  ASSUME NEW S, NEW a \in Seq(S), NEW b \in Seq(S), NEW r \in Ranges(a, b), NEW m,
         m = Common(a, r[1], r[2], b, r[3], r[4])
  PROVE  /\ m[1] \in r[1]..r[2] /\ m[2] \in r[3]..r[4] /\ m[3] \in Nat
         /\ m[1] + m[3] <= r[2] /\ m[2] + m[3] <= r[4]
         /\ Cut(a, m[1], m[1] + m[3]) = Cut(b, m[2], m[2] + m[3])
         /\ m[3] = 0 => Apart(a, b, r)
<1>1. /\ r[1] \in Int /\ r[2] \in Int /\ r[3] \in Int /\ r[4] \in Int
      /\ 1 <= r[1] /\ r[1] <= r[2] /\ r[2] <= Len(a) + 1 /\ 1 <= r[3] /\ r[3] <= r[4] /\ r[4] <= Len(b) + 1
  BY RangesAre
<1>2. \A alo, ahi, blo, bhi \in Int : 1 <= alo /\ alo <= ahi /\ ahi <= Len(a) + 1 /\ 1 <= blo /\ blo <= bhi
                                    /\ bhi <= Len(b) + 1 /\ m = Common(a, alo, ahi, b, blo, bhi) =>
         /\ m[1] \in alo..ahi /\ m[2] \in blo..bhi /\ m[3] \in Nat
         /\ m[1] + m[3] <= ahi /\ m[2] + m[3] <= bhi
         /\ Cut(a, m[1], m[1] + m[3]) = Cut(b, m[2], m[2] + m[3])
         /\ m[3] = 0 => Strangers(a, alo, ahi, b, blo, bhi)
  BY BlockIs, SMTT(60)
<1> QED BY <1>1, <1>2 DEF Apart

-----------------------------------------------------------------------------
(* The opcodes of two texts                                                *)

Size(r) == (r[2] - r[1]) + (r[4] - r[3])
Block(a, b, r) == Common(a, r[1], r[2], b, r[3], r[4])
Ahead(r, m) == <<r[1], m[1], r[3], m[2]>>
Behind(r, m) == <<m[1] + m[3], r[2], m[2] + m[3], r[4]>>
\* What get_opcodes makes of a range, given what it makes of smaller ones.
CodesOf(f, a, b, r) ==
  LET m == Block(a, b, r)
  IN IF m[3] = 0 THEN IF r[1] = r[2] /\ r[3] = r[4] THEN <<>> ELSE <<r>>
     ELSE f[Ahead(r, m)] \o f[Behind(r, m)]
AreCodes(f, a, b) == f = [r \in Ranges(a, b) |-> CodesOf(f, a, b, r)]
Codes(a, b) == CHOOSE f : AreCodes(f, a, b)

LEMMA OpcodesAre ==
  ASSUME NEW a, NEW b
  PROVE  Opcodes(a, b) = Codes(a, b)[<<1, Len(a) + 1, 1, Len(b) + 1>>]
BY DEF Opcodes, Codes, AreCodes, CodesOf, Ranges, Full, Block, Ahead, Behind

LEMMA SizeIs ==
  ASSUME NEW S, NEW a \in Seq(S), NEW b \in Seq(S), NEW r \in Ranges(a, b)
  PROVE  Size(r) \in Nat /\ Size(r) <= Len(a) + Len(b)
BY RangesAre, SMTT(60) DEF Size

LEMMA SmallerRanges ==
  ASSUME NEW S, NEW a \in Seq(S), NEW b \in Seq(S), NEW r \in Ranges(a, b), Block(a, b, r)[3] # 0
  PROVE  /\ Ahead(r, Block(a, b, r)) \in Ranges(a, b) /\ Size(Ahead(r, Block(a, b, r))) < Size(r)
         /\ Behind(r, Block(a, b, r)) \in Ranges(a, b) /\ Size(Behind(r, Block(a, b, r))) < Size(r)
<1> DEFINE m == Block(a, b, r)
<1>1. /\ m[1] \in r[1]..r[2] /\ m[2] \in r[3]..r[4] /\ m[3] \in Nat
      /\ m[1] + m[3] <= r[2] /\ m[2] + m[3] <= r[4]
  BY CommonIs DEF Block
<1> HIDE DEF m
<1>2. /\ r[1] \in Full(a) /\ r[2] \in Full(a) /\ r[3] \in Full(b) /\ r[4] \in Full(b)
      /\ r[1] \in Int /\ r[2] \in Int /\ r[3] \in Int /\ r[4] \in Int
      /\ 1 <= r[1] /\ r[1] <= r[2] /\ r[2] <= Len(a) + 1 /\ 1 <= r[3] /\ r[3] <= r[4] /\ r[4] <= Len(b) + 1
      /\ Len(a) \in Nat /\ Len(b) \in Nat
  BY RangesAre
<1>3. /\ m[1] \in Int /\ m[2] \in Int /\ m[3] \in Int /\ 0 < m[3]
      /\ r[1] <= m[1] /\ m[1] <= r[2] /\ r[3] <= m[2] /\ m[2] <= r[4]
  BY <1>1, <1>2 DEF m
<1>4. \A i, j, k, l, x, y, n, p, q \in Int :
        /\ 1 <= i /\ i <= j /\ j <= p + 1 /\ 1 <= k /\ k <= l /\ l <= q + 1
        /\ 0 < n /\ i <= x /\ x <= j /\ k <= y /\ y <= l /\ x + n <= j /\ y + n <= l
        => /\ 1 <= x /\ x <= p + 1 /\ 1 <= y /\ y <= q + 1
           /\ 1 <= x + n /\ x + n <= p + 1 /\ 1 <= y + n /\ y + n <= q + 1
           /\ (x - i) + (y - k) < (j - i) + (l - k)
           /\ (j - (x + n)) + (l - (y + n)) < (j - i) + (l - k)
  OBVIOUS
<1>5. /\ 1 <= m[1] /\ m[1] <= Len(a) + 1 /\ 1 <= m[2] /\ m[2] <= Len(b) + 1
      /\ 1 <= m[1] + m[3] /\ m[1] + m[3] <= Len(a) + 1 /\ 1 <= m[2] + m[3] /\ m[2] + m[3] <= Len(b) + 1
      /\ (m[1] - r[1]) + (m[2] - r[3]) < (r[2] - r[1]) + (r[4] - r[3])
      /\ (r[2] - (m[1] + m[3])) + (r[4] - (m[2] + m[3])) < (r[2] - r[1]) + (r[4] - r[3])
  <2>1. Len(a) \in Int /\ Len(b) \in Int
    OBVIOUS
  <2> QED BY <1>1, <1>2, <1>3, <1>4, <2>1
<1>6. m[1] \in Full(a) /\ m[2] \in Full(b) /\ m[1] + m[3] \in Full(a) /\ m[2] + m[3] \in Full(b)
  <2>1. \A n \in Nat, x \in Int : 1 <= x /\ x <= n + 1 => x \in 1..(n + 1)
    OBVIOUS
  <2>2. m[1] + m[3] \in Int /\ m[2] + m[3] \in Int
    BY <1>3
  <2> QED BY <1>2, <1>3, <1>5, <2>1, <2>2 DEF Full
<1>7. Ahead(r, m) \in Ranges(a, b) /\ Behind(r, m) \in Ranges(a, b)
  BY <1>1, <1>2, <1>3, <1>6, RangeIs DEF Ahead, Behind
<1>8. Size(Ahead(r, m)) < Size(r) /\ Size(Behind(r, m)) < Size(r)
  BY <1>5 DEF Size, Ahead, Behind
<1> QED BY <1>7, <1>8 DEF m

\* What 0 has and n + 1 has if n has it, every natural number has.
LEMMA Induction ==
  ASSUME NEW S, 0 \in S, \A n \in Nat : n \in S => n + 1 \in S
  PROVE  \A n \in Nat : n \in S
<1> DEFINE C == {n \in Nat : n \notin S}
<1> SUFFICES ASSUME C # {}
             PROVE  FALSE
  OBVIOUS
<1>1. Min(C) \in C /\ \A x \in C : Min(C) <= x
  BY First
<1>2. PICK c \in C : \A x \in C : c <= x
  BY <1>1
<1>3. c - 1 \in Nat /\ c - 1 \notin C
  BY <1>2
<1> QED BY <1>2, <1>3

LEMMA CodesExist ==
  ASSUME NEW S, NEW a \in Seq(S), NEW b \in Seq(S)
  PROVE  AreCodes(Codes(a, b), a, b)
<1> DEFINE Upto(f, n) == \A r \in Ranges(a, b) : Size(r) < n => f[r] = CodesOf(f, a, b, r)
           N == {n \in Nat : \E f : Upto(f, n)}
<1>0. \A f, g, r : r \in Ranges(a, b)
                   /\ (\A q \in Ranges(a, b) : Size(q) < Size(r) => f[q] = g[q])
                   => CodesOf(f, a, b, r) = CodesOf(g, a, b, r)
  <2> SUFFICES ASSUME NEW f, NEW g, NEW r \in Ranges(a, b),
                      \A q \in Ranges(a, b) : Size(q) < Size(r) => f[q] = g[q]
               PROVE  CodesOf(f, a, b, r) = CodesOf(g, a, b, r)
    OBVIOUS
  <2>1. CASE Block(a, b, r)[3] = 0
    BY <2>1 DEF CodesOf
  <2>2. CASE Block(a, b, r)[3] # 0
    <3>1. /\ f[Ahead(r, Block(a, b, r))] = g[Ahead(r, Block(a, b, r))]
          /\ f[Behind(r, Block(a, b, r))] = g[Behind(r, Block(a, b, r))]
      BY <2>2, SmallerRanges
    <3> QED BY <2>2, <3>1 DEF CodesOf
  <2> QED BY <2>1, <2>2
<1>1. 0 \in N
  <2>1. Upto(<<>>, 0)
    BY SizeIs
  <2> QED BY <2>1
<1>2. ASSUME NEW n \in Nat, n \in N
      PROVE  n + 1 \in N
  <2>1. PICK f : Upto(f, n)
    BY <1>2
  <2> DEFINE g == [r \in Ranges(a, b) |-> IF Size(r) < n THEN f[r] ELSE CodesOf(f, a, b, r)]
  <2>2. \A r \in Ranges(a, b) : Size(r) < n + 1 => g[r] = CodesOf(f, a, b, r)
    BY <2>1, SizeIs
  <2>3. ASSUME NEW r \in Ranges(a, b), Size(r) < n + 1
        PROVE  CodesOf(g, a, b, r) = CodesOf(f, a, b, r)
    <3>1. \A q \in Ranges(a, b) : Size(q) < Size(r) => f[q] = g[q]
      <4> TAKE q \in Ranges(a, b)
      <4> HAVE Size(q) < Size(r)
      <4>1. Size(q) < n
        BY <2>3, SizeIs
      <4> QED BY <4>1
    <3> HIDE DEF g
    <3> QED BY <1>0, <3>1
  <2> HIDE DEF g
  <2>4. Upto(g, n + 1)
    BY <2>2, <2>3
  <2> QED BY <2>4
<1>3. \A n \in Nat : n \in N
  <2> HIDE DEF N
  <2> QED BY <1>1, <1>2, Induction
<1>4. PICK f : Upto(f, Len(a) + Len(b) + 1)
  <2>1. Len(a) + Len(b) + 1 \in Nat
    OBVIOUS
  <2> QED BY <1>3, <2>1
<1> DEFINE h == [r \in Ranges(a, b) |-> f[r]]
<1>5. \A r \in Ranges(a, b) : f[r] = CodesOf(f, a, b, r)
  <2> TAKE r \in Ranges(a, b)
  <2>1. Size(r) < Len(a) + Len(b) + 1
    <3>1. Len(a) \in Nat /\ Len(b) \in Nat
      OBVIOUS
    <3> QED BY <3>1, SizeIs
  <2> QED BY <1>4, <2>1
<1>6. \A r \in Ranges(a, b) : CodesOf(h, a, b, r) = CodesOf(f, a, b, r)
  <2>1. \A q \in Ranges(a, b) : h[q] = f[q]
    OBVIOUS
  <2> HIDE DEF h
  <2> QED BY <1>0, <2>1
<1>7. AreCodes(h, a, b)
  <2>1. h = [r \in Ranges(a, b) |-> CodesOf(h, a, b, r)]
    BY <1>5, <1>6
  <2> QED BY <2>1 DEF AreCodes
<1> QED BY <1>7 DEF Codes

LEMMA Regroup ==
  ASSUME NEW S
  PROVE  \A s, t, u \in Seq(S) : (s \o t) \o u = s \o (t \o u)
BY ConcatAssociative, SMTT(60)

Glue(s, t) == s \o t
LEMMA GlueIs ==
  ASSUME NEW S
  PROVE  \A s, t \in Seq(S) : Glue(s, t) \in Seq(S)
BY ConcatProperties DEF Glue
LEMMA GlueAgain ==
  ASSUME NEW S
  PROVE  \A s, t, u \in Seq(S) : Glue(Glue(s, t), u) = Glue(s, Glue(t, u))
BY Regroup DEF Glue

LEMMA BlockPasses ==
  ASSUME NEW S, NEW a \in Seq(S), NEW b \in Seq(S), NEW x \in Seq(S), NEW i \in Full(a), NEW j \in Full(a),
         NEW k \in Full(b), NEW l \in Full(b), NEW n \in Full(b), i <= j, k <= l, l <= n,
         Cut(a, i, j) = Cut(b, k, l)
  PROVE  Glue(Cut(a, 1, j), Glue(Cut(b, l, n), x)) = Glue(Cut(a, 1, i), Glue(Cut(b, k, n), x))
<1>1. 1 \in Full(a) /\ 1 <= i
  BY DEF Full
<1> DEFINE s == Cut(a, 1, i)
           t == Cut(b, k, l)
           u == Cut(b, l, n)
<1>2. s \in Seq(S) /\ t \in Seq(S) /\ u \in Seq(S)
  BY <1>1, CutIs
<1>3. Cut(a, 1, j) = Glue(s, t)
  BY <1>1, CutsJoin DEF Glue
<1>4. Cut(b, k, n) = Glue(t, u)
  BY CutsJoin DEF Glue
<1> HIDE DEF s, t, u
<1>5. Glue(Glue(s, t), Glue(u, x)) = Glue(s, Glue(Glue(t, u), x))
  BY <1>2, GlueIs, GlueAgain
<1> QED BY <1>3, <1>4, <1>5 DEF u, s

\* What is so of the codes of a range: they are ranges in which the texts have no line in
\* common, something is in each, and put in they make the range of the one that of the other.
Right(S, cs, a, b, r) ==
  /\ cs \in Seq(Ranges(a, b))
  /\ \A k \in 1..Len(cs) : Apart(a, b, cs[k]) /\ (cs[k][1] < cs[k][2] \/ cs[k][3] < cs[k][4])
  /\ \A x \in Seq(S) : Leads(S, cs, b, Glue(Cut(a, 1, r[2]), x), Glue(Cut(a, 1, r[1]), Glue(Cut(b, r[3], r[4]), x)))

LEMMA CutsOfRange ==
  ASSUME NEW S, NEW a \in Seq(S), NEW b \in Seq(S), NEW r \in Ranges(a, b)
  PROVE  /\ Cut(a, 1, r[1]) \in Seq(S) /\ Cut(a, 1, r[2]) \in Seq(S) /\ Cut(b, r[3], r[4]) \in Seq(S)
<1>1. 1 <= r[2]
  BY RangesAre
<1> QED BY <1>1, RangesAre, CutIs

LEMMA NothingToPut ==
  ASSUME NEW S, NEW a \in Seq(S), NEW b \in Seq(S), NEW r \in Ranges(a, b), r[1] = r[2], r[3] = r[4]
  PROVE  Right(S, <<>>, a, b, r)
<1>1. ASSUME NEW x \in Seq(S)
      PROVE  Leads(S, <<>>, b, Glue(Cut(a, 1, r[2]), x), Glue(Cut(a, 1, r[1]), Glue(Cut(b, r[3], r[4]), x)))
  <2> DEFINE t == Glue(Cut(a, 1, r[2]), x)
             s == [k \in 0..0 |-> t]
  <2>1. Cut(b, r[3], r[4]) = <<>>
    <3>1. r[3] \in Int /\ r[4] - 1 \in Int /\ r[4] - 1 < r[3]
      BY RangesAre
    <3> QED BY <3>1, SubSeqEmpty DEF Cut
  <2>2. Glue(Cut(a, 1, r[1]), Glue(Cut(b, r[3], r[4]), x)) = t
    BY <2>1, ConcatEmptySeq DEF Glue
  <2>3. t \in Seq(S)
    BY CutsOfRange, GlueIs
  <2> HIDE DEF t
  <2>4. s \in [0..0 -> Seq(S)] /\ s[0] = t /\ 1..0 = {} /\ Len(<<>>) = 0
    BY <2>3
  <2> QED BY <2>2, <2>4 DEF Leads, t
<1> QED BY <1>1 DEF Right

LEMMA OneToPut ==
  ASSUME NEW S, NEW a \in Seq(S), NEW b \in Seq(S), NEW r \in Ranges(a, b), Apart(a, b, r),
         r[1] # r[2] \/ r[3] # r[4]
  PROVE  Right(S, <<r>>, a, b, r)
<1>1. ASSUME NEW x \in Seq(S)
      PROVE  Leads(S, <<r>>, b, Glue(Cut(a, 1, r[2]), x), Glue(Cut(a, 1, r[1]), Glue(Cut(b, r[3], r[4]), x)))
  <2> DEFINE t == Glue(Cut(a, 1, r[2]), x)
             u == Glue(Cut(a, 1, r[1]), Glue(Cut(b, r[3], r[4]), x))
             s == [k \in 0..1 |-> IF k = 0 THEN t ELSE u]
  <2>1. PutIn(t, b, r) = u
    BY PutInIs, SMTT(60) DEF Glue
  <2>2. t \in Seq(S) /\ u \in Seq(S)
    BY CutsOfRange, GlueIs
  <2> HIDE DEF t, u
  <2>3. s \in [0..1 -> Seq(S)] /\ s[0] = t /\ s[1] = u
    BY <2>2
  <2>4. Len(<<r>>) = 1 /\ <<r>>[1] = r
    OBVIOUS
  <2>5. \A k \in 1..1 : s[k] = PutIn(s[k - 1], b, <<r>>[1 + 1 - k])
    <3> TAKE k \in 1..1
    <3>1. k = 1 /\ k - 1 = 0 /\ 1 + 1 - k = 1
      OBVIOUS
    <3> HIDE DEF s
    <3> QED BY <2>1, <2>3, <2>4, <3>1
  <2> HIDE DEF s
  <2>6. Leads(S, <<r>>, b, t, u)
    BY <2>3, <2>4, <2>5 DEF Leads
  <2> QED BY <2>6 DEF t, u
<1>2. r[1] < r[2] \/ r[3] < r[4]
  BY RangesAre
<1>3. <<r>> \in Seq(Ranges(a, b)) /\ \A k \in 1..Len(<<r>>) : <<r>>[k] = r
  OBVIOUS
<1> QED BY <1>1, <1>2, <1>3 DEF Right

LEMMA BothToPut ==
  ASSUME NEW S, NEW a \in Seq(S), NEW b \in Seq(S), NEW r \in Ranges(a, b), Block(a, b, r)[3] # 0,
         NEW cs, NEW ds, Right(S, cs, a, b, Ahead(r, Block(a, b, r))), Right(S, ds, a, b, Behind(r, Block(a, b, r)))
  PROVE  Right(S, cs \o ds, a, b, r)
<1> DEFINE m == Block(a, b, r)
           p == Ahead(r, m)
           q == Behind(r, m)
<1>1. p \in Ranges(a, b) /\ q \in Ranges(a, b)
  BY SmallerRanges
<1>2. /\ p[1] = r[1] /\ p[2] = m[1] /\ p[3] = r[3] /\ p[4] = m[2]
      /\ q[1] = m[1] + m[3] /\ q[2] = r[2] /\ q[3] = m[2] + m[3] /\ q[4] = r[4]
  BY DEF Ahead, Behind
<1>3. Cut(a, p[2], q[1]) = Cut(b, p[4], q[3]) /\ p[2] <= q[1] /\ p[4] <= q[3]
  <2>1. /\ m[1] \in r[1]..r[2] /\ m[2] \in r[3]..r[4] /\ m[3] \in Nat
        /\ Cut(a, m[1], m[1] + m[3]) = Cut(b, m[2], m[2] + m[3])
    BY CommonIs DEF Block
  <2> HIDE DEF m, p, q
  <2>2. m[1] \in Int /\ m[2] \in Int
    BY <2>1, RangesAre
  <2>3. \A i, k \in Int : k >= 0 => i <= i + k
    OBVIOUS
  <2>4. m[3] \in Int /\ m[3] >= 0
    BY <2>1
  <2>5. m[1] <= m[1] + m[3] /\ m[2] <= m[2] + m[3]
    BY <2>2, <2>3, <2>4
  <2> QED BY <1>2, <2>1, <2>5
<1>4. Right(S, cs, a, b, p) /\ Right(S, ds, a, b, q)
  OBVIOUS
<1> HIDE DEF m, p, q
<1>5. /\ p[2] \in Full(a) /\ q[1] \in Full(a) /\ p[3] \in Full(b) /\ p[4] \in Full(b) /\ q[3] \in Full(b)
      /\ q[4] \in Full(b) /\ p[3] <= p[4] /\ q[3] <= q[4] /\ 1 <= p[2] /\ 1 \in Full(a)
      /\ p[4] \in Int /\ q[3] \in Int /\ q[4] \in Int
  <2>1. \A z \in Ranges(a, b) :
          /\ z[1] \in Full(a) /\ z[2] \in Full(a) /\ z[3] \in Full(b) /\ z[4] \in Full(b)
          /\ z[1] \in Int /\ z[2] \in Int /\ z[3] \in Int /\ z[4] \in Int
          /\ 1 <= z[1] /\ z[1] <= z[2] /\ z[3] <= z[4]
    BY RangesAre
  <2>2. 1 \in Full(a)
    BY RangesAre
  <2>3. 1 <= p[1] /\ p[1] <= p[2] /\ p[1] \in Int /\ p[2] \in Int
    BY <1>1, <2>1
  <2>4. 1 <= p[2]
    BY <2>3
  <2> QED BY <1>1, <2>1, <2>2, <2>4
<1>6. ASSUME NEW x \in Seq(S)
      PROVE  Leads(S, cs \o ds, b, Glue(Cut(a, 1, r[2]), x), Glue(Cut(a, 1, r[1]), Glue(Cut(b, r[3], r[4]), x)))
  <2> DEFINE y == Glue(Cut(b, p[4], q[4]), x)
  <2>1. /\ Cut(b, p[3], p[4]) \in Seq(S) /\ Cut(b, p[4], q[4]) \in Seq(S) /\ p[4] <= q[4]
    <3>1. p[4] <= q[4]
      BY <1>3, <1>5
    <3> QED BY <1>3, <1>5, <3>1, CutIs
  <2>2. y \in Seq(S)
    BY <2>1, GlueIs
  <2>3. Leads(S, ds, b, Glue(Cut(a, 1, q[2]), x), Glue(Cut(a, 1, q[1]), Glue(Cut(b, q[3], q[4]), x)))
    BY <1>4 DEF Right
  <2>4. Leads(S, cs, b, Glue(Cut(a, 1, p[2]), y), Glue(Cut(a, 1, p[1]), Glue(Cut(b, p[3], p[4]), y)))
    <3> HIDE DEF y
    <3> QED BY <1>4, <2>2 DEF Right
  <2>5. Glue(Cut(a, 1, q[1]), Glue(Cut(b, q[3], q[4]), x)) = Glue(Cut(a, 1, p[2]), y)
    BY <1>3, <1>5, BlockPasses, SMTT(60)
  <2>6. Glue(Cut(b, p[3], p[4]), y) = Glue(Cut(b, p[3], q[4]), x)
    <3>1. Cut(b, p[3], q[4]) = Glue(Cut(b, p[3], p[4]), Cut(b, p[4], q[4]))
      BY <1>5, <2>1, CutsJoin DEF Glue
    <3> QED BY <2>1, <3>1, GlueAgain
  <2> HIDE DEF y
  <2>7. Leads(S, ds, b, Glue(Cut(a, 1, q[2]), x), Glue(Cut(a, 1, p[2]), y))
    BY <2>3, <2>5
  <2>8. Leads(S, cs, b, Glue(Cut(a, 1, p[2]), y), Glue(Cut(a, 1, p[1]), Glue(Cut(b, p[3], q[4]), x)))
    BY <2>4, <2>6
  <2>9. cs \in Seq(Ranges(a, b)) /\ ds \in Seq(Ranges(a, b))
    BY <1>4 DEF Right
  <2>10. Leads(S, cs \o ds, b, Glue(Cut(a, 1, q[2]), x), Glue(Cut(a, 1, p[1]), Glue(Cut(b, p[3], q[4]), x)))
    BY <2>7, <2>8, <2>9, LeadsOn
  <2> QED BY <1>2, <2>10
<1>7. /\ cs \o ds \in Seq(Ranges(a, b))
      /\ \A k \in 1..Len(cs \o ds) : /\ Apart(a, b, (cs \o ds)[k])
                                     /\ (cs \o ds)[k][1] < (cs \o ds)[k][2] \/ (cs \o ds)[k][3] < (cs \o ds)[k][4]
  <2> DEFINE W == {c \in Ranges(a, b) : Apart(a, b, c) /\ (c[1] < c[2] \/ c[3] < c[4])}
  <2>1. cs \in Seq(Ranges(a, b)) /\ ds \in Seq(Ranges(a, b))
    BY <1>4 DEF Right
  <2>2. /\ \A k \in 1..Len(cs) : cs[k] \in W
        /\ \A k \in 1..Len(ds) : ds[k] \in W
    <3>1. /\ \A k \in 1..Len(cs) : cs[k] \in Ranges(a, b)
          /\ \A k \in 1..Len(ds) : ds[k] \in Ranges(a, b)
      BY <2>1
    <3> QED BY <1>4, <3>1 DEF Right
  <2>3. /\ cs \o ds \in Seq(Ranges(a, b)) /\ Len(cs \o ds) = Len(cs) + Len(ds)
        /\ \A i \in 1..(Len(cs) + Len(ds)) : (cs \o ds)[i] = IF i <= Len(cs) THEN cs[i] ELSE ds[i - Len(cs)]
    BY <2>1, ConcatProperties
  <2>4. \A k \in 1..Len(cs \o ds) : (cs \o ds)[k] \in W
    <3> TAKE k \in 1..Len(cs \o ds)
    <3>0. Len(cs) \in Nat /\ Len(ds) \in Nat
      BY <2>1
    <3>1. k \in 1..(Len(cs) + Len(ds))
      BY <2>3
    <3> HIDE DEF W
    <3>2. CASE k <= Len(cs)
      <4>1. k \in 1..Len(cs)
        BY <3>0, <3>1, <3>2
      <4> QED BY <2>2, <2>3, <3>1, <3>2, <4>1
    <3>3. CASE ~(k <= Len(cs))
      <4>1. k - Len(cs) \in 1..Len(ds)
        BY <3>0, <3>1, <3>3
      <4> QED BY <2>2, <2>3, <3>1, <3>3, <4>1
    <3> QED BY <3>2, <3>3
  <2> QED BY <2>3, <2>4
<1> QED BY <1>6, <1>7 DEF Right

LEMMA CodesAreRight ==
  ASSUME NEW S, NEW a \in Seq(S), NEW b \in Seq(S)
  PROVE  \A r \in Ranges(a, b) : Right(S, Codes(a, b)[r], a, b, r)
<1> DEFINE f == Codes(a, b)
           N == {n \in Nat : \A r \in Ranges(a, b) : Size(r) < n => Right(S, f[r], a, b, r)}
<1>0. \A r \in Ranges(a, b) : f[r] = CodesOf(f, a, b, r)
  <2>1. f = [r \in Ranges(a, b) |-> CodesOf(f, a, b, r)]
    BY CodesExist DEF AreCodes
  <2> HIDE DEF f
  <2> QED BY <2>1
<1> HIDE DEF f
<1>1. 0 \in N
  BY SizeIs
<1>2. ASSUME NEW n \in Nat, n \in N
      PROVE  n + 1 \in N
  <2> SUFFICES ASSUME NEW r \in Ranges(a, b), Size(r) < n + 1
               PROVE  Right(S, f[r], a, b, r)
    OBVIOUS
  <2>1. CASE Block(a, b, r)[3] = 0
    <3>1. Apart(a, b, r)
      BY <2>1, CommonIs DEF Block
    <3>2. f[r] = IF r[1] = r[2] /\ r[3] = r[4] THEN <<>> ELSE <<r>>
      BY <1>0, <2>1 DEF CodesOf
    <3> QED BY <3>1, <3>2, NothingToPut, OneToPut
  <2>2. CASE Block(a, b, r)[3] # 0
    <3> DEFINE p == Ahead(r, Block(a, b, r))
               q == Behind(r, Block(a, b, r))
    <3>1. p \in Ranges(a, b) /\ Size(p) < Size(r) /\ q \in Ranges(a, b) /\ Size(q) < Size(r)
      BY <2>2, SmallerRanges
    <3>2. f[r] = f[p] \o f[q]
      BY <1>0, <2>2 DEF CodesOf
    <3>3. Right(S, f[p], a, b, p) /\ Right(S, f[q], a, b, q)
      <4> HIDE DEF p, q
      <4>1. Size(p) < n /\ Size(q) < n
        <5>1. Size(p) \in Nat /\ Size(q) \in Nat /\ Size(r) \in Nat
          BY <3>1, SizeIs
        <5> QED BY <3>1, <5>1
      <4> QED BY <1>2, <3>1, <4>1
    <3> QED BY <2>2, <3>2, <3>3, BothToPut
  <2> QED BY <2>1, <2>2
<1>3. \A n \in Nat : n \in N
  <2> HIDE DEF N
  <2> QED BY <1>1, <1>2, Induction
<1>4. ASSUME NEW r \in Ranges(a, b)
      PROVE  Right(S, f[r], a, b, r)
  <2>1. Size(r) \in Nat
    BY SizeIs
  <2>2. Size(r) + 1 \in N /\ Size(r) < Size(r) + 1
    BY <1>3, <2>1
  <2> QED BY <2>2
<1> QED BY <1>4 DEF f

-----------------------------------------------------------------------------
(* The patches of two texts                                                *)

\* What is between the common blocks of two texts, put in, makes the second of the first.
LEMMA OpcodesAreRight ==
  ASSUME NEW S, NEW a \in Seq(S), NEW b \in Seq(S)
  PROVE  /\ Opcodes(a, b) \in Seq(Ranges(a, b))
         /\ \A k \in 1..Len(Opcodes(a, b)) :
              LET c == Opcodes(a, b)[k] IN Apart(a, b, c) /\ (c[1] < c[2] \/ c[3] < c[4])
         /\ Leads(S, Opcodes(a, b), b, a, b)
<1> DEFINE r == <<1, Len(a) + 1, 1, Len(b) + 1>>
           cs == Opcodes(a, b)
<1>0. /\ Len(a) \in Nat /\ Len(b) \in Nat /\ 1 \in Full(a) /\ 1 \in Full(b)
      /\ Len(a) + 1 \in Full(a) /\ Len(b) + 1 \in Full(b) /\ 1 <= Len(a) + 1 /\ 1 <= Len(b) + 1
  BY DEF Full
<1>1. r \in Ranges(a, b)
  BY <1>0, RangeIs
<1>2. Right(S, cs, a, b, r)
  BY <1>1, CodesAreRight, OpcodesAre
<1>3. r[1] = 1 /\ r[2] = Len(a) + 1 /\ r[3] = 1 /\ r[4] = Len(b) + 1
  OBVIOUS
<1> HIDE DEF cs, r
<1>4. Leads(S, cs, b, Glue(Cut(a, 1, r[2]), <<>>), Glue(Cut(a, 1, r[1]), Glue(Cut(b, r[3], r[4]), <<>>)))
  <2>1. <<>> \in Seq(S)
    BY EmptySeq
  <2> QED BY <1>2, <2>1 DEF Right
<1>5. Cut(a, 1, r[2]) = a /\ Cut(b, r[3], r[4]) = b /\ Cut(a, 1, r[1]) = <<>>
  <2>1. Len(a) + 1 - 1 = Len(a) /\ Len(b) + 1 - 1 = Len(b) /\ (Len(a) + 1) - 1 = Len(a)
        /\ (Len(b) + 1) - 1 = Len(b)
    BY <1>0
  <2>2. SubSeq(a, 1, Len(a)) = a /\ SubSeq(b, 1, Len(b)) = b
    BY SubSeqFull
  <2>3. SubSeq(a, 1, 1 - 1) = <<>>
    BY SubSeqEmpty
  <2> QED BY <1>3, <2>1, <2>2, <2>3 DEF Cut
<1>6. Glue(a, <<>>) = a /\ Glue(<<>>, b) = b /\ Glue(b, <<>>) = b
  BY ConcatEmptySeq DEF Glue
<1>7. Leads(S, cs, b, a, b)
  BY <1>4, <1>5, <1>6
<1> QED BY <1>2, <1>7 DEF Right, cs

After(f, lines, ps) ==
  f = [k \in 0..Len(ps) |->
        IF k = 0 THEN lines
        ELSE LET p == ps[Len(ps) + 1 - k]
             IN SubSeq(f[k - 1], 1, p.start - 1) \o p.replacement
                  \o SubSeq(f[k - 1], p.end + 1, Len(f[k - 1]))]

\* The patches ps say what the opcodes cs do with what is in b.
Say(ps, cs, b) ==
  /\ Len(ps) = Len(cs)
  /\ \A k \in 1..Len(cs) : /\ ps[k].start = cs[k][1] /\ ps[k].end + 1 = cs[k][2]
                           /\ ps[k].replacement = Cut(b, cs[k][3], cs[k][4])

\* Patches that say what the opcodes do rebuild what those lead to.
LEMMA PatchesLead ==
  ASSUME NEW S, NEW b, NEW t, NEW u, NEW R, NEW cs \in Seq(R), Leads(S, cs, b, t, u),
         NEW ps, Say(ps, cs, b)
  PROVE  PutBack(t, ps) = u
<1> DEFINE n == Len(cs)
           new(x, p) == SubSeq(x, 1, p.start - 1) \o p.replacement \o SubSeq(x, p.end + 1, Len(x))
           g == CHOOSE f : After(f, t, ps)
<1>12. /\ Len(ps) = Len(cs)
      /\ \A k \in 1..Len(cs) : /\ ps[k].start = cs[k][1] /\ ps[k].end + 1 = cs[k][2]
                               /\ ps[k].replacement = Cut(b, cs[k][3], cs[k][4])
  BY DEF Say
<1>0. n \in Nat
  <2> HIDE DEF n
  <2> QED BY LenProperties DEF n
<1>1. PICK s \in [0..n -> Seq(S)] : /\ s[0] = t /\ s[n] = u
                                   /\ \A k \in 1..n : s[k] = PutIn(s[k - 1], b, cs[n + 1 - k])
  BY SMTT(60) DEF Leads
<1>2. ASSUME NEW x \in Seq(S), NEW k \in 1..n
      PROVE  new(x, ps[k]) = PutIn(x, b, cs[k])
  <2>1. (Len(x) + 1) - 1 = Len(x)
    OBVIOUS
  <2>2. /\ ps[k].start = cs[k][1] /\ ps[k].end + 1 = cs[k][2]
        /\ ps[k].replacement = Cut(b, cs[k][3], cs[k][4])
    BY <1>12
  <2> QED BY <2>1, <2>2 DEF PutIn, Cut
<1> HIDE DEF n, new
<1>3. \A k \in 1..n : k - 1 \in 0..n /\ n + 1 - k \in 1..n
  BY <1>0, SMTT(60)
<1>4. After(s, t, ps)
  <2>1. \A k \in 0..n : s[k] = IF k = 0 THEN t ELSE new(s[k - 1], ps[n + 1 - k])
    <3> TAKE k \in 0..n
    <3>1. CASE k = 0
      BY <1>1, <3>1
    <3>2. CASE k # 0
      <4>1. k \in 1..n
        BY <1>0, <3>2
      <4>2. s[k - 1] \in Seq(S) /\ n + 1 - k \in 1..n
        BY <1>1, <1>3, <4>1
      <4>3. new(s[k - 1], ps[n + 1 - k]) = PutIn(s[k - 1], b, cs[n + 1 - k])
        BY <1>2, <4>2
      <4> QED BY <1>1, <3>2, <4>1, <4>3
    <3> QED BY <3>1, <3>2
  <2>2. s = [k \in 0..n |-> s[k]]
    BY <1>1
  <2>3. s = [k \in 0..n |-> IF k = 0 THEN t ELSE new(s[k - 1], ps[n + 1 - k])]
    BY <2>1, <2>2
  <2> QED BY <1>12, <2>3 DEF After, n, new
<1>5. After(g, t, ps)
  BY <1>4
<1>6. \A k \in 0..n : g[k] = IF k = 0 THEN t ELSE new(g[k - 1], ps[n + 1 - k])
  <2> HIDE DEF g
  <2>1. g = [k \in 0..n |-> IF k = 0 THEN t ELSE new(g[k - 1], ps[n + 1 - k])]
    BY <1>12, <1>5 DEF After, n, new
  <2> QED BY <2>1
<1>7. PutBack(t, ps) = g[n]
  BY <1>12 DEF PutBack, After, n
<1> HIDE DEF g
<1> DEFINE N == {k \in Nat : k <= n => g[k] = s[k]}
<1>8. 0 \in N
  BY <1>0, <1>1, <1>6
<1>9. ASSUME NEW k \in Nat, k \in N
      PROVE  k + 1 \in N
  <2> SUFFICES ASSUME k + 1 <= n
               PROVE  g[k + 1] = s[k + 1]
    OBVIOUS
  <2>1. k + 1 \in 1..n /\ k + 1 \in 0..n /\ k + 1 # 0 /\ (k + 1) - 1 = k /\ k \in 0..n
    BY <1>0
  <2>2. g[k] = s[k]
    BY <1>0, <1>9
  <2>3. n + 1 - (k + 1) \in 1..n
    BY <1>3, <2>1
  <2>4. g[k + 1] = new(g[k], ps[n + 1 - (k + 1)])
    BY <1>6, <2>1
  <2>5. s[k + 1] = PutIn(s[k], b, cs[n + 1 - (k + 1)])
    BY <1>1, <2>1
  <2>6. s[k] \in Seq(S)
    BY <1>1, <2>1
  <2>7. new(s[k], ps[n + 1 - (k + 1)]) = PutIn(s[k], b, cs[n + 1 - (k + 1)])
    BY <1>2, <2>3, <2>6
  <2> QED BY <2>2, <2>4, <2>5, <2>7
<1>10. \A k \in Nat : k \in N
  <2> HIDE DEF N
  <2> QED BY <1>8, <1>9, Induction
<1>11. g[n] = s[n]
  BY <1>0, <1>10
<1> QED BY <1>1, <1>7, <1>11

-----------------------------------------------------------------------------
(* The patches of an operation                                             *)

Edit == [file : Files, original : Texts, new : Texts]
PatchOf(op, c) ==
  [file |-> op.file, original |-> Join(Cut(op.original.lines, c[1], c[2])),
   replacement |-> Join(Cut(op.new.lines, c[3], c[4])), start |-> c[1], end |-> c[2] - 1]

\* A generated patch says what an opcode of the two texts does.
LEMMA GeneratedIs ==
  ASSUME NEW op \in Edit
  PROVE  LET a == op.original.lines
             b == op.new.lines
             cs == Opcodes(a, b)
         IN /\ a \in Seq(STRING) /\ b \in Seq(STRING) /\ get_opcodes[op.original][op.new] = cs
            /\ op.file \in Files /\ op.original \in Texts /\ op.original \notin {Missing, Binary}
            /\ cs \in Seq(Ranges(a, b))
            /\ DOMAIN generate(op) = 1..Len(cs) /\ Len(generate(op)) = Len(cs)
            /\ \A k \in 1..Len(cs) : generate(op)[k] = PatchOf(op, cs[k])
<1> DEFINE a == op.original.lines
           b == op.new.lines
           cs == Opcodes(a, b)
<1>1. op.file \in Files /\ op.original \in Texts /\ op.new \in Texts
  BY DEF Edit
<1>2. \A t \in Texts : t \in [lines : Seq(STRING), nl : BOOLEAN]
  BY TextsAssumption
<1>3. a \in Seq(STRING) /\ b \in Seq(STRING)
  BY <1>1, <1>2
<1>4. op.original \notin {Missing, Binary}
  <2>1. DOMAIN op.original = {"lines", "nl"}
    BY <1>1, <1>2
  <2>2. DOMAIN Missing = {"gone"} /\ DOMAIN Binary = {"utf8"}
    BY DEF Missing, Binary
  <2>3. "lines" \notin DOMAIN Missing /\ "lines" \notin DOMAIN Binary
    BY <2>2
  <2>4. op.original # Missing /\ op.original # Binary
    BY <2>1, <2>3
  <2> QED BY <2>4
<1>5. get_opcodes[op.original][op.new] = cs
  <2>1. \A t, u \in Texts : get_opcodes[t][u] = Opcodes(t.lines, u.lines)
    BY DEF get_opcodes
  <2> QED BY <1>1, <2>1
<1>6. cs \in Seq(Ranges(a, b))
  BY <1>3, OpcodesAreRight
<1>7. DOMAIN cs = 1..Len(cs) /\ Len(cs) \in Nat
  BY <1>6, LenProperties
<1>8. generate(op) = [k \in 1..Len(cs) |-> PatchOf(op, cs[k])]
  BY <1>5, <1>7 DEF generate, PatchOf, Cut
<1> HIDE DEF a, b, cs
<1>9. Len(generate(op)) = Len(cs)
  BY <1>7, <1>8
<1>10. DOMAIN generate(op) = 1..Len(cs) /\ \A k \in 1..Len(cs) : generate(op)[k] = PatchOf(op, cs[k])
  BY <1>8
<1> QED BY <1>1, <1>3, <1>4, <1>5, <1>6, <1>9, <1>10 DEF a, b, cs

LEMMA Between ==
  /\ \A i \in Int : (i - 1) + 1 = i /\ i + 1 - 1 = i
  /\ \A i, j \in Int : i <= j /\ ~(i < j) => j - i = 0
  /\ \A i, j \in Int : 1 <= i /\ i <= j /\ ~(j - 1 >= i) => j - 1 = i - 1
  /\ \A i, j \in Int : i < j => j - 1 >= i /\ 1 \in 1..(j - i) /\ i \in i..(j - 1)
  /\ \A i, j \in Int : i <= j + 1 => i - 1 <= j
OBVIOUS

LEMMA JoinIs ==
  ASSUME NEW s, s # <<"">>
  PROVE  Join(s) = s
BY DEF Join

PutsAnEmptyLine(op) ==
  \E c \in ToSet(get_opcodes[op.original][op.new]) : SubSeq(op.new.lines, c[3], c[4] - 1) = <<"">>

\* PatchGenerator.generate is right: its patches, put in, make the new text, unless one
\* of them puts in a single empty line.
LEMMA PatchesAreOfTheTexts ==
  ASSUME NEW op \in Edit, ~PutsAnEmptyLine(op)
  PROVE  PutBack(op.original.lines, generate(op)) = op.new.lines
<1> DEFINE old == op.original.lines
           new == op.new.lines
           codes == Opcodes(old, new)
           made == generate(op)
<1>1. /\ old \in Seq(STRING) /\ new \in Seq(STRING) /\ get_opcodes[op.original][op.new] = codes
      /\ codes \in Seq(Ranges(old, new)) /\ Len(made) = Len(codes)
      /\ \A k \in 1..Len(codes) : made[k] = PatchOf(op, codes[k])
  BY GeneratedIs, Zenon
<1> HIDE DEF made
<1>2. Leads(STRING, codes, new, old, new)
  BY <1>1, OpcodesAreRight
<1>3. \A k \in 1..Len(codes) : codes[k] \in ToSet(codes) /\ codes[k] \in Ranges(old, new)
  <2> HIDE DEF old, new, codes
  <2>1. codes \in Seq(Ranges(old, new))
    BY <1>1
  <2> QED BY <2>1, LenProperties DEF ToSet
<1>4. \A k \in 1..Len(codes) : Cut(new, codes[k][3], codes[k][4]) # <<"">>
  BY <1>1, <1>3 DEF Cut, PutsAnEmptyLine
<1>5. \A k \in 1..Len(codes) : codes[k][2] \in Int
  BY <1>1, <1>3, RangesAre
<1> HIDE DEF old, new, codes
<1>6. ASSUME NEW k \in 1..Len(codes)
      PROVE  /\ made[k].start = codes[k][1] /\ made[k].end + 1 = codes[k][2]
             /\ made[k].replacement = Cut(new, codes[k][3], codes[k][4])
  <2>1. /\ made[k].start = codes[k][1] /\ made[k].end = codes[k][2] - 1
        /\ made[k].replacement = Join(Cut(new, codes[k][3], codes[k][4]))
    <3>1. made[k] = PatchOf(op, codes[k])
      BY <1>1
    <3>2. \A c : /\ PatchOf(op, c).start = c[1] /\ PatchOf(op, c).end = c[2] - 1
                  /\ PatchOf(op, c).replacement = Join(Cut(new, c[3], c[4]))
      BY DEF PatchOf, new
    <3> QED BY <3>1, <3>2
  <2>2. (codes[k][2] - 1) + 1 = codes[k][2]
    BY <1>5, Between
  <2> QED BY <1>4, <2>1, <2>2, JoinIs
<1>7. Say(made, codes, new)
  BY <1>1, <1>6 DEF Say
<1>8. codes \in Seq(Ranges(old, new))
  BY <1>1
<1>9. PutBack(old, made) = new
  BY <1>2, <1>7, <1>8, PatchesLead, SMTT(40)
<1> QED BY <1>9 DEF old, new, made

LEMMA PiecesAre ==
  ASSUME NEW S, NEW a \in Seq(S), NEW b \in Seq(S), NEW c \in Ranges(a, b)
  PROVE  /\ Len(Cut(a, c[1], c[2])) = c[2] - c[1] /\ Len(Cut(b, c[3], c[4])) = c[4] - c[3]
         /\ \A i \in 1..(c[2] - c[1]) : Cut(a, c[1], c[2])[i] = a[c[1] + i - 1]
         /\ \A i \in 1..(c[4] - c[3]) : Cut(b, c[3], c[4])[i] = b[c[3] + i - 1]
         /\ Cut(a, c[1], c[2]) \in Seq(S) /\ Cut(b, c[3], c[4]) \in Seq(S)
<1>1. /\ c[1] \in Full(a) /\ c[2] \in Full(a) /\ c[3] \in Full(b) /\ c[4] \in Full(b)
      /\ c[1] <= c[2] /\ c[3] <= c[4]
  BY RangesAre
<1>2. /\ Len(Cut(a, c[1], c[2])) = c[2] - c[1] /\ Cut(a, c[1], c[2]) \in Seq(S)
      /\ \A i \in 1..(c[2] - c[1]) : Cut(a, c[1], c[2])[i] = a[c[1] + i - 1]
  BY <1>1, CutIs
<1>3. /\ Len(Cut(b, c[3], c[4])) = c[4] - c[3] /\ Cut(b, c[3], c[4]) \in Seq(S)
      /\ \A i \in 1..(c[4] - c[3]) : Cut(b, c[3], c[4])[i] = b[c[3] + i - 1]
  BY <1>1, CutIs
<1> QED BY <1>2, <1>3

\* What the validator and the rules have against a patch: it is about a single empty line.
AboutAnEmptyLine(p) == p.original = <<>> /\ (p.end >= p.start \/ p.replacement = <<>>)

LEMMA PatchIsValid ==
  ASSUME NEW op \in Edit, NEW p \in ToSet(generate(op)), NEW t, t[op.file] = op.original,
         ~AboutAnEmptyLine(p)
  PROVE  validate(t, p) /\ \A r \in ToSet(default_rules(t, p)) : r.ok
<1> DEFINE a == op.original.lines
           b == op.new.lines
           cs == Opcodes(a, b)
<1>1. /\ a \in Seq(STRING) /\ b \in Seq(STRING) /\ cs \in Seq(Ranges(a, b))
      /\ op.original \notin {Missing, Binary}
      /\ DOMAIN generate(op) = 1..Len(cs)
      /\ \A k \in 1..Len(cs) : generate(op)[k] = PatchOf(op, cs[k])
  BY GeneratedIs
<1>2. PICK k \in 1..Len(cs) : p = PatchOf(op, cs[k])
  BY <1>1 DEF ToSet
<1> DEFINE c == cs[k]
           orig == Cut(a, c[1], c[2])
           repl == Cut(b, c[3], c[4])
<1>3. Apart(a, b, c) /\ (c[1] < c[2] \/ c[3] < c[4]) /\ c \in Ranges(a, b)
  <2>1. c \in Ranges(a, b)
    BY <1>1, LenProperties
  <2> HIDE DEF a, b
  <2> QED BY <1>1, <2>1, OpcodesAreRight
<1> HIDE DEF cs, a, b, c
<1>4. /\ c[1] \in Full(a) /\ c[2] \in Full(a) /\ c[3] \in Full(b) /\ c[4] \in Full(b)
      /\ c[1] \in Int /\ c[2] \in Int /\ c[3] \in Int /\ c[4] \in Int
      /\ 1 <= c[1] /\ c[1] <= c[2] /\ c[2] <= Len(a) + 1 /\ c[3] <= c[4] /\ Len(a) \in Nat
  BY <1>1, <1>3, RangesAre
<1>5. /\ p.file = op.file /\ p.start = c[1] /\ p.end = c[2] - 1
      /\ p.original = Join(orig) /\ p.replacement = Join(repl)
  BY <1>2 DEF PatchOf, a, b, c
<1>6. /\ Len(orig) = c[2] - c[1] /\ Len(repl) = c[4] - c[3]
      /\ \A i \in 1..(c[2] - c[1]) : orig[i] = a[c[1] + i - 1]
      /\ \A i \in 1..(c[4] - c[3]) : repl[i] = b[c[3] + i - 1]
      /\ orig \in Seq(STRING) /\ repl \in Seq(STRING)
  BY <1>1, <1>3, PiecesAre
<1>7. SubSeq(a, p.start, p.end) = orig
  BY <1>5 DEF Cut
<1> HIDE DEF orig, repl
<1>8. /\ p.original # <<>> => p.original = orig /\ c[1] < c[2]
      /\ p.replacement # <<>> => p.replacement = repl /\ c[3] < c[4]
  <2>1. \A i, j \in Int : i <= j /\ ~(i < j) => j - i = 0
    BY Between
  <2>2. Len(orig) = 0 => orig = <<>>
    BY <1>6, EmptySeq
  <2>3. Len(repl) = 0 => repl = <<>>
    BY <1>6, EmptySeq
  <2>4. Join(<<>>) = <<>>
    BY DEF Join
  <2>5. p.original # <<>> => p.original = orig /\ orig # <<>>
    BY <1>5, <2>4 DEF Join
  <2>6. p.replacement # <<>> => p.replacement = repl /\ repl # <<>>
    BY <1>5, <2>4 DEF Join
  <2> QED BY <1>4, <1>6, <2>1, <2>2, <2>3, <2>5, <2>6
<1>9. p.original = <<>> => p.replacement # <<>> /\ ~(p.end >= p.start)
  BY DEF AboutAnEmptyLine
<1>10. Structured(p)
  <2>2. p.original = <<>> => p.end = p.start - 1
    BY <1>4, <1>5, <1>9, Between, SMTT(60)
  <2>3. p.original # <<>> => p.end >= p.start
    BY <1>4, <1>5, <1>8, Between
  <2>4. p.start >= 1
    BY <1>4, <1>5
  <2> QED BY <2>2, <2>3, <2>4 DEF Structured
<1>11. Consistent(t, p)
  <2>1. t[p.file] = op.original /\ t[p.file].lines = a
    BY <1>5 DEF a
  <2>2. p.end <= Len(a)
    BY <1>4, <1>5, Between
  <2> QED BY <1>1, <1>5, <1>7, <2>1, <2>2 DEF Consistent
<1>12. Changes(p)
  <2> SUFFICES ASSUME p.replacement = p.original
               PROVE  FALSE
    BY DEF Changes
  <2>1. p.original # <<>> /\ p.replacement # <<>>
    BY <1>9
  <2>2. orig = repl /\ c[1] < c[2] /\ c[3] < c[4]
    BY <1>8, <2>1
  <2>3. orig[1] = a[c[1]] /\ repl[1] = b[c[3]]
    <3>1. 1 \in 1..(c[2] - c[1]) /\ 1 \in 1..(c[4] - c[3])
      BY <1>4, <2>2, Between
    <3>2. orig[1] = a[c[1] + 1 - 1] /\ repl[1] = b[c[3] + 1 - 1]
      BY <1>6, <3>1
    <3>3. c[1] + 1 - 1 = c[1] /\ c[3] + 1 - 1 = c[3]
      BY <1>4, Between
    <3> QED BY <3>2, <3>3
  <2>4. c[1] \in c[1]..(c[2] - 1) /\ c[3] \in c[3]..(c[4] - 1)
    BY <1>4, <2>2, Between
  <2> QED BY <1>3, <2>2, <2>3, <2>4 DEF Apart, Strangers
<1>13. validate(t, p)
  BY <1>9, <1>10, <1>11, <1>12 DEF validate
<1>14. \A r \in ToSet(default_rules(t, p)) : r.ok
  <2> HIDE DEF Structured, Consistent, Changes
  <2>1. Structured(p) = TRUE /\ Consistent(t, p) = TRUE /\ Changes(p) = TRUE
    BY <1>10, <1>11, <1>12
  <2>2. \A i \in DOMAIN default_rules(t, p) : default_rules(t, p)[i].ok
    BY <1>10, <1>11, <1>12 DEF default_rules
  <2> QED BY <2>2 DEF ToSet
<1> QED BY <1>13, <1>14

Flattened(f, seqs, n) ==
  f = [i \in 1..n |-> IF i = 1 THEN seqs[i] ELSE f[i - 1] \o seqs[i]]

\* What is in a flattened sequence is in one of the sequences.
LEMMA FlattenedIs ==
  ASSUME NEW T, NEW seqs \in Seq(Seq(T))
  PROVE  FlattenSeq(seqs) \in Seq(T)
<1> DEFINE n == Len(seqs)
<1>1. n \in Nat /\ \A i \in 1..n : seqs[i] \in Seq(T)
  BY LenProperties
<1>2. CASE n = 0
  BY <1>2, EmptySeq DEF FlattenSeq
<1>3. CASE n # 0
  <2> DEFINE P(i) == \E f \in [1..i -> Seq(T)] : \A j \in 1..i : f[j] = IF j = 1 THEN seqs[j] ELSE f[j - 1] \o seqs[j]
             N == {i \in Nat : 1 <= i /\ i <= n => P(i)}
             g == CHOOSE f : Flattened(f, seqs, n)
  <2> HIDE DEF n
  <2>0. 0 \in N
    OBVIOUS
  <2>1. ASSUME NEW i \in Nat, i \in N
        PROVE  i + 1 \in N
    <3> HIDE DEF P
    <3> SUFFICES ASSUME i + 1 <= n
                 PROVE  P(i + 1)
      OBVIOUS
    <3> USE DEF P
    <3>1. CASE i = 0
      <4> DEFINE f == [j \in 1..1 |-> seqs[1]]
      <4>1. f \in [1..1 -> Seq(T)] /\ \A j \in 1..1 : f[j] = IF j = 1 THEN seqs[j] ELSE f[j - 1] \o seqs[j]
        BY <1>1, <1>3
      <4>2. P(1)
        BY <4>1
      <4> QED BY <3>1, <4>2
    <3>2. CASE i # 0
      <4>1. 1 <= i /\ i <= n /\ i + 1 \in 1..n /\ i \in 1..i
        BY <1>1, <3>2
      <4>2. PICK e \in [1..i -> Seq(T)] : \A j \in 1..i : e[j] = IF j = 1 THEN seqs[j] ELSE e[j - 1] \o seqs[j]
        BY <2>1, <4>1
      <4> DEFINE joined == e[i] \o seqs[i + 1]
                 f == [j \in 1..(i + 1) |-> IF j <= i THEN e[j] ELSE joined]
      <4>3. joined \in Seq(T)
        <5>1. e[i] \in Seq(T) /\ seqs[i + 1] \in Seq(T)
          BY <1>1, <4>1, <4>2
        <5> QED BY <5>1
      <4>4. joined = e[i] \o seqs[i + 1]
        OBVIOUS
      <4> HIDE DEF joined
      <4>5. f \in [1..(i + 1) -> Seq(T)]
        BY <4>3, <4>2
      <4>6. \A j \in 1..(i + 1) : f[j] = IF j = 1 THEN seqs[j] ELSE f[j - 1] \o seqs[j]
        <5> TAKE j \in 1..(i + 1)
        <5>1. CASE j <= i
          <6>1. j \in 1..i /\ f[j] = e[j]
            BY <5>1
          <6>2. j # 1 => f[j - 1] = e[j - 1]
            BY <5>1
          <6> HIDE DEF f
          <6> QED BY <4>2, <6>1, <6>2
        <5>2. CASE ~(j <= i)
          <6>1. j = i + 1 /\ j # 1 /\ j - 1 = i
            BY <5>2, <3>2
          <6>2. f[i + 1] = joined /\ f[i] = e[i]
            BY <4>1
          <6> HIDE DEF f
          <6> QED BY <4>4, <6>1, <6>2
        <5> QED BY <5>1, <5>2
      <4> HIDE DEF f
      <4> QED BY <4>5, <4>6
    <3> QED BY <3>1, <3>2
  <2>2. P(n)
    <3> HIDE DEF P
    <3>1. \A i \in Nat : i \in N
      <4> HIDE DEF N
      <4> QED BY <2>0, <2>1, Induction
    <3>2. n \in N /\ 1 <= n /\ n <= n
      BY <1>1, <1>3, <3>1
    <3> QED BY <3>2
  <2>3. PICK e \in [1..n -> Seq(T)] : \A j \in 1..n : e[j] = IF j = 1 THEN seqs[j] ELSE e[j - 1] \o seqs[j]
    BY <2>2
  <2>4. Flattened(e, seqs, n)
    <3>1. e = [j \in 1..n |-> e[j]]
      BY <2>3
    <3> QED BY <2>3, <3>1 DEF Flattened
  <2>5. Flattened(g, seqs, n)
    BY <2>4
  <2>6. FlattenSeq(seqs) = g[n]
    BY <1>3 DEF FlattenSeq, Flattened, n
  <2> HIDE DEF g
  <2>7. \A j \in 1..n : g[j] = IF j = 1 THEN seqs[j] ELSE g[j - 1] \o seqs[j]
    <3>1. g = [j \in 1..n |-> IF j = 1 THEN seqs[j] ELSE g[j - 1] \o seqs[j]]
      BY <2>5 DEF Flattened
    <3> QED BY <3>1
  <2> DEFINE M == {i \in Nat : i + 1 <= n => g[i + 1] \in Seq(T)}
  <2>8. 0 \in M
    BY <1>1, <1>3, <2>7, SMTT(60)
  <2>9. ASSUME NEW i \in Nat, i \in M
        PROVE  i + 1 \in M
    <3> SUFFICES ASSUME (i + 1) + 1 <= n
                 PROVE  g[(i + 1) + 1] \in Seq(T)
      OBVIOUS
    <3>1. /\ i + 1 <= n /\ (i + 1) + 1 \in 1..n /\ (i + 1) + 1 # 1 /\ ((i + 1) + 1) - 1 = i + 1
      BY <1>1
    <3>2. g[i + 1] \in Seq(T) /\ seqs[(i + 1) + 1] \in Seq(T)
      BY <1>1, <2>9, <3>1
    <3>3. g[(i + 1) + 1] = g[i + 1] \o seqs[(i + 1) + 1]
      BY <2>7, <3>1
    <3>4. \A s, t \in Seq(T) : s \o t \in Seq(T)
      OBVIOUS
    <3> QED BY <3>2, <3>3, <3>4
  <2>10. \A i \in Nat : i \in M
    <3> HIDE DEF M
    <3> QED BY <2>8, <2>9, Induction
  <2>11. n - 1 \in Nat /\ (n - 1) + 1 = n /\ n <= n
    BY <1>1, <1>3
  <2>12. g[n] \in Seq(T)
    <3>1. n - 1 \in M
      BY <2>10, <2>11
    <3>2. (n - 1) + 1 <= n => g[(n - 1) + 1] \in Seq(T)
      BY <3>1
    <3> QED BY <2>11, <3>2
  <2> QED BY <2>6, <2>12
<1> QED BY <1>2, <1>3

-----------------------------------------------------------------------------
(* The patches of a round                                                  *)

Underway == {"generate", "validate", "rules"}

\* A patch that is refused is of a file that changed, or is about an empty line.
RefusedFor(ops, ps, t, edits) ==
  \/ \E i \in DOMAIN ops : generate(ops[i]) = <<>>
  \/ \E i \in DOMAIN ops : \E e \in edits : e[1] = ops[i].file /\ e[2] \in Underway
  \/ \E i \in DOMAIN ps : AboutAnEmptyLine(ps[i])
OfTheTree(ops, t, edits) ==
  \A i \in DOMAIN ops :
    t[ops[i].file] = ops[i].original \/ \E e \in edits : e[1] = ops[i].file /\ e[2] \in Underway
OfThePlan(ops, ps) == \A p \in ToSet(ps) : \E i \in DOMAIN ops : p \in ToSet(generate(ops[i]))

LEMMA PatchesInvIs ==
  PatchesInv <=>
    /\ pc \in {"plan", "analyze", "prepare", "propose"} => ~plan.success
    /\ pc \in Underway => OfTheTree(plan.ops, tree, foreign)
    /\ pc \in {"validate", "rules"} => OfThePlan(plan.ops, patches)
    /\ pc = "test" /\ plan.success /\ ~dev.success => RefusedFor(plan.ops, patches, tree, foreign)
BY DEF PatchesInv, RefusalsAreJustified, Underway, OfTheTree, OfThePlan, RefusedFor, Disturbed,
       AboutAnEmptyLine

LEMMA PatchesInvStays ==
  ASSUME pc' \in {"plan", "analyze", "prepare", "propose"} => ~plan'.success,
         pc' \in Underway => OfTheTree(plan'.ops, tree', foreign'),
         pc' \in {"validate", "rules"} => OfThePlan(plan'.ops, patches'),
         pc' = "test" /\ plan'.success /\ ~dev'.success => RefusedFor(plan'.ops, patches', tree', foreign')
  PROVE  PatchesInv'
BY DEF PatchesInv, RefusalsAreJustified, Underway, OfTheTree, OfThePlan, RefusedFor, Disturbed,
       AboutAnEmptyLine

LEMMA PlansAreTyped ==
  ASSUME RepairInv
  PROVE  /\ plan.ops \in Seq(Edit) /\ DOMAIN plan.ops = 1..Len(plan.ops)
         /\ \A i \in DOMAIN plan.ops : plan.ops[i] \in Edit /\ plan.ops[i].file \in Files
<1>1. plan \in [success : BOOLEAN, ops : Edits]
  BY DEF RepairInv, RoundsAreInformed, TypeOK
<1>2. plan.ops \in Seq(Edit)
  BY <1>1 DEF Edits, Edit
<1>3. \A op \in Edit : op.file \in Files
  BY DEF Edit
<1> HIDE DEF Edit
<1>4. DOMAIN plan.ops = 1..Len(plan.ops) /\ \A i \in DOMAIN plan.ops : plan.ops[i] \in Edit
  BY <1>2, LenProperties
<1> QED BY <1>2, <1>3, <1>4

\* The patches of a plan put together are each of one of its operations.
LEMMA PatchesAreOfThePlan ==
  ASSUME NEW ops \in Seq(Edit), NEW per, per = [i \in DOMAIN ops |-> generate(ops[i])]
  PROVE  OfThePlan(ops, FlattenSeq(per))
<1> DEFINE T == UNION {ToSet(generate(ops[i])) : i \in DOMAIN ops}
<1>1. DOMAIN ops = 1..Len(ops) /\ Len(ops) \in Nat /\ \A i \in DOMAIN ops : ops[i] \in Edit
  BY LenProperties
<1>2. ASSUME NEW i \in DOMAIN ops
      PROVE  generate(ops[i]) \in Seq(T)
  <2> DEFINE g == generate(ops[i])
             n == Len(Opcodes(ops[i].original.lines, ops[i].new.lines))
  <2>1. DOMAIN g = 1..n /\ n \in Nat
    <3>1. ops[i] \in Edit
      BY <1>1
    <3>2. DOMAIN g = 1..n /\ n = Len(g)
      BY <3>1, GeneratedIs
    <3>3. n \in Nat
      BY <3>1, GeneratedIs, LenProperties
    <3> QED BY <3>2, <3>3
  <2>2. \A k \in DOMAIN g : g[k] \in ToSet(g)
    BY DEF ToSet
  <2>3. ToSet(g) \subseteq T
    OBVIOUS
  <2>4. g = [k \in 1..n |-> g[k]]
    <3>1. g = [k \in DOMAIN g |-> g[k]]
      BY DEF generate
    <3> QED BY <2>1, <3>1, SMTT(60)
  <2> HIDE DEF g, n, T
  <2>5. \A k \in 1..n : g[k] \in T
    BY <2>1, <2>2, <2>3
  <2>6. g \in Seq(T)
    BY <2>1, <2>4, <2>5, SMTT(60)
  <2> QED BY <2>6 DEF g
<1>3. \A p \in T : \E i \in DOMAIN ops : p \in ToSet(generate(ops[i]))
  OBVIOUS
<1> HIDE DEF T
<1>4. per \in Seq(Seq(T))
  <2>1. \A i \in 1..Len(ops) : generate(ops[i]) \in Seq(T)
    BY <1>1, <1>2
  <2>2. per = [i \in 1..Len(ops) |-> generate(ops[i])]
    BY <1>1
  <2> QED BY <1>1, <2>1, <2>2
<1>5. FlattenSeq(per) \in Seq(T)
  BY <1>4, FlattenedIs
<1>6. ToSet(FlattenSeq(per)) \subseteq T
  BY <1>5, LenProperties DEF ToSet
<1> QED BY <1>3, <1>6 DEF OfThePlan

\* A step that neither proposes nor looks at a patch.
LEMMA OtherStepsKeepPatches ==
  ASSUME PatchesInv, Decide \/ CreatePlan \/ PlanningFails \/ Analyze \/ Prepare \/ ProposalFails \/ Execute
  PROVE  PatchesInv'
<1>1. CASE Decide
  <2>1. pc' = "plan" /\ ~plan'.success
    BY <1>1 DEF Decide, NoPlan
  <2> QED BY <2>1, PatchesInvStays DEF Underway
<1>2. CASE CreatePlan \/ PlanningFails \/ Analyze \/ Prepare \/ ProposalFails
  <2>1. pc \in {"plan", "analyze", "prepare", "propose"} /\ plan' = plan
    BY <1>2 DEF CreatePlan, PlanningFails, Analyze, Prepare, ProposalFails, round
  <2>2. pc' \in {"analyze", "prepare", "propose", "test"}
    BY <1>2 DEF CreatePlan, PlanningFails, Analyze, Prepare, ProposalFails, Developed
  <2>3. ~plan'.success
    BY <2>1, PatchesInvIs
  <2> QED BY <2>2, <2>3, PatchesInvStays DEF Underway
<1>3. CASE Execute
  <2>1. pc' \in {"decide", "apply", "write", "finished"}
    BY <1>3 DEF Execute, Test, ValidateEdit, Write, WriteFails, Complete, End
  <2> QED BY <2>1, PatchesInvStays DEF Underway
<1> QED BY <1>1, <1>2, <1>3

LEMMA ProposeKeepsPatches ==
  ASSUME Propose
  PROVE  PatchesInv'
<1>1. PICK ops \in Proposals :
        plan' = [success |-> TRUE,
                 ops |-> [i \in DOMAIN ops |->
                   [file |-> ops[i].file, original |-> tree[ops[i].file], new |-> ops[i].new]]]
  BY DEF Propose
<1>2. pc' = "generate" /\ tree' = tree /\ foreign' = foreign
  BY DEF Propose, world
<1>3. OfTheTree(plan'.ops, tree', foreign')
  BY <1>1, <1>2 DEF OfTheTree
<1> QED BY <1>2, <1>3, PatchesInvStays

LEMMA GenerateKeepsPatches ==
  ASSUME RepairInv, PatchesInv, Generate
  PROVE  PatchesInv'
<1> DEFINE per == [i \in DOMAIN plan.ops |-> generate(plan.ops[i])]
           bad == {i \in DOMAIN per : per[i] = <<>>}
<1>1. pc = "generate" /\ plan' = plan /\ tree' = tree /\ foreign' = foreign
  BY DEF Generate, world
<1>2. \/ bad # {} /\ pc' = "test"
      \/ patches' = FlattenSeq(per) /\ pc' = "validate"
  <2>1. IF bad # {}
        THEN Developed(FALSE, plan) /\ patches' = FlattenSeq(SubSeq(per, 1, Min(bad) - 1))
        ELSE patches' = FlattenSeq(per) /\ pc' = "validate" /\ UNCHANGED dev
    BY DEF Generate
  <2> HIDE DEF bad, per
  <2> QED BY <2>1 DEF Developed
<1>3. CASE bad # {} /\ pc' = "test"
  <2>1. \E i \in DOMAIN plan.ops : generate(plan.ops[i]) = <<>>
    BY <1>3
  <2>2. RefusedFor(plan'.ops, patches', tree', foreign')
    BY <1>1, <2>1 DEF RefusedFor
  <2> QED BY <1>3, <2>2, PatchesInvStays DEF Underway
<1>4. CASE patches' = FlattenSeq(per) /\ pc' = "validate"
  <2>1. OfThePlan(plan.ops, FlattenSeq(per))
    BY PatchesAreOfThePlan, PlansAreTyped
  <2> HIDE DEF per
  <2>2. OfThePlan(plan'.ops, patches')
    BY <1>1, <1>4, <2>1
  <2>3. OfTheTree(plan'.ops, tree', foreign')
    BY <1>1, PatchesInvIs DEF Underway
  <2> QED BY <1>4, <2>2, <2>3, PatchesInvStays
<1> QED BY <1>2, <1>3, <1>4

\* A refused patch has its reason.
LEMMA RefusedForAReason ==
  ASSUME RepairInv, OfTheTree(plan.ops, tree, foreign), OfThePlan(plan.ops, patches),
         NEW k \in DOMAIN patches,
         ~validate(tree, patches[k]) \/ \E r \in ToSet(default_rules(tree, patches[k])) : ~r.ok
  PROVE  RefusedFor(plan.ops, patches, tree, foreign)
<1>1. PICK i \in DOMAIN plan.ops : patches[k] \in ToSet(generate(plan.ops[i]))
  <2>1. patches[k] \in ToSet(patches)
    BY DEF ToSet
  <2> QED BY <2>1 DEF OfThePlan
<1>2. plan.ops[i] \in Edit
  BY PlansAreTyped
<1>3. CASE tree[plan.ops[i].file] = plan.ops[i].original
  <2>1. AboutAnEmptyLine(patches[k])
    BY <1>1, <1>2, <1>3, PatchIsValid
  <2> QED BY <2>1 DEF RefusedFor
<1>4. CASE \E e \in foreign : e[1] = plan.ops[i].file /\ e[2] \in Underway
  BY <1>4 DEF RefusedFor
<1> QED BY <1>1, <1>3, <1>4 DEF OfTheTree

LEMMA VerifyKeepsPatches ==
  ASSUME RepairInv, PatchesInv, Validate \/ RunRules
  PROVE  PatchesInv'
<1>1. /\ pc \in {"validate", "rules"}
      /\ plan' = plan /\ patches' = patches /\ tree' = tree /\ foreign' = foreign
  BY DEF Validate, RunRules, world
<1>2. OfTheTree(plan.ops, tree, foreign) /\ OfThePlan(plan.ops, patches)
  BY <1>1, PatchesInvIs DEF Underway
<1>3. \/ pc' = "rules"
      \/ pc' = "test" /\ dev'.success
      \/ pc' = "test" /\ \E k \in DOMAIN patches :
           ~validate(tree, patches[k]) \/ \E r \in ToSet(default_rules(tree, patches[k])) : ~r.ok
  <2>1. CASE Validate
    BY <2>1 DEF Validate, Developed
  <2>2. CASE RunRules
    <3>1. pc' = "test" /\ dev'.success = verify(tree, patches)
      BY <2>2 DEF RunRules, Developed
    <3>2. \/ verify(tree, patches)
          \/ \E k \in DOMAIN patches : \E r \in ToSet(default_rules(tree, patches[k])) : ~r.ok
      BY DEF verify
    <3> QED BY <3>1, <3>2
  <2> QED BY <2>1, <2>2
<1>4. CASE pc' = "rules"
  BY <1>1, <1>2, <1>4, PatchesInvStays
<1>5. CASE pc' = "test" /\ dev'.success
  BY <1>5, PatchesInvStays DEF Underway
<1>6. CASE pc' = "test" /\ \E k \in DOMAIN patches :
             ~validate(tree, patches[k]) \/ \E r \in ToSet(default_rules(tree, patches[k])) : ~r.ok
  <2>1. RefusedFor(plan.ops, patches, tree, foreign)
    BY <1>2, <1>6, RefusedForAReason
  <2>2. RefusedFor(plan'.ops, patches', tree', foreign')
    BY <1>1, <2>1
  <2> QED BY <1>6, <2>2, PatchesInvStays DEF Underway
<1> QED BY <1>3, <1>4, <1>5, <1>6

LEMMA ForeignEditKeepsPatches ==
  ASSUME RepairInv, PatchesInv, ForeignEdit
  PROVE  PatchesInv'
<1>1. PICK f \in Files, t \in ForeignTexts :
        tree' = [tree EXCEPT ![f] = t] /\ foreign' = foreign \cup {<<f, pc>>}
  BY DEF ForeignEdit
<1>2. pc' = pc /\ plan' = plan /\ patches' = patches /\ dev' = dev
  BY DEF ForeignEdit, round
<1>3. ASSUME pc \in Underway
      PROVE  OfTheTree(plan.ops, tree', foreign')
  <2>1. OfTheTree(plan.ops, tree, foreign)
    BY <1>3, PatchesInvIs
  <2>2. tree \in [Files -> Contents]
    BY DEF RepairInv, RoundsAreInformed, TypeOK
  <2> SUFFICES ASSUME NEW i \in DOMAIN plan.ops
               PROVE  \/ tree'[plan.ops[i].file] = plan.ops[i].original
                      \/ \E e \in foreign' : e[1] = plan.ops[i].file /\ e[2] \in Underway
    BY DEF OfTheTree
  <2>3. plan.ops[i].file \in Files
    BY PlansAreTyped
  <2>4. CASE plan.ops[i].file = f
    <3>1. <<f, pc>> \in foreign' /\ <<f, pc>>[1] = f /\ <<f, pc>>[2] = pc
      BY <1>1
    <3> QED BY <1>3, <2>4, <3>1
  <2>5. CASE plan.ops[i].file # f
    <3>1. tree'[plan.ops[i].file] = tree[plan.ops[i].file]
      BY <1>1, <2>2, <2>3, <2>5
    <3> QED BY <1>1, <2>1, <3>1 DEF OfTheTree
  <2> QED BY <2>4, <2>5
<1>4. ASSUME RefusedFor(plan.ops, patches, tree, foreign)
      PROVE  RefusedFor(plan.ops, patches, tree', foreign')
  BY <1>1, <1>4 DEF RefusedFor
<1> QED BY <1>2, <1>3, <1>4, PatchesInvIs, PatchesInvStays

LEMMA PatchesStutter ==
  ASSUME PatchesInv, UNCHANGED vars
  PROVE  PatchesInv'
<1>1. pc' = pc /\ plan' = plan /\ patches' = patches /\ dev' = dev /\ tree' = tree /\ foreign' = foreign
  BY DEF vars, round, world
<1> QED BY <1>1, PatchesInvIs, PatchesInvStays

LEMMA PatchesStepKeeps ==
  ASSUME RepairInv, PatchesInv, [Next]_vars
  PROVE  PatchesInv'
<1>1. CASE Develop
  BY <1>1, OtherStepsKeepPatches, ProposeKeepsPatches, GenerateKeepsPatches, VerifyKeepsPatches DEF Develop
<1>2. CASE Execute
  BY <1>2, OtherStepsKeepPatches
<1>3. CASE ForeignEdit
  BY <1>3, ForeignEditKeepsPatches
<1>4. CASE UNCHANGED vars
  BY <1>4, PatchesStutter
<1> QED BY <1>1, <1>2, <1>3, <1>4 DEF Next

LEMMA PatchesAtFirst ==
  ASSUME Init
  PROVE  PatchesInv
<1>1. pc = "decide"
  BY DEF Init
<1> QED BY <1>1, PatchesInvIs DEF Underway

\* PatchGenerator.generate and the verification of what it generated: whatever two texts,
\* the patches put in make the one of the other, and SelfVerifier.verify refuses a plan
\* only for a change of the file meanwhile, an operation without effect, or the empty line
\* a patch cannot name.
THEOREM PatchesRight == Spec => []PatchesAreRight
<1>1. Init => PatchesInv
  BY PatchesAtFirst
<1>2. RepairInv /\ RepairInv' /\ PatchesInv /\ [Next]_vars => PatchesInv'
  BY PatchesStepKeeps
<1>3. RepairInv /\ PatchesInv => PatchesAreRight
  <2> SUFFICES ASSUME RepairInv, PatchesInv
               PROVE  PatchesAreRight
    OBVIOUS
  <2>1. RefusalsAreJustified
    BY DEF PatchesInv
  <2>2. ASSUME NEW i \in DOMAIN plan.ops
        PROVE  \/ PutBack(plan.ops[i].original.lines, generate(plan.ops[i])) = plan.ops[i].new.lines
               \/ PutsAnEmptyLine(plan.ops[i])
    <3>1. plan.ops[i] \in Edit
      BY PlansAreTyped
    <3> QED BY <3>1, PatchesAreOfTheTexts
  <2>3. PatchesRebuild
    BY <2>2 DEF PatchesRebuild, PutsAnEmptyLine
  <2> QED BY <2>1, <2>3 DEF PatchesAreRight
<1>4. Spec => []PatchesInv
  BY <1>1, <1>2, RepairInvariant, PTL DEF Spec
<1> QED BY <1>3, <1>4, RepairInvariant, PTL

-----------------------------------------------------------------------------
(* Parts of a sequence                                                     *)

\* The places of a sequence that are picked, in a row.
LEMMA PickedIs ==
  ASSUME NEW S, NEW s \in Seq(S), NEW I \in SUBSET DOMAIN s
  PROVE  /\ IsFiniteSet(I) /\ Cardinality(I) \in Nat
         /\ Picked(s, I) \in Seq(S) /\ Len(Picked(s, I)) = Cardinality(I)
         /\ \E at \in [1..Cardinality(I) -> I] :
              /\ \A k \in 1..Cardinality(I) : Picked(s, I)[k] = s[at[k]]
              /\ \A k, l \in 1..Cardinality(I) : at[k] = at[l] => k = l
              /\ \A i \in I : \E k \in 1..Cardinality(I) : at[k] = i
<1> DEFINE E == [i \in I |-> {j \in I : j < i}]
           L == InOrder(I, E)
           n == Cardinality(I)
<1>1. \A i \in I : i \in Int /\ i \in DOMAIN s
  OBVIOUS
<1>2. IsFiniteSet(I)
  <2>1. DOMAIN s = 1..Len(s) /\ Len(s) \in Nat
    OBVIOUS
  <2>2. IsFiniteSet(1..Len(s))
    BY <2>1, FS_Interval
  <2> QED BY <2>1, <2>2, FS_Subset
<1>3. /\ E \in [I -> SUBSET I]
      /\ \A x \in I : x \notin E[x]
      /\ \A x, y \in I : x \in E[y] => E[x] \subseteq E[y]
      /\ \A x, y \in I : x # y => x \in E[y] \/ y \in E[x]
  BY <1>1
<1> HIDE DEF E
<1>4. /\ n \in Nat /\ L \in Seq(I) /\ Len(L) = n
      /\ \A x \in I : Cardinality(E[x]) + 1 \in 1..n /\ L[Cardinality(E[x]) + 1] = x
      /\ \A i \in 1..n : L[i] \in I /\ Cardinality(E[L[i]]) + 1 = i
  BY <1>2, <1>3, InOrderIs
<1>5. Picked(s, I) = [k \in DOMAIN L |-> s[L[k]]]
  BY DEF Picked, E
<1> HIDE DEF L, n
<1>6. DOMAIN L = 1..n /\ L \in [1..n -> I]
  BY <1>4
<1>7. \A k \in 1..n : s[L[k]] \in S
  BY <1>1, <1>6
<1>8. Picked(s, I) \in Seq(S) /\ Len(Picked(s, I)) = n
  BY <1>4, <1>5, <1>6, <1>7
<1>9. \A k \in 1..n : Picked(s, I)[k] = s[L[k]]
  BY <1>5, <1>6
<1>10. \A k, l \in 1..n : L[k] = L[l] => k = l
  BY <1>4
<1>11. \A i \in I : \E k \in 1..n : L[k] = i
  BY <1>4
<1> QED BY <1>2, <1>4, <1>6, <1>8, <1>9, <1>10, <1>11 DEF n

\* What is picked is there.
LEMMA PickedAll ==
  ASSUME NEW S, NEW s \in Seq(S), NEW I \in SUBSET DOMAIN s
  PROVE  \A i \in I : \E k \in 1..Cardinality(I) : Picked(s, I)[k] = s[i]
<1>1. PICK at \in [1..Cardinality(I) -> I] :
        /\ \A k \in 1..Cardinality(I) : Picked(s, I)[k] = s[at[k]]
        /\ \A i \in I : \E k \in 1..Cardinality(I) : at[k] = i
  BY PickedIs, SMTT(60)
<1> QED BY <1>1

\* Every member of a sequence is in what it holds once, and only once.
LEMMA OnceIs ==
  ASSUME NEW S, NEW s \in Seq(S)
  PROVE  /\ Once(s) \in Seq(S)
         /\ \A i \in DOMAIN s : \E k \in DOMAIN Once(s) : Once(s)[k] = s[i]
         /\ \A k \in DOMAIN Once(s) : \E i \in DOMAIN s : Once(s)[k] = s[i]
         /\ \A k, l \in DOMAIN Once(s) : Once(s)[k] = Once(s)[l] => k = l
<1> DEFINE I == {i \in DOMAIN s : \A j \in 1..(i - 1) : s[j] # s[i]}
           n == Cardinality(I)
<1>0. I \in SUBSET DOMAIN s /\ Once(s) = Picked(s, I)
  BY DEF Once
<1>1. \A i \in DOMAIN s : \E k \in I : s[k] = s[i]
  <2> TAKE i \in DOMAIN s
  <2> DEFINE K == {k \in DOMAIN s : s[k] = s[i]}
  <2>1. K \in SUBSET Nat /\ K # {}
    OBVIOUS
  <2>2. Min(K) \in K /\ \A x \in K : Min(K) <= x
    BY <2>1, First
  <2>3. \A j \in 1..(Min(K) - 1) : s[j] # s[Min(K)]
    <3> TAKE j \in 1..(Min(K) - 1)
    <3>1. Min(K) \in DOMAIN s /\ DOMAIN s = 1..Len(s) /\ Len(s) \in Nat
      BY <2>2
    <3>2. j \in DOMAIN s /\ ~(Min(K) <= j)
      BY <3>1
    <3> QED BY <2>2, <3>2
  <2> QED BY <2>2, <2>3
<1>2. \A i, j \in I : s[i] = s[j] => i = j
  <2> SUFFICES ASSUME NEW i \in I, NEW j \in I, s[i] = s[j], i # j
               PROVE  FALSE
    OBVIOUS
  <2>1. i \in Int /\ j \in Int /\ 1 <= i /\ 1 <= j
    OBVIOUS
  <2>2. i < j \/ j < i
    BY <2>1
  <2>3. i \in 1..(j - 1) \/ j \in 1..(i - 1)
    BY <2>1, <2>2
  <2> QED BY <2>3
<1> HIDE DEF I
<1>3. /\ n \in Nat /\ Once(s) \in Seq(S) /\ Len(Once(s)) = n
      /\ \E at \in [1..n -> I] :
           /\ \A k \in 1..n : Once(s)[k] = s[at[k]]
           /\ \A k, l \in 1..n : at[k] = at[l] => k = l
           /\ \A i \in I : \E k \in 1..n : at[k] = i
  BY <1>0, PickedIs
<1>4. PICK at \in [1..n -> I] :
        /\ \A k \in 1..n : Once(s)[k] = s[at[k]]
        /\ \A k, l \in 1..n : at[k] = at[l] => k = l
        /\ \A i \in I : \E k \in 1..n : at[k] = i
  BY <1>3
<1>5. DOMAIN Once(s) = 1..n
  BY <1>3
<1> HIDE DEF n
<1>6. \A i \in DOMAIN s : \E k \in DOMAIN Once(s) : Once(s)[k] = s[i]
  BY <1>1, <1>4, <1>5
<1>7. \A k \in DOMAIN Once(s) : at[k] \in DOMAIN s /\ Once(s)[k] = s[at[k]]
  BY <1>0, <1>4, <1>5
<1>8. \A k, l \in DOMAIN Once(s) : Once(s)[k] = Once(s)[l] => k = l
  BY <1>2, <1>4, <1>5
<1> QED BY <1>3, <1>6, <1>7, <1>8

-----------------------------------------------------------------------------
(* What goals depend on                                                    *)

\* What a goal names is finitely often a goal.
IsGraph(adj) == IsFiniteSet(DOMAIN adj) /\ adj \in [DOMAIN adj -> Seq(GoalId)]

LEMMA InsideIs ==
  ASSUME NEW adj, NEW a \in DOMAIN adj
  PROVE  /\ Inside(adj, a) \subseteq DOMAIN adj
         /\ \A b : b \in Inside(adj, a) <=> b \in DOMAIN adj /\ \E k \in DOMAIN adj[a] : adj[a][k] = b
BY DEF Inside, ToSet

LEMMA BelowIs ==
  ASSUME NEW adj, NEW a \in DOMAIN adj
  PROVE  /\ Below(adj, a) \subseteq DOMAIN adj
         /\ Inside(adj, a) \subseteq Below(adj, a)
         /\ IsClosed(adj, Below(adj, a))
         /\ \A S \in SUBSET DOMAIN adj :
              Inside(adj, a) \subseteq S /\ IsClosed(adj, S) => Below(adj, a) \subseteq S
<1>1. \A b \in DOMAIN adj : Inside(adj, b) \subseteq DOMAIN adj
  BY InsideIs
<1>2. Below(adj, a) \subseteq DOMAIN adj
  BY DEF Below
<1>3. \A b \in DOMAIN adj :
        b \in Below(adj, a) <=> \A S \in SUBSET DOMAIN adj :
                                  Inside(adj, a) \subseteq S /\ IsClosed(adj, S) => b \in S
  BY DEF Below
<1>4. Inside(adj, a) \subseteq Below(adj, a)
  BY <1>1, <1>3
<1>5. ASSUME NEW b \in Below(adj, a), NEW c \in Inside(adj, b)
      PROVE  c \in Below(adj, a)
  <2>1. b \in DOMAIN adj /\ c \in DOMAIN adj
    BY <1>1, <1>2
  <2>2. ASSUME NEW S \in SUBSET DOMAIN adj, Inside(adj, a) \subseteq S, IsClosed(adj, S)
        PROVE  c \in S
    <3>1. b \in S
      BY <1>3, <2>1, <2>2
    <3> QED BY <2>2, <3>1 DEF IsClosed
  <2> QED BY <1>3, <2>1, <2>2
<1>6. IsClosed(adj, Below(adj, a))
  BY <1>5 DEF IsClosed
<1>7. \A S \in SUBSET DOMAIN adj :
        Inside(adj, a) \subseteq S /\ IsClosed(adj, S) => Below(adj, a) \subseteq S
  BY <1>2, <1>3
<1> QED BY <1>2, <1>4, <1>6, <1>7

\* What is below something below is below.
LEMMA BelowThatIsBelow ==
  ASSUME NEW adj, NEW a \in DOMAIN adj, NEW b \in Below(adj, a)
  PROVE  b \in DOMAIN adj /\ Below(adj, b) \subseteq Below(adj, a)
<1>1. b \in DOMAIN adj /\ IsClosed(adj, Below(adj, a)) /\ Below(adj, a) \subseteq DOMAIN adj
  BY BelowIs
<1>2. Inside(adj, b) \subseteq Below(adj, a)
  BY <1>1 DEF IsClosed
<1> QED BY <1>1, <1>2, BelowIs

\* A cycle goes through something that is below itself.
LEMMA CycleIsBelowItself ==
  ASSUME NEW adj, NEW c \in Seq(DOMAIN adj), IsCycle(adj, c)
  PROVE  \E a \in DOMAIN adj : a \in Below(adj, a)
<1>1. /\ Len(c) \in Nat /\ Len(c) > 1 /\ c[1] = c[Len(c)] /\ c[1] \in DOMAIN adj
      /\ \A i \in 1..Len(c) : c[i] \in DOMAIN adj
      /\ \A i \in 1..(Len(c) - 1) : c[i + 1] \in Inside(adj, c[i])
  BY DEF IsCycle, Last
<1> DEFINE a == c[1]
           N == {n \in Nat : n + 2 <= Len(c) => c[n + 2] \in Below(adj, a)}
<1>2. Inside(adj, a) \subseteq Below(adj, a) /\ IsClosed(adj, Below(adj, a))
  BY <1>1, BelowIs
<1>3. 0 \in N
  <2>1. c[1 + 1] \in Inside(adj, c[1])
    BY <1>1
  <2>2. c[0 + 2] \in Below(adj, a)
    BY <1>2, <2>1
  <2> QED BY <2>2
<1>4. ASSUME NEW n \in Nat, n \in N
      PROVE  n + 1 \in N
  <2>1. SUFFICES ASSUME (n + 1) + 2 <= Len(c)
                 PROVE  c[(n + 1) + 2] \in Below(adj, a)
    OBVIOUS
  <2>2. c[n + 2] \in Below(adj, a) /\ n + 2 \in 1..(Len(c) - 1)
    BY <1>1, <1>4, <2>1
  <2>3. c[(n + 2) + 1] \in Inside(adj, c[n + 2])
    BY <1>1, <2>2
  <2>4. c[(n + 2) + 1] \in Below(adj, a)
    BY <1>2, <2>2, <2>3 DEF IsClosed
  <2>5. (n + 2) + 1 = (n + 1) + 2
    OBVIOUS
  <2> QED BY <2>4, <2>5
<1>5. \A n \in Nat : n \in N
  <2> HIDE DEF N
  <2> QED BY <1>3, <1>4, Induction
<1>6. Len(c) - 2 \in N
  <2> HIDE DEF N, a
  <2>1. Len(c) - 2 \in Nat
    BY <1>1
  <2> QED BY <1>5, <2>1
<1>7. c[Len(c)] \in Below(adj, a)
  <2>1. (Len(c) - 2) + 2 = Len(c)
    BY <1>1
  <2> QED BY <1>1, <1>6, <2>1
<1> QED BY <1>1, <1>7

\* What there is below is finite, and less the further down without cycles.
LEMMA LessBelow ==
  ASSUME NEW adj, IsGraph(adj), NEW a \in DOMAIN adj
  PROVE  /\ IsFiniteSet(Below(adj, a)) /\ Cardinality(Below(adj, a)) \in Nat
         /\ \A b \in Below(adj, a) :
              /\ Cardinality(Below(adj, b)) \in Nat
              /\ b \notin Below(adj, b) => Cardinality(Below(adj, b)) < Cardinality(Below(adj, a))
<1>1. \A b \in DOMAIN adj : IsFiniteSet(Below(adj, b)) /\ Cardinality(Below(adj, b)) \in Nat
  <2> TAKE b \in DOMAIN adj
  <2>1. Below(adj, b) \in SUBSET DOMAIN adj /\ IsFiniteSet(DOMAIN adj)
    BY BelowIs DEF IsGraph
  <2>2. IsFiniteSet(Below(adj, b))
    BY <2>1, FS_Subset
  <2> QED BY <2>2, FS_CardinalityType
<1>2. ASSUME NEW b \in Below(adj, a), b \notin Below(adj, b)
      PROVE  Cardinality(Below(adj, b)) < Cardinality(Below(adj, a))
  <2>1. b \in DOMAIN adj /\ Below(adj, b) \in SUBSET Below(adj, a) /\ Below(adj, b) # Below(adj, a)
    BY <1>2, BelowThatIsBelow
  <2>2. /\ Cardinality(Below(adj, b)) <= Cardinality(Below(adj, a))
        /\ Cardinality(Below(adj, b)) # Cardinality(Below(adj, a))
    BY <1>1, <2>1, FS_Subset
  <2> QED BY <1>1, <2>1, <2>2
<1>3. \A b \in Below(adj, a) : b \in DOMAIN adj
  BY BelowIs
<1> QED BY <1>1, <1>2, <1>3

-----------------------------------------------------------------------------
(* Recursion over what is left                                             *)

\* By induction over a measure.
LEMMA ByMeasure ==
  ASSUME NEW A, NEW m \in [A -> Nat], NEW G \in SUBSET A,
         \A a \in A : (\A b \in A : m[b] < m[a] => b \in G) => a \in G
  PROVE  \A a \in A : a \in G
<1> SUFFICES ASSUME NEW x \in A \ G
             PROVE  FALSE
  OBVIOUS
<1> DEFINE M == {m[b] : b \in A \ G}
<1>1. M \in SUBSET Nat /\ M # {}
  OBVIOUS
<1>2. Min(M) \in M /\ \A n \in M : Min(M) <= n
  BY <1>1, First
<1>3. PICK a \in A \ G : Min(M) = m[a]
  BY <1>2
<1>4. \A b \in A : m[b] < m[a] => b \in G
  <2> SUFFICES ASSUME NEW b \in A, m[b] < m[a], b \notin G
               PROVE  FALSE
    OBVIOUS
  <2>1. m[b] \in M
    OBVIOUS
  <2> HIDE DEF M
  <2>2. m[a] <= m[b] /\ m[a] \in Nat /\ m[b] \in Nat
    BY <1>2, <1>3, <2>1
  <2> QED BY <2>2
<1> QED BY <1>3, <1>4

\* A function may be defined by what it is at places of less measure: B is what its body
\* makes of a place and of a function, R what the body makes of functions that are right so far.
IsRecursive(A, Z, m, R, B) ==
  /\ Z # {} /\ m \in [A -> Nat] /\ R \in [A -> SUBSET Z]
  /\ \A f \in [A -> Z], a \in A : (\A b \in A : m[b] < m[a] => f[b] \in R[b]) => B[<<f, a>>] \in R[a]
  /\ \A f, g \in [A -> Z], a \in A :
       (\A b \in A : m[b] < m[a] => f[b] \in R[b] /\ f[b] = g[b]) => B[<<f, a>>] = B[<<g, a>>]

LEMMA Recursion ==
  ASSUME NEW A, NEW Z, NEW m, NEW R, NEW B, IsRecursive(A, Z, m, R, B)
  PROVE  \E f \in [A -> Z] : \A a \in A : f[a] = B[<<f, a>>] /\ f[a] \in R[a]
<1>a. PICK z : z \in Z
  BY DEF IsRecursive
<1>b. m \in [A -> Nat] /\ R \in [A -> SUBSET Z]
  BY DEF IsRecursive
<1>c. \A f \in [A -> Z], a \in A : (\A b \in A : m[b] < m[a] => f[b] \in R[b]) => B[<<f, a>>] \in R[a]
  BY DEF IsRecursive
<1>d. \A f, g \in [A -> Z], a \in A :
        (\A b \in A : m[b] < m[a] => f[b] \in R[b] /\ f[b] = g[b]) => B[<<f, a>>] = B[<<g, a>>]
  BY DEF IsRecursive
<1> DEFINE Upto(f, n) == \A a \in A : m[a] < n => f[a] = B[<<f, a>>] /\ f[a] \in R[a]
           N == {n \in Nat : \E f \in [A -> Z] : Upto(f, n)}
           Next1(f, n) == [a \in A |-> IF m[a] < n THEN f[a] ELSE IF B[<<f, a>>] \in Z THEN B[<<f, a>>] ELSE z]
<1>1. \A a \in A : m[a] \in Nat
  BY <1>b
<1>2. 0 \in N
  <2>1. [a \in A |-> z] \in [A -> Z]
    BY <1>a
  <2>2. \A a \in A : ~(m[a] < 0)
    BY <1>1
  <2> QED BY <2>1, <2>2
<1>3. ASSUME NEW n \in Nat, NEW f \in [A -> Z], Upto(f, n)
      PROVE  Next1(f, n) \in [A -> Z] /\ Upto(Next1(f, n), n + 1)
  <2> DEFINE g == Next1(f, n)
  <2>1. g \in [A -> Z]
    BY <1>a
  <2>2. ASSUME NEW a \in A, m[a] < n + 1
        PROVE  g[a] = B[<<f, a>>] /\ g[a] \in R[a]
    <3>1. \A b \in A : m[b] < m[a] => f[b] \in R[b]
      <4> TAKE b \in A
      <4> HAVE m[b] < m[a]
      <4>1. m[b] < n
        BY <1>1, <2>2
      <4> QED BY <1>3, <4>1
    <3>2. B[<<f, a>>] \in R[a] /\ R[a] \subseteq Z
      BY <1>b, <1>c, <3>1
    <3>3. CASE m[a] < n
      BY <1>3, <3>3
    <3>4. CASE ~(m[a] < n)
      BY <3>2, <3>4
    <3> QED BY <3>3, <3>4
  <2>3. \A a \in A : m[a] < n => g[a] = f[a]
    OBVIOUS
  <2> HIDE DEF g
  <2>4. ASSUME NEW a \in A, m[a] < n + 1
        PROVE  B[<<f, a>>] = B[<<g, a>>]
    <3>1. \A b \in A : m[b] < m[a] => f[b] \in R[b] /\ f[b] = g[b]
      <4> TAKE b \in A
      <4> HAVE m[b] < m[a]
      <4>1. m[b] < n
        BY <1>1, <2>4
      <4> QED BY <1>3, <2>3, <4>1
    <3> QED BY <1>d, <2>1, <3>1
  <2>5. Upto(g, n + 1)
    BY <2>2, <2>4
  <2> QED BY <2>1, <2>5 DEF g
<1> HIDE DEF Next1
<1>4. \A n \in Nat : n \in N => n + 1 \in N
  <2> TAKE n \in Nat
  <2> HAVE n \in N
  <2>1. PICK f \in [A -> Z] : Upto(f, n)
    OBVIOUS
  <2> HIDE DEF Upto
  <2>2. Next1(f, n) \in [A -> Z] /\ Upto(Next1(f, n), n + 1)
    BY <1>3, <2>1
  <2> QED BY <2>2
<1>5. \A n \in Nat : n \in N
  <2> HIDE DEF N
  <2> QED BY <1>2, <1>4, Induction
<1>6. \A n \in Nat : \E f \in [A -> Z] : Upto(f, n)
  BY <1>5
<1> DEFINE F == [n \in Nat |-> CHOOSE f \in [A -> Z] : Upto(f, n)]
<1>7. \A n \in Nat : F[n] \in [A -> Z] /\ Upto(F[n], n)
  <2> HIDE DEF Upto
  <2> QED BY <1>6
<1> HIDE DEF F
\* Two that are right as far as a place agree there.
<1>8. \A k, n \in Nat : \A a \in A : m[a] < k /\ m[a] < n => F[k][a] = F[n][a]
  <2> SUFFICES ASSUME NEW k \in Nat, NEW n \in Nat
               PROVE  \A a \in A : m[a] < k /\ m[a] < n => F[k][a] = F[n][a]
    OBVIOUS
  <2> DEFINE G == {a \in A : m[a] < k /\ m[a] < n => F[k][a] = F[n][a]}
  <2>1. ASSUME NEW a \in A, \A b \in A : m[b] < m[a] => b \in G
        PROVE  a \in G
    <3> SUFFICES ASSUME m[a] < k, m[a] < n
                 PROVE  F[k][a] = F[n][a]
      OBVIOUS
    <3>1. \A b \in A : m[b] < m[a] => F[k][b] \in R[b] /\ F[k][b] = F[n][b]
      <4> TAKE b \in A
      <4> HAVE m[b] < m[a]
      <4>1. m[b] < k /\ m[b] < n
        BY <1>1
      <4> QED BY <1>7, <2>1, <4>1
    <3>2. B[<<F[k], a>>] = B[<<F[n], a>>]
      BY <1>d, <1>7, <3>1
    <3> QED BY <1>7, <3>2
  <2> HIDE DEF G
  <2>2. G \in SUBSET A
    BY DEF G
  <2>3. \A a \in A : a \in G
    BY <1>b, <2>1, <2>2, ByMeasure
  <2> QED BY <2>3 DEF G
<1> DEFINE h == [a \in A |-> F[m[a] + 1][a]]
<1>9. h \in [A -> Z]
  BY <1>1, <1>7
<1>10. ASSUME NEW a \in A
       PROVE  h[a] = B[<<h, a>>] /\ h[a] \in R[a]
  <2>1. m[a] \in Nat /\ m[a] + 1 \in Nat /\ m[a] < m[a] + 1
    BY <1>1
  <2>2. h[a] = F[m[a] + 1][a]
    OBVIOUS
  <2>3. F[m[a] + 1] \in [A -> Z] /\ F[m[a] + 1][a] = B[<<F[m[a] + 1], a>>] /\ F[m[a] + 1][a] \in R[a]
    BY <1>7, <2>1
  <2>4. \A b \in A : m[b] < m[a] => F[m[a] + 1][b] \in R[b] /\ F[m[a] + 1][b] = h[b]
    <3> TAKE b \in A
    <3> HAVE m[b] < m[a]
    <3>1. m[b] \in Nat /\ m[b] + 1 \in Nat /\ m[b] < m[b] + 1 /\ m[b] < m[a] + 1
      BY <1>1
    <3>2. F[m[a] + 1][b] = F[m[b] + 1][b]
      BY <1>8, <2>1, <3>1
    <3> QED BY <1>7, <2>1, <3>1, <3>2
  <2> HIDE DEF h
  <2>5. B[<<F[m[a] + 1], a>>] = B[<<h, a>>]
    BY <1>d, <1>9, <2>3, <2>4
  <2> QED BY <2>2, <2>3, <2>5
<1> QED BY <1>9, <1>10

-----------------------------------------------------------------------------
(* What a search has left                                                  *)

\* Whether a node was entered, and which of its dependencies were looked at.
Looks(adj) == UNION {{id} \X (0..Len(adj[id])) : id \in DOMAIN adj}
Rest(adj, V, node, next) == {e \in Looks(adj) : e[1] \notin V \/ (e[1] = node /\ e[2] >= next)}
Unseen(adj, V, node, next) == Cardinality(Rest(adj, V, node, next))

LEMMA LooksAre ==
  ASSUME NEW adj, IsGraph(adj)
  PROVE  /\ IsFiniteSet(Looks(adj))
         /\ \A id \in DOMAIN adj, k \in Nat : k <= Len(adj[id]) => <<id, k>> \in Looks(adj)
         /\ \A e \in Looks(adj) : e[1] \in DOMAIN adj /\ e[2] \in Nat
<1> DEFINE Of == [id \in DOMAIN adj |-> {id} \X (0..Len(adj[id]))]
           All == {Of[id] : id \in DOMAIN adj}
<1>1. \A id \in DOMAIN adj : Len(adj[id]) \in Nat
  BY DEF IsGraph
<1>2. ASSUME NEW id \in DOMAIN adj
      PROVE  IsFiniteSet(Of[id])
  <2>1. IsFiniteSet(0..Len(adj[id]))
    BY <1>1, FS_Interval
  <2>2. IsFiniteSet({id})
    BY FS_Singleton
  <2>3. IsFiniteSet({id} \X (0..Len(adj[id])))
    BY <2>1, <2>2, FS_Product
  <2> QED BY <2>3
<1>3. Looks(adj) = UNION All
  BY DEF Looks
<1>4. IsFiniteSet(All)
  <2>1. IsFiniteSet(DOMAIN adj)
    BY DEF IsGraph
  <2>2. Of \in Surjection(DOMAIN adj, All)
    BY DEF Surjection
  <2> HIDE DEF Of, All
  <2> QED BY <2>1, <2>2, FS_Surjection
<1>5. \A T \in All : IsFiniteSet(T)
  BY <1>2
<1>6. IsFiniteSet(Looks(adj))
  <2> HIDE DEF All
  <2> QED BY <1>3, <1>4, <1>5, FS_UNION
<1>7. \A id \in DOMAIN adj, k \in Nat : k <= Len(adj[id]) => <<id, k>> \in Looks(adj)
  BY <1>1 DEF Looks
<1>8. \A e \in Looks(adj) : e[1] \in DOMAIN adj /\ e[2] \in Nat
  BY <1>1 DEF Looks
<1> QED BY <1>6, <1>7, <1>8

LEMMA RestIs ==
  ASSUME NEW adj, IsGraph(adj), NEW V, NEW node, NEW next
  PROVE  IsFiniteSet(Rest(adj, V, node, next)) /\ Unseen(adj, V, node, next) \in Nat
<1>1. Rest(adj, V, node, next) \in SUBSET Looks(adj) /\ IsFiniteSet(Looks(adj))
  BY LooksAre DEF Rest
<1>2. IsFiniteSet(Rest(adj, V, node, next))
  BY <1>1, FS_Subset
<1> QED BY <1>2, FS_CardinalityType DEF Unseen

LEMMA SmallerRest ==
  ASSUME NEW adj, IsGraph(adj), NEW V, NEW node, NEW next, NEW W, NEW n, NEW k,
         Rest(adj, W, n, k) \subseteq Rest(adj, V, node, next), Rest(adj, W, n, k) # Rest(adj, V, node, next)
  PROVE  Unseen(adj, W, n, k) < Unseen(adj, V, node, next)
<1>1. /\ IsFiniteSet(Rest(adj, V, node, next)) /\ Rest(adj, W, n, k) \in SUBSET Rest(adj, V, node, next)
      /\ Unseen(adj, V, node, next) \in Nat /\ Unseen(adj, W, n, k) \in Nat
  BY RestIs
<1>2. /\ Cardinality(Rest(adj, W, n, k)) <= Cardinality(Rest(adj, V, node, next))
      /\ Cardinality(Rest(adj, W, n, k)) # Cardinality(Rest(adj, V, node, next))
  BY <1>1, FS_Subset
<1> QED BY <1>1, <1>2 DEF Unseen

\* Less is left behind a node that is entered.
LEMMA LessToEnter ==
  ASSUME NEW adj, IsGraph(adj), NEW V, NEW node, NEW next, NEW dep \in DOMAIN adj \ V
  PROVE  Unseen(adj, V \cup {dep}, dep, 1) < Unseen(adj, V, node, next)
<1>1. Rest(adj, V \cup {dep}, dep, 1) \subseteq Rest(adj, V, node, next)
  BY DEF Rest
<1>2. <<dep, 0>> \in Rest(adj, V, node, next)
  <2>1. Len(adj[dep]) \in Nat
    BY DEF IsGraph
  <2>2. <<dep, 0>> \in Looks(adj)
    BY <2>1, LooksAre
  <2> QED BY <2>2 DEF Rest
<1>3. <<dep, 0>> \notin Rest(adj, V \cup {dep}, dep, 1)
  BY DEF Rest
<1> QED BY <1>1, <1>2, <1>3, SmallerRest

\* Less is left behind a dependency that was looked at.
LEMMA LessToLookAt ==
  ASSUME NEW adj, IsGraph(adj), NEW V, NEW W, V \subseteq W, NEW node \in DOMAIN adj, node \in V,
         NEW next \in Nat, next <= Len(adj[node])
  PROVE  Unseen(adj, W, node, next + 1) < Unseen(adj, V, node, next)
<1>1. Rest(adj, W, node, next + 1) \subseteq Rest(adj, V, node, next)
  <2> SUFFICES ASSUME NEW e \in Rest(adj, W, node, next + 1)
               PROVE  e \in Rest(adj, V, node, next)
    OBVIOUS
  <2>1. e \in Looks(adj) /\ e[2] \in Nat /\ (e[1] \notin W \/ (e[1] = node /\ e[2] >= next + 1))
    BY LooksAre DEF Rest
  <2>2. e[1] \notin V \/ (e[1] = node /\ e[2] >= next)
    BY <2>1
  <2> QED BY <2>1, <2>2 DEF Rest
<1>2. <<node, next>> \in Rest(adj, V, node, next)
  <2>1. <<node, next>> \in Looks(adj)
    BY LooksAre
  <2> QED BY <2>1 DEF Rest
<1>3. <<node, next>> \notin Rest(adj, W, node, next + 1)
  BY DEF Rest
<1> QED BY <1>1, <1>2, <1>3, SmallerRest

-----------------------------------------------------------------------------
(* The search for a cycle                                                  *)

Searches(adj) == [path : Seq(DOMAIN adj) \ {<<>>}, next : Nat \ {0}, black : SUBSET DOMAIN adj]
Answers(adj) == [cycle : Seq(DOMAIN adj), black : SUBSET DOMAIN adj]
Visit(visit, adj, s) ==
  LET node == Last(s.path)
      dep == adj[node][s.next]
      grey == {i \in DOMAIN s.path : s.path[i] = dep}
      below == visit[[path |-> Append(s.path, dep), next |-> 1, black |-> s.black]]
  IN IF s.next > Len(adj[node]) THEN [cycle |-> <<>>, black |-> s.black \cup {node}]
     ELSE IF dep \notin DOMAIN adj \/ dep \in s.black THEN visit[[s EXCEPT !.next = @ + 1]]
     ELSE IF grey # {}
          THEN [cycle |-> <<node>> \o SubSeq(s.path, Min(grey), Len(s.path)), black |-> s.black]
     ELSE IF below.cycle # <<>> THEN below
     ELSE visit[[s EXCEPT !.next = @ + 1, !.black = below.black]]

LEMMA DfsIs ==
  ASSUME NEW adj
  PROVE  dfs(adj) = CHOOSE f : f = [s \in Searches(adj) |-> Visit(f, adj, s)]
BY DEF dfs, Searches, Visit

\* The dependency a search looks at, where it is on the path, and where the search goes on.
Looked(adj, s) == adj[Last(s.path)][s.next]
Grey(adj, s) == {i \in DOMAIN s.path : s.path[i] = Looked(adj, s)}
Closing(adj, s) == <<Last(s.path)>> \o SubSeq(s.path, Min(Grey(adj, s)), Len(s.path))
On(s, black) == [path |-> s.path, next |-> s.next + 1, black |-> black]
Down(adj, s) == [path |-> Append(s.path, Looked(adj, s)), next |-> 1, black |-> s.black]

\* What a step of the search does, whatever the rest of it answers.
LEMMA VisitIs ==
  ASSUME NEW adj, IsGraph(adj), NEW visit, NEW s \in Searches(adj)
  PROVE  /\ Last(s.path) \in DOMAIN adj /\ s.next \in Nat \ {0} /\ Len(adj[Last(s.path)]) \in Nat
         /\ s.next > Len(adj[Last(s.path)]) =>
              Visit(visit, adj, s) = [cycle |-> <<>>, black |-> s.black \cup {Last(s.path)}]
         /\ s.next <= Len(adj[Last(s.path)]) =>
              /\ Looked(adj, s) \in DOMAIN adj => Looked(adj, s) \in Inside(adj, Last(s.path))
              /\ Looked(adj, s) \notin DOMAIN adj \/ Looked(adj, s) \in s.black =>
                   Visit(visit, adj, s) = visit[On(s, s.black)]
              /\ Looked(adj, s) \in DOMAIN adj /\ Looked(adj, s) \notin s.black =>
                   /\ Grey(adj, s) # {} =>
                        Visit(visit, adj, s) = [cycle |-> Closing(adj, s), black |-> s.black]
                   /\ Grey(adj, s) = {} /\ visit[Down(adj, s)].cycle # <<>> =>
                        Visit(visit, adj, s) = visit[Down(adj, s)]
                   /\ Grey(adj, s) = {} /\ visit[Down(adj, s)].cycle = <<>> =>
                        Visit(visit, adj, s) = visit[On(s, visit[Down(adj, s)].black)]
<1> DEFINE node == Last(s.path)
           dep == Looked(adj, s)
<1>1. s.path \in Seq(DOMAIN adj) /\ s.path # <<>> /\ s.next \in Nat \ {0} /\ s.black \in SUBSET DOMAIN adj
  BY DEF Searches
<1>2. node \in DOMAIN adj
  BY <1>1 DEF Last
<1>3. adj[node] \in Seq(GoalId)
  BY <1>2 DEF IsGraph
<1>4. /\ s.next \in Nat /\ s.next \in Int /\ Len(adj[node]) \in Nat
      /\ s.next > Len(adj[node]) <=> ~(s.next <= Len(adj[node]))
  BY <1>1, <1>3
<1>5. [s EXCEPT !.next = @ + 1] = On(s, s.black)
  BY DEF Searches, On
<1>6. \A b : [s EXCEPT !.next = @ + 1, !.black = b] = On(s, b)
  <2> TAKE b
  <2>1. [s EXCEPT !.next = @ + 1, !.black = b] = [[s EXCEPT !.next = @ + 1] EXCEPT !.black = b]
    OBVIOUS
  <2>2. [[s EXCEPT !.next = @ + 1] EXCEPT !.black = b] = [On(s, s.black) EXCEPT !.black = b]
    BY <1>5
  <2>3. [On(s, s.black) EXCEPT !.black = b] = On(s, b)
    BY DEF On
  <2> QED BY <2>1, <2>2, <2>3
<1>7. Visit(visit, adj, s) =
        IF s.next > Len(adj[node]) THEN [cycle |-> <<>>, black |-> s.black \cup {node}]
        ELSE IF dep \notin DOMAIN adj \/ dep \in s.black THEN visit[[s EXCEPT !.next = @ + 1]]
        ELSE IF Grey(adj, s) # {} THEN [cycle |-> Closing(adj, s), black |-> s.black]
        ELSE IF visit[Down(adj, s)].cycle # <<>> THEN visit[Down(adj, s)]
        ELSE visit[[s EXCEPT !.next = @ + 1, !.black = visit[Down(adj, s)].black]]
  BY Zenon DEF Visit, Looked, Grey, Closing, Down
<1>8. Visit(visit, adj, s) =
        IF s.next > Len(adj[node]) THEN [cycle |-> <<>>, black |-> s.black \cup {node}]
        ELSE IF dep \notin DOMAIN adj \/ dep \in s.black THEN visit[On(s, s.black)]
        ELSE IF Grey(adj, s) # {} THEN [cycle |-> Closing(adj, s), black |-> s.black]
        ELSE IF visit[Down(adj, s)].cycle # <<>> THEN visit[Down(adj, s)]
        ELSE visit[On(s, visit[Down(adj, s)].black)]
  BY <1>5, <1>6, <1>7
<1>9. s.next <= Len(adj[node]) /\ dep \in DOMAIN adj => dep \in Inside(adj, node)
  <2>1. s.next <= Len(adj[node]) => s.next \in DOMAIN adj[node]
    BY <1>1, <1>3
  <2> QED BY <1>2, <2>1, InsideIs DEF Looked
<1> QED BY <1>1, <1>2, <1>4, <1>8, <1>9


\* What the search has found black has nothing on a cycle below it.
Acyclic(adj, S) == S \subseteq DOMAIN adj /\ IsClosed(adj, S) /\ \A b \in S : b \notin Below(adj, b)

\* Where the search may be, and what it then answers.
Ready(adj, s) ==
  /\ \A i \in 1..(Len(s.path) - 1) : s.path[i + 1] \in Inside(adj, s.path[i])
  /\ \A i, j \in 1..Len(s.path) : s.path[i] = s.path[j] => i = j
  /\ Acyclic(adj, s.black)
  /\ \A i \in 1..Len(s.path) : s.path[i] \notin s.black
  /\ \A k \in DOMAIN adj[Last(s.path)] :
       k < s.next /\ adj[Last(s.path)][k] \in DOMAIN adj => adj[Last(s.path)][k] \in s.black
Found(adj, s, r) ==
  /\ r \in Answers(adj)
  /\ r.cycle # <<>> => IsCycle(adj, r.cycle)
  /\ r.cycle = <<>> => /\ Acyclic(adj, r.black) /\ s.black \subseteq r.black /\ Last(s.path) \in r.black
                       /\ \A i \in 1..(Len(s.path) - 1) : s.path[i] \notin r.black
MayAnswer(adj, s, r) == r \in Answers(adj) /\ (Ready(adj, s) => Found(adj, s, r))

\* How much is left to look at.
ToGo(adj) == [s \in Searches(adj) |-> Unseen(adj, ToSet(s.path), Last(s.path), s.next)]

LEMMA PathIs ==
  ASSUME NEW adj, NEW s \in Searches(adj)
  PROVE  /\ s.path \in Seq(DOMAIN adj) /\ Len(s.path) \in Nat \ {0} /\ DOMAIN s.path = 1..Len(s.path)
         /\ \A i \in 1..Len(s.path) : s.path[i] \in DOMAIN adj
         /\ Last(s.path) = s.path[Len(s.path)] /\ Last(s.path) \in DOMAIN adj
         /\ ToSet(s.path) = {s.path[i] : i \in 1..Len(s.path)} /\ Last(s.path) \in ToSet(s.path)
         /\ s.next \in Nat \ {0} /\ s.black \in SUBSET DOMAIN adj
         /\ s = [path |-> s.path, next |-> s.next, black |-> s.black]
BY DEF Searches, Last, ToSet

\* The next dependency, and the one below this one, are less to look at.
LEMMA LessToGo ==
  ASSUME NEW adj, IsGraph(adj), NEW s \in Searches(adj), s.next <= Len(adj[Last(s.path)])
  PROVE  /\ \A b \in SUBSET DOMAIN adj : On(s, b) \in Searches(adj) /\ ToGo(adj)[On(s, b)] < ToGo(adj)[s]
         /\ Looked(adj, s) \in DOMAIN adj /\ Grey(adj, s) = {} =>
              Down(adj, s) \in Searches(adj) /\ ToGo(adj)[Down(adj, s)] < ToGo(adj)[s]
<1>2. ASSUME NEW b \in SUBSET DOMAIN adj
      PROVE  On(s, b) \in Searches(adj) /\ ToGo(adj)[On(s, b)] < ToGo(adj)[s]
  <2>1. On(s, b) \in Searches(adj) /\ On(s, b).path = s.path /\ On(s, b).next = s.next + 1
    BY <1>2 DEF Searches, On
  <2>2. Unseen(adj, ToSet(s.path), Last(s.path), s.next + 1) < Unseen(adj, ToSet(s.path), Last(s.path), s.next)
    BY PathIs, LessToLookAt
  <2> QED BY <2>1, <2>2 DEF ToGo
<1>3. ASSUME Looked(adj, s) \in DOMAIN adj, Grey(adj, s) = {}
      PROVE  Down(adj, s) \in Searches(adj) /\ ToGo(adj)[Down(adj, s)] < ToGo(adj)[s]
  <2> DEFINE dep == Looked(adj, s)
             down == Down(adj, s)
  <2>0. \A i \in DOMAIN s.path : s.path[i] # dep
    BY <1>3 DEF Grey
  <2>1. s.path \in Seq(DOMAIN adj) /\ s.path # <<>> /\ s.black \in SUBSET DOMAIN adj
    BY DEF Searches
  <2>a. dep \in DOMAIN adj
    BY <1>3
  <2> HIDE DEF dep
  <2>2. /\ Append(s.path, dep) \in Seq(DOMAIN adj) /\ Append(s.path, dep) # <<>>
        /\ Last(Append(s.path, dep)) = dep /\ ToSet(Append(s.path, dep)) = ToSet(s.path) \cup {dep}
    <3> DEFINE p == s.path
               q == Append(p, dep)
    <3> HIDE DEF p
    <3>1. p \in Seq(DOMAIN adj) /\ Len(p) \in Nat
      BY <2>1 DEF p
    <3>2. /\ q \in Seq(DOMAIN adj) /\ Len(q) = Len(p) + 1 /\ q[Len(p) + 1] = dep
          /\ \A i \in 1..Len(p) : q[i] = p[i]
      BY <2>a, <3>1
    <3> HIDE DEF q
    <3>3. DOMAIN q = 1..(Len(p) + 1) /\ DOMAIN p = 1..Len(p) /\ q # <<>>
      BY <3>1, <3>2
    <3>4. \A i \in 1..(Len(p) + 1) : i \in 1..Len(p) \/ i = Len(p) + 1
      BY <3>1
    <3>5. \A x : (\E i \in 1..(Len(p) + 1) : q[i] = x) <=> (\E i \in 1..Len(p) : p[i] = x) \/ x = dep
      <4>1. \A i \in 1..Len(p) : i \in 1..(Len(p) + 1)
        BY <3>1
      <4>2. Len(p) + 1 \in 1..(Len(p) + 1)
        BY <3>1
      <4> QED BY <3>2, <3>4, <4>1, <4>2
    <3>6. ToSet(q) = ToSet(p) \cup {dep}
      BY <3>3, <3>5 DEF ToSet
    <3>7. Last(q) = dep
      BY <3>2 DEF Last
    <3> QED BY <3>2, <3>3, <3>6, <3>7 DEF p, q
  <2>3. down \in Searches(adj) /\ down.path = Append(s.path, dep) /\ down.next = 1
    BY <1>3, <2>1, <2>2 DEF Searches, Down, dep
  <2>4. dep \notin ToSet(s.path)
    BY <2>0 DEF ToSet
  <2>5. Unseen(adj, ToSet(s.path) \cup {dep}, dep, 1) < Unseen(adj, ToSet(s.path), Last(s.path), s.next)
    BY <2>a, <2>4, LessToEnter
  <2> QED BY <2>2, <2>3, <2>5 DEF ToGo
<1> QED BY <1>2, <1>3

\* The end of a node's dependencies: it is black with what is below it.
LEMMA NodeIsBlack ==
  ASSUME NEW adj, IsGraph(adj), NEW s \in Searches(adj), Ready(adj, s), s.next > Len(adj[Last(s.path)])
  PROVE  Found(adj, s, [cycle |-> <<>>, black |-> s.black \cup {Last(s.path)}])
<1> DEFINE node == Last(s.path)
           B == s.black \cup {node}
<1>1. /\ node \in DOMAIN adj /\ Len(s.path) \in Nat \ {0} /\ node = s.path[Len(s.path)]
      /\ s.black \in SUBSET DOMAIN adj /\ s.next \in Nat
  BY PathIs
<1>2. adj[node] \in Seq(GoalId)
  BY <1>1 DEF IsGraph
<1>3. Inside(adj, node) \subseteq s.black
  <2> SUFFICES ASSUME NEW b \in Inside(adj, node)
               PROVE  b \in s.black
    OBVIOUS
  <2>1. PICK k \in DOMAIN adj[node] : adj[node][k] = b
    BY <1>1, InsideIs
  <2>2. k < s.next /\ b \in DOMAIN adj
    BY <1>1, <1>2, InsideIs
  <2> QED BY <2>1, <2>2 DEF Ready
<1>4. IsClosed(adj, s.black) /\ \A b \in s.black : b \notin Below(adj, b)
  BY DEF Ready, Acyclic
<1>5. Below(adj, node) \subseteq s.black
  BY <1>1, <1>3, <1>4, BelowIs
<1>6. node \notin s.black /\ \A i \in 1..(Len(s.path) - 1) : s.path[i] \notin s.black /\ s.path[i] # node
  <2>1. Len(s.path) \in 1..Len(s.path)
    BY <1>1
  <2>2. \A i \in 1..(Len(s.path) - 1) : i \in 1..Len(s.path) /\ i # Len(s.path)
    BY <1>1
  <2> QED BY <1>1, <2>1, <2>2 DEF Ready
<1>7. Acyclic(adj, B)
  <2>1. IsClosed(adj, B)
    BY <1>3, <1>4 DEF IsClosed
  <2>2. \A b \in B : b \notin Below(adj, b)
    BY <1>4, <1>5, <1>6
  <2> QED BY <1>1, <2>1, <2>2 DEF Acyclic
<1> HIDE DEF node, B
<1>8. [cycle |-> <<>>, black |-> B] \in Answers(adj)
  BY <1>7 DEF Answers, Acyclic
<1>9. s.black \subseteq B /\ node \in B /\ \A i \in 1..(Len(s.path) - 1) : s.path[i] \notin B
  BY <1>6 DEF B
<1> QED BY <1>7, <1>8, <1>9 DEF Found, node, B

\* A dependency that is on the path closes a cycle.
LEMMA PathIsCycle ==
  ASSUME NEW adj, IsGraph(adj), NEW s \in Searches(adj), Ready(adj, s),
         NEW dep \in Inside(adj, Last(s.path)), NEW g \in DOMAIN s.path, s.path[g] = dep
  PROVE  /\ <<Last(s.path)>> \o SubSeq(s.path, g, Len(s.path)) \in Seq(DOMAIN adj)
         /\ IsCycle(adj, <<Last(s.path)>> \o SubSeq(s.path, g, Len(s.path)))
<1> DEFINE p == s.path
           n == Len(p)
           tail == SubSeq(p, g, n)
           c == <<Last(p)>> \o tail
<1>1. /\ p \in Seq(DOMAIN adj) /\ n \in Nat \ {0} /\ Last(p) = p[n] /\ Last(p) \in DOMAIN adj
      /\ g \in 1..n /\ \A i \in 1..n : p[i] \in DOMAIN adj
  BY PathIs
<1>2. \A i \in 1..(n - 1) : p[i + 1] \in Inside(adj, p[i])
  BY DEF Ready
<1> HIDE DEF p, n
<1>3. /\ Len(tail) = n - g + 1 /\ tail \in Seq(DOMAIN adj)
      /\ \A i \in 1..(n - g + 1) : tail[i] = p[g + i - 1]
  BY <1>1
<1> HIDE DEF tail
<1>4. /\ c \in Seq(DOMAIN adj) /\ Len(c) = n - g + 2 /\ c[1] = p[n]
      /\ \A i \in 2..(n - g + 2) : c[i] = tail[i - 1]
  BY <1>1, <1>3
<1>5. \A i \in 2..(n - g + 2) : c[i] = p[g + i - 2]
  <2> TAKE i \in 2..(n - g + 2)
  <2>1. i - 1 \in 1..(n - g + 1) /\ g + (i - 1) - 1 = g + i - 2
    BY <1>1
  <2> QED BY <1>3, <1>4, <2>1
<1> HIDE DEF c
<1>6. Len(c) > 1 /\ c[1] = c[Len(c)]
  <2>1. n - g + 2 \in 2..(n - g + 2) /\ g + (n - g + 2) - 2 = n
    BY <1>1
  <2> QED BY <1>1, <1>4, <1>5, <2>1
<1>7. ASSUME NEW i \in 1..(Len(c) - 1)
      PROVE  c[i + 1] \in Inside(adj, c[i])
  <2>1. CASE i = 1
    <3>1. 2 \in 2..(n - g + 2) /\ g + 2 - 2 = g
      BY <1>1
    <3>2. c[2] = dep
      BY <1>5, <3>1 DEF p
    <3> QED BY <1>1, <1>4, <2>1, <3>2 DEF p
  <2>2. CASE i # 1
    <3>1. /\ i \in 2..(n - g + 2) /\ i + 1 \in 2..(n - g + 2) /\ g + i - 2 \in 1..(n - 1)
          /\ g + (i + 1) - 2 = (g + i - 2) + 1
      BY <1>1, <1>4, <2>2, SMTT(60)
    <3>2. c[i] = p[g + i - 2] /\ c[i + 1] = p[(g + i - 2) + 1]
      BY <1>5, <3>1
    <3> QED BY <1>2, <3>1, <3>2
  <2> QED BY <2>1, <2>2
<1>8. c # <<>> /\ c[Len(c)] = Last(c)
  BY <1>6 DEF Last
<1>9. IsCycle(adj, c)
  BY <1>6, <1>7, <1>8 DEF IsCycle
<1> QED BY <1>4, <1>9 DEF c, p, tail, n


\* A step of the search answers rightly if what it asks of the rest is.
LEMMA VisitRight ==
  ASSUME NEW adj, IsGraph(adj), NEW visit, NEW s \in Searches(adj),
         \A t \in Searches(adj) : ToGo(adj)[t] < ToGo(adj)[s] => MayAnswer(adj, t, visit[t])
  PROVE  MayAnswer(adj, s, Visit(visit, adj, s))
<1> DEFINE node == Last(s.path)
           dep == Looked(adj, s)
           on == On(s, s.black)
           down == Down(adj, s)
           over == On(s, visit[down].black)
           grey == Grey(adj, s)
           n == Len(s.path)
<1>1. /\ node \in DOMAIN adj /\ n \in Nat \ {0} /\ DOMAIN s.path = 1..n /\ node = s.path[n]
      /\ s.path \in Seq(DOMAIN adj) /\ s.path # <<>>
      /\ s.black \in SUBSET DOMAIN adj /\ s.next \in Nat \ {0} /\ Len(adj[node]) \in Nat
  BY PathIs, VisitIs DEF Searches
<1>2. CASE s.next > Len(adj[node])
  <2>1. Visit(visit, adj, s) = [cycle |-> <<>>, black |-> s.black \cup {node}]
    BY <1>2, VisitIs
  <2>2. Visit(visit, adj, s) \in Answers(adj)
    BY <1>1, <2>1 DEF Answers
  <2> QED BY <1>2, <2>1, <2>2, NodeIsBlack DEF MayAnswer
<1>3. CASE s.next <= Len(adj[node])
  <2>1. /\ dep \in DOMAIN adj => dep \in Inside(adj, node)
        /\ dep \notin DOMAIN adj \/ dep \in s.black => Visit(visit, adj, s) = visit[on]
        /\ dep \in DOMAIN adj /\ dep \notin s.black /\ grey # {} =>
             Visit(visit, adj, s) = [cycle |-> Closing(adj, s), black |-> s.black]
        /\ dep \in DOMAIN adj /\ dep \notin s.black /\ grey = {} /\ visit[down].cycle # <<>> =>
             Visit(visit, adj, s) = visit[down]
        /\ dep \in DOMAIN adj /\ dep \notin s.black /\ grey = {} /\ visit[down].cycle = <<>> =>
             Visit(visit, adj, s) = visit[over]
    BY <1>3, VisitIs
  <2>2. CASE dep \notin DOMAIN adj \/ dep \in s.black
    <3>1. on \in Searches(adj) /\ ToGo(adj)[on] < ToGo(adj)[s]
      BY <1>1, <1>3, LessToGo
    <3>2. MayAnswer(adj, on, visit[on])
      BY <3>1
    <3>3. on.path = s.path /\ on.next = s.next + 1 /\ on.black = s.black
      BY DEF On
    <3>4. Ready(adj, s) => Ready(adj, on)
      <4> SUFFICES ASSUME Ready(adj, s)
                   PROVE  Ready(adj, on)
        OBVIOUS
      <4>1. \A k \in DOMAIN adj[node] : k < s.next + 1 => k < s.next \/ k = s.next
        BY <1>1
      <4>2. \A k \in DOMAIN adj[node] :
              k < s.next + 1 /\ adj[node][k] \in DOMAIN adj => adj[node][k] \in s.black
        BY <2>2, <4>1 DEF Ready, Looked
      <4> QED BY <3>3, <4>2 DEF Ready
    <3>5. Found(adj, on, visit[on]) => Found(adj, s, visit[on])
      BY <3>3 DEF Found
    <3> QED BY <2>1, <2>2, <3>2, <3>4, <3>5 DEF MayAnswer
  <2>3. CASE dep \in DOMAIN adj /\ dep \notin s.black /\ grey # {}
    <3>1. grey \in SUBSET Nat /\ grey # {} /\ \A i \in grey : i \in DOMAIN s.path /\ s.path[i] = dep
      BY <1>1, <2>3 DEF Grey
    <3>2. Min(grey) \in grey
      BY <3>1, First
    <3>3. Min(grey) \in DOMAIN s.path /\ s.path[Min(grey)] = dep
      BY <3>1, <3>2
    <3> DEFINE g == Min(grey)
               found == [cycle |-> <<node>> \o SubSeq(s.path, g, n), black |-> s.black]
    <3>4. Visit(visit, adj, s) = found
      BY <2>1, <2>3 DEF Closing
    <3>5. g \in 1..n
      BY <1>1, <3>3
    <3> HIDE DEF g
    <3>6. found.cycle \in Seq(DOMAIN adj)
      BY <1>1, <3>5
    <3>7. Ready(adj, s) => IsCycle(adj, found.cycle)
      BY <1>1, <2>1, <2>3, <3>3, PathIsCycle DEF g
    <3>8. found \in Answers(adj)
      BY <1>1, <3>6 DEF Answers
    <3>9. found.cycle # <<>>
      BY <1>1, <3>5
    <3> HIDE DEF found
    <3> QED BY <3>4, <3>7, <3>8, <3>9 DEF MayAnswer, Found
  <2>4. CASE dep \in DOMAIN adj /\ dep \notin s.black /\ grey = {}
    <3>1. down \in Searches(adj) /\ ToGo(adj)[down] < ToGo(adj)[s]
      BY <1>3, <2>4, LessToGo
    <3>2. MayAnswer(adj, down, visit[down])
      BY <3>1
    <3>3. /\ visit[down] \in Answers(adj) /\ visit[down].black \in SUBSET DOMAIN adj
      BY <3>2 DEF MayAnswer, Answers
    <3>4. down.path = Append(s.path, dep) /\ down.next = 1 /\ down.black = s.black
      BY DEF Down
    <3>5. /\ Len(down.path) = n + 1 /\ down.path[n + 1] = dep /\ Last(down.path) = dep
          /\ \A i \in 1..n : down.path[i] = s.path[i]
      BY <1>1, <2>4, <3>4 DEF Last
    <3>6. ASSUME Ready(adj, s)
          PROVE  Ready(adj, down)
      <4>1. \A i \in 1..(n + 1 - 1) : down.path[i + 1] \in Inside(adj, down.path[i])
        <5> TAKE i \in 1..(n + 1 - 1)
        <5>1. CASE i = n
          BY <1>1, <2>1, <2>4, <3>5, <5>1
        <5>2. CASE i # n
          <6>1. i \in 1..(n - 1) /\ i \in 1..n /\ i + 1 \in 1..n
            BY <1>1, <5>2
          <6> QED BY <3>5, <3>6, <6>1 DEF Ready
        <5> QED BY <5>1, <5>2
      <4>2. \A i \in 1..n : s.path[i] # dep
        BY <1>1, <2>4 DEF Grey
      <4>3. \A i \in 1..(n + 1) : i \in 1..n \/ i = n + 1
        BY <1>1
      <4>4. \A i, j \in 1..(n + 1) : down.path[i] = down.path[j] => i = j
        BY <3>5, <3>6, <4>2, <4>3 DEF Ready
      <4>5. \A i \in 1..(n + 1) : down.path[i] \notin s.black
        BY <2>4, <3>5, <3>6, <4>3 DEF Ready
      <4>6. \A k \in DOMAIN adj[dep] : ~(k < 1)
        <5>1. adj[dep] \in Seq(GoalId)
          BY <2>4 DEF IsGraph
        <5> QED BY <5>1
      <4>7. Acyclic(adj, s.black)
        BY <3>6 DEF Ready
      <4>8. \A k \in DOMAIN adj[Last(down.path)] : ~(k < down.next)
        BY <3>4, <3>5, <4>6
      <4>9. /\ \A i \in 1..(Len(down.path) - 1) : down.path[i + 1] \in Inside(adj, down.path[i])
            /\ \A i, j \in 1..Len(down.path) : down.path[i] = down.path[j] => i = j
            /\ \A i \in 1..Len(down.path) : down.path[i] \notin down.black
        BY <3>4, <3>5, <4>1, <4>4, <4>5, SMTT(60)
      <4> QED BY <3>4, <4>7, <4>8, <4>9 DEF Ready
    <3>7. CASE visit[down].cycle # <<>>
      <4>1. Visit(visit, adj, s) = visit[down]
        BY <2>1, <2>4, <3>7
      <4>2. Ready(adj, s) => Found(adj, s, visit[down])
        BY <3>2, <3>6, <3>7 DEF MayAnswer, Found
      <4> QED BY <3>3, <4>1, <4>2 DEF MayAnswer
    <3>8. CASE visit[down].cycle = <<>>
      <4>1. Visit(visit, adj, s) = visit[over]
        BY <2>1, <2>4, <3>8
      <4>2. over \in Searches(adj) /\ ToGo(adj)[over] < ToGo(adj)[s]
        BY <1>1, <1>3, <3>3, LessToGo
      <4>3. MayAnswer(adj, over, visit[over])
        BY <4>2
      <4>4. over.path = s.path /\ over.next = s.next + 1 /\ over.black = visit[down].black
        BY DEF On
      <4>5. ASSUME Ready(adj, s)
            PROVE  /\ Acyclic(adj, over.black) /\ s.black \subseteq over.black /\ dep \in over.black
                   /\ \A i \in 1..n : s.path[i] \notin over.black
        <5>1. Found(adj, down, visit[down])
          BY <3>2, <3>6, <4>5 DEF MayAnswer
        <5>2. \A i \in 1..n : i \in 1..(Len(down.path) - 1)
          BY <1>1, <3>5
        <5> QED BY <3>4, <3>5, <3>8, <4>4, <5>1, <5>2 DEF Found
      <4>6. ASSUME Ready(adj, s)
            PROVE  Ready(adj, over)
        <5>1. \A k \in DOMAIN adj[node] : k < s.next + 1 => k < s.next \/ k = s.next
          BY <1>1
        <5>2. \A k \in DOMAIN adj[node] :
                k < s.next + 1 /\ adj[node][k] \in DOMAIN adj => adj[node][k] \in over.black
          BY <4>5, <4>6, <5>1 DEF Ready, Looked
        <5> QED BY <4>4, <4>5, <4>6, <5>2 DEF Ready
      <4>7. Ready(adj, s) => Found(adj, s, visit[over])
        <5> SUFFICES ASSUME Ready(adj, s)
                     PROVE  Found(adj, s, visit[over])
          OBVIOUS
        <5>1. Found(adj, over, visit[over])
          BY <4>3, <4>6 DEF MayAnswer
        <5> QED BY <4>4, <4>5, <5>1 DEF Found
      <4> QED BY <4>1, <4>3, <4>7 DEF MayAnswer
    <3> QED BY <3>7, <3>8
  <2> QED BY <2>2, <2>3, <2>4
<1> QED BY <1>1, <1>2, <1>3

\* A step is the same for two that agree on what is less to look at.
LEMMA VisitAgrees ==
  ASSUME NEW adj, IsGraph(adj), NEW f, NEW g, NEW s \in Searches(adj),
         \A t \in Searches(adj) : ToGo(adj)[t] < ToGo(adj)[s] => f[t] \in Answers(adj) /\ f[t] = g[t]
  PROVE  Visit(f, adj, s) = Visit(g, adj, s)
<1> DEFINE node == Last(s.path)
           dep == Looked(adj, s)
           on == On(s, s.black)
           down == Down(adj, s)
           over == On(s, f[down].black)
           grey == Grey(adj, s)
<1>1. s.black \in SUBSET DOMAIN adj /\ s.next \in Nat /\ Len(adj[node]) \in Nat
  BY PathIs, VisitIs
<1>2. CASE s.next > Len(adj[node])
  <2>1. Visit(f, adj, s) = [cycle |-> <<>>, black |-> s.black \cup {node}]
    BY <1>2, VisitIs
  <2>2. Visit(g, adj, s) = [cycle |-> <<>>, black |-> s.black \cup {node}]
    BY <1>2, VisitIs
  <2> QED BY <2>1, <2>2
<1>3. CASE s.next <= Len(adj[node])
  <2>1. CASE dep \notin DOMAIN adj \/ dep \in s.black
    <3>1. on \in Searches(adj) /\ ToGo(adj)[on] < ToGo(adj)[s]
      BY <1>1, <1>3, LessToGo
    <3>2. f[on] = g[on]
      BY <3>1
    <3>3. Visit(f, adj, s) = f[on] /\ Visit(g, adj, s) = g[on]
      BY <1>3, <2>1, VisitIs
    <3> QED BY <3>2, <3>3
  <2>2. CASE dep \in DOMAIN adj /\ dep \notin s.black /\ grey # {}
    BY <1>3, <2>2, VisitIs
  <2>3. CASE dep \in DOMAIN adj /\ dep \notin s.black /\ grey = {}
    <3>2. down \in Searches(adj) /\ ToGo(adj)[down] < ToGo(adj)[s]
      BY <1>3, <2>3, LessToGo
    <3>3. f[down] = g[down] /\ f[down] \in Answers(adj)
      BY <3>2
    <3>4. f[down].black \in SUBSET DOMAIN adj
      BY <3>3 DEF Answers
    <3>5. over \in Searches(adj) /\ ToGo(adj)[over] < ToGo(adj)[s]
      BY <1>3, <3>4, LessToGo
    <3>6. f[over] = g[over] /\ over = On(s, g[down].black)
      BY <3>3, <3>5
    <3>7. CASE f[down].cycle # <<>>
      <4>1. Visit(f, adj, s) = f[down]
        BY <1>3, <2>3, <3>7, VisitIs
      <4>2. Visit(g, adj, s) = g[down]
        BY <1>3, <2>3, <3>3, <3>7, VisitIs
      <4> QED BY <3>3, <4>1, <4>2
    <3>8. CASE f[down].cycle = <<>>
      <4>1. Visit(f, adj, s) = f[over]
        BY <1>3, <2>3, <3>8, VisitIs
      <4>2. Visit(g, adj, s) = g[over]
        <5>1. g[down].cycle = <<>>
          BY <3>3, <3>8
        <5>2. Visit(g, adj, s) = g[On(s, g[down].black)]
          BY <1>3, <2>3, <5>1, VisitIs
        <5> QED BY <3>6, <5>2
      <4> QED BY <3>6, <4>1, <4>2
    <3> QED BY <3>7, <3>8
  <2> QED BY <2>1, <2>2, <2>3
<1> QED BY <1>1, <1>2, <1>3

\* The search answers rightly wherever it is.
LEMMA DfsRight ==
  ASSUME NEW adj, IsGraph(adj)
  PROVE  \A s \in Searches(adj) : MayAnswer(adj, s, dfs(adj)[s])
<1> DEFINE A == Searches(adj)
           Z == Answers(adj)
           z == [cycle |-> <<>>, black |-> {}]
           m == ToGo(adj)
           R == [s \in A |-> {r \in Z : MayAnswer(adj, s, r)}]
           B == [p \in [A -> Z] \X A |-> Visit(p[1], adj, p[2])]
<1>1. m \in [A -> Nat]
  BY RestIs DEF ToGo
<1>2. z \in Z
  BY DEF Answers
<1>3. R \in [A -> SUBSET Z]
  OBVIOUS
<1>4. \A f \in [A -> Z], s \in A : B[<<f, s>>] = Visit(f, adj, s)
  OBVIOUS
<1>5. \A s \in A : \A r : r \in R[s] <=> MayAnswer(adj, s, r)
  BY DEF MayAnswer
<1> HIDE DEF A, Z, z, m, R, B
<1>6. ASSUME NEW f \in [A -> Z], NEW a \in A, \A b \in A : m[b] < m[a] => f[b] \in R[b]
      PROVE  B[<<f, a>>] \in R[a]
  <2>1. \A t \in Searches(adj) : ToGo(adj)[t] < ToGo(adj)[a] => MayAnswer(adj, t, f[t])
    BY <1>5, <1>6 DEF A, m
  <2>2. MayAnswer(adj, a, Visit(f, adj, a))
    BY <2>1, VisitRight DEF A
  <2> QED BY <1>4, <1>5, <2>2
<1>7. ASSUME NEW f \in [A -> Z], NEW g \in [A -> Z], NEW a \in A,
             \A b \in A : m[b] < m[a] => f[b] \in R[b] /\ f[b] = g[b]
      PROVE  B[<<f, a>>] = B[<<g, a>>]
  <2>1. \A t \in Searches(adj) : ToGo(adj)[t] < ToGo(adj)[a] => f[t] \in Answers(adj) /\ f[t] = g[t]
    BY <1>3, <1>7 DEF A, Z, m
  <2>2. Visit(f, adj, a) = Visit(g, adj, a)
    BY <2>1, VisitAgrees DEF A
  <2> QED BY <1>4, <2>2
<1>8. \E f \in [A -> Z] : \A a \in A : f[a] = B[<<f, a>>] /\ f[a] \in R[a]
  <2>1. \A f \in [A -> Z], a \in A : (\A b \in A : m[b] < m[a] => f[b] \in R[b]) => B[<<f, a>>] \in R[a]
    BY <1>6
  <2>2. \A f, g \in [A -> Z], a \in A :
          (\A b \in A : m[b] < m[a] => f[b] \in R[b] /\ f[b] = g[b]) => B[<<f, a>>] = B[<<g, a>>]
    BY <1>7
  <2>3. IsRecursive(A, Z, m, R, B)
    BY <1>1, <1>2, <1>3, <2>1, <2>2 DEF IsRecursive
  <2> QED BY <2>3, Recursion
<1>9. \E f : f = [s \in A |-> Visit(f, adj, s)]
  <2>1. PICK f \in [A -> Z] : \A a \in A : f[a] = B[<<f, a>>]
    BY <1>8
  <2>2. f = [s \in A |-> Visit(f, adj, s)]
    BY <1>4, <2>1
  <2> QED BY <2>2
<1> DEFINE visit == dfs(adj)
<1>10. visit = [s \in A |-> Visit(visit, adj, s)]
  BY <1>9, DfsIs DEF A
<1> HIDE DEF visit
<1>11. \A s \in A : visit[s] = Visit(visit, adj, s)
  BY <1>10
<1> DEFINE G == {s \in A : MayAnswer(adj, s, visit[s])}
<1>12. ASSUME NEW a \in A, \A b \in A : m[b] < m[a] => b \in G
       PROVE  a \in G
  <2>1. \A t \in Searches(adj) : ToGo(adj)[t] < ToGo(adj)[a] => MayAnswer(adj, t, visit[t])
    BY <1>12 DEF A, m
  <2>2. MayAnswer(adj, a, Visit(visit, adj, a))
    BY <2>1, VisitRight DEF A
  <2> QED BY <1>11, <2>2
<1>13. G \in SUBSET A
  OBVIOUS
<1> HIDE DEF G
<1>14. \A a \in A : a \in G
  BY <1>1, <1>12, <1>13, ByMeasure
<1> QED BY <1>14 DEF G, A, visit

-----------------------------------------------------------------------------
(* Lists of goals, and the search over all of them                         *)

IsBacklog(goals) ==
  goals \in Seq(Goal) /\ \A i, j \in 1..Len(goals) : goals[i].id = goals[j].id => i = j

LEMMA BacklogIs ==
  ASSUME NEW goals, IsBacklog(goals)
  PROVE  /\ Len(goals) \in Nat /\ DOMAIN goals = 1..Len(goals)
         /\ Ids(goals) = {goals[i].id : i \in 1..Len(goals)} /\ IsFiniteSet(Ids(goals))
         /\ Cardinality(Ids(goals)) = Len(goals)
         /\ \A i \in 1..Len(goals) : /\ goals[i] \in Goal /\ goals[i].id \in Ids(goals)
                                     /\ GoalOf(goals, goals[i].id) = goals[i]
                                     /\ Adj(goals)[goals[i].id] = goals[i].depends
         /\ DOMAIN Adj(goals) = Ids(goals) /\ IsGraph(Adj(goals))
<1>1. /\ Len(goals) \in Nat /\ DOMAIN goals = 1..Len(goals)
      /\ \A i \in 1..Len(goals) : goals[i] \in Goal
      /\ \A i, j \in 1..Len(goals) : goals[i].id = goals[j].id => i = j
  BY DEF IsBacklog
<1> DEFINE n == Len(goals)
           f == [i \in 1..n |-> goals[i].id]
<1>2. Ids(goals) = {goals[i].id : i \in 1..n}
  BY <1>1 DEF Ids
<1>3. f \in Bijection(1..n, Ids(goals))
  <2>1. f \in [1..n -> Ids(goals)] /\ \A i \in 1..n : f[i] = goals[i].id
    BY <1>2
  <2>2. \A id \in Ids(goals) : \E i \in 1..n : f[i] = id
    BY <1>2
  <2> HIDE DEF f
  <2>3. \A i, j \in 1..n : f[i] = f[j] => i = j
    BY <1>1, <2>1
  <2> HIDE DEF n
  <2> QED BY <2>1, <2>2, <2>3 DEF Bijection, Injection, Surjection, IsInjective
<1> HIDE DEF f, n
<1>4. IsFiniteSet(Ids(goals)) /\ Cardinality(Ids(goals)) = n
  <2>1. IsFiniteSet(1..n) /\ Cardinality(1..n) = n
    <3>1. n \in Nat /\ 0 \in Int /\ n \in Int
      BY <1>1 DEF n
    <3>2. IsFiniteSet(1..n) /\ Cardinality(1..n) = IF 1 > n THEN 0 ELSE n - 1 + 1
      BY <3>1, FS_Interval
    <3> QED BY <3>1, <3>2
  <2> QED BY <1>3, <2>1, FS_Bijection DEF ExistsBijection
<1>5. ASSUME NEW i \in 1..n
      PROVE  goals[i].id \in Ids(goals) /\ GoalOf(goals, goals[i].id) = goals[i]
  <2>1. \E j \in DOMAIN goals : goals[j].id = goals[i].id
    BY <1>1, <1>5 DEF n
  <2>2. (CHOOSE j \in DOMAIN goals : goals[j].id = goals[i].id) = i
    BY <1>1, <1>5, <2>1 DEF n
  <2> QED BY <1>2, <1>5, <2>2 DEF GoalOf
<1>6. DOMAIN Adj(goals) = Ids(goals) /\ \A id \in Ids(goals) : Adj(goals)[id] = GoalOf(goals, id).depends
  BY DEF Adj
<1>7. \A i \in 1..n : Adj(goals)[goals[i].id] = goals[i].depends
  BY <1>5, <1>6
<1>8. Adj(goals) \in [Ids(goals) -> Seq(GoalId)]
  <2>1. ASSUME NEW id \in Ids(goals)
        PROVE  Adj(goals)[id] \in Seq(GoalId)
    <3>1. PICK i \in 1..n : id = goals[i].id
      BY <1>2
    <3>2. goals[i].depends \in Seq(GoalId)
      BY <1>1 DEF Goal, n
    <3> QED BY <1>7, <3>1, <3>2
  <2>2. Adj(goals) = [id \in Ids(goals) |-> Adj(goals)[id]]
    BY DEF Adj
  <2> QED BY <2>1, <2>2
<1> QED BY <1>1, <1>2, <1>4, <1>5, <1>6, <1>7, <1>8 DEF IsGraph, n

\* What is made one after the other from the one before it.
IsMade(n, Z, z, R, B) ==
  R \in [0..n -> SUBSET Z] /\ z \in R[0] /\ \A k \in 1..n : \A r \in R[k - 1] : B[<<r, k>>] \in R[k]

LEMMA OneByOne ==
  ASSUME NEW n \in Nat, NEW Z, NEW z, NEW R, NEW B, IsMade(n, Z, z, R, B)
  PROVE  \E f \in [0..n -> Z] : /\ f[0] = z /\ \A k \in 1..n : f[k] = B[<<f[k - 1], k>>]
                                /\ \A k \in 0..n : f[k] \in R[k]
<1>a. R \in [0..n -> SUBSET Z] /\ z \in R[0] /\ \A k \in 1..n : \A r \in R[k - 1] : B[<<r, k>>] \in R[k]
  BY DEF IsMade
<1> DEFINE A == 0..n
           m == [k \in A |-> k]
           C == [p \in [A -> Z] \X A |-> IF p[2] = 0 THEN z ELSE B[<<p[1][p[2] - 1], p[2]>>]]
<1>1. \A f \in [A -> Z], k \in A : C[<<f, k>>] = IF k = 0 THEN z ELSE B[<<f[k - 1], k>>]
  OBVIOUS
<1>2. m \in [A -> Nat] /\ \A k \in A : m[k] = k
  OBVIOUS
<1>3. \A k \in A : k # 0 => k \in 1..n /\ k - 1 \in A /\ k - 1 < k
  OBVIOUS
<1>4. Z # {}
  BY <1>a
<1> HIDE DEF m, C, A
<1>5. \A f \in [A -> Z], a \in A : (\A b \in A : m[b] < m[a] => f[b] \in R[b]) => C[<<f, a>>] \in R[a]
  <2> TAKE f \in [A -> Z], a \in A
  <2> HAVE \A b \in A : m[b] < m[a] => f[b] \in R[b]
  <2>1. CASE a = 0
    BY <1>a, <1>1, <2>1
  <2>2. CASE a # 0
    <3>1. a \in 1..n /\ a - 1 \in A /\ m[a - 1] < m[a]
      BY <1>2, <1>3, <2>2
    <3>2. f[a - 1] \in R[a - 1]
      BY <3>1
    <3> QED BY <1>a, <1>1, <2>2, <3>1, <3>2
  <2> QED BY <2>1, <2>2
<1>6. \A f, g \in [A -> Z], a \in A :
        (\A b \in A : m[b] < m[a] => f[b] \in R[b] /\ f[b] = g[b]) => C[<<f, a>>] = C[<<g, a>>]
  <2> TAKE f, g \in [A -> Z], a \in A
  <2> HAVE \A b \in A : m[b] < m[a] => f[b] \in R[b] /\ f[b] = g[b]
  <2>1. CASE a = 0
    BY <1>1, <2>1
  <2>2. CASE a # 0
    <3>1. a - 1 \in A /\ m[a - 1] < m[a]
      BY <1>2, <1>3, <2>2
    <3>2. f[a - 1] = g[a - 1]
      BY <3>1
    <3> QED BY <1>1, <2>2, <3>2
  <2> QED BY <2>1, <2>2
<1>7. IsRecursive(A, Z, m, R, C)
  BY <1>a, <1>2, <1>4, <1>5, <1>6 DEF IsRecursive, A
<1>8. PICK f \in [A -> Z] : \A a \in A : f[a] = C[<<f, a>>] /\ f[a] \in R[a]
  BY <1>7, Recursion
<1>9. f[0] = z
  <2>1. 0 \in A
    BY DEF A
  <2> QED BY <1>1, <1>8, <2>1
<1>10. \A k \in 1..n : k \in A /\ k # 0
  BY DEF A
<1>11. \A k \in 1..n : f[k] = B[<<f[k - 1], k>>]
  BY <1>1, <1>8, <1>10
<1> QED BY <1>8, <1>9, <1>11 DEF A

Searched(adj, goals, found, k) ==
  IF found.cycle # <<>> \/ goals[k].id \in found.black THEN found
  ELSE dfs(adj)[[path |-> <<goals[k].id>>, next |-> 1, black |-> found.black]]
SearchedTo(adj, goals, k, r) ==
  /\ r \in Answers(adj)
  /\ r.cycle # <<>> => IsCycle(adj, r.cycle)
  /\ r.cycle = <<>> => Acyclic(adj, r.black) /\ \A i \in 1..k : goals[i].id \in r.black

LEMMA FindCycleIs ==
  ASSUME NEW goals
  PROVE  find_cycle(goals) =
           (CHOOSE f : f = [k \in 0..Len(goals) |->
                              IF k = 0 THEN [cycle |-> <<>>, black |-> {}]
                              ELSE Searched(Adj(goals), goals, f[k - 1], k)])[Len(goals)].cycle
BY DEF find_cycle, Searched

LEMMA SearchedRight ==
  ASSUME NEW goals, IsBacklog(goals), NEW k \in 1..Len(goals), NEW found,
         SearchedTo(Adj(goals), goals, k - 1, found)
  PROVE  SearchedTo(Adj(goals), goals, k, Searched(Adj(goals), goals, found, k))
<1> DEFINE adj == Adj(goals)
           id == goals[k].id
           s == [path |-> <<id>>, next |-> 1, black |-> found.black]
           r == dfs(adj)[s]
<1>1. IsGraph(adj) /\ id \in DOMAIN adj /\ Len(goals) \in Nat
  BY BacklogIs
<1> HIDE DEF adj
<1>2. \A i \in 1..k : i \in 1..(k - 1) \/ i = k
  OBVIOUS
<1>3. CASE found.cycle # <<>> \/ id \in found.black
  BY <1>2, <1>3 DEF SearchedTo, Searched, adj
<1>4. CASE found.cycle = <<>> /\ id \notin found.black
  <2>1. Searched(adj, goals, found, k) = r
    BY <1>4 DEF Searched
  <2>2. Acyclic(adj, found.black) /\ found.black \in SUBSET DOMAIN adj
    BY <1>4 DEF SearchedTo, Answers, adj
  <2>3. s \in Searches(adj) /\ s.path = <<id>> /\ s.next = 1 /\ s.black = found.black
    <3>1. <<id>> \in Seq(DOMAIN adj) /\ <<id>> # <<>> /\ 1 \in Nat \ {0}
      BY <1>1
    <3> HIDE DEF id
    <3> QED BY <2>2, <3>1 DEF Searches
  <2>4. Len(<<id>>) = 1 /\ <<id>>[1] = id /\ Last(<<id>>) = id
    BY DEF Last
  <2>5. \A j \in DOMAIN adj[id] : ~(j < 1)
    <3>1. adj[id] \in Seq(GoalId)
      BY <1>1 DEF IsGraph
    <3> QED BY <3>1
  <2> HIDE DEF s, id
  <2>6. Ready(adj, s)
    BY <1>4, <2>2, <2>3, <2>4, <2>5 DEF Ready
  <2>7. Found(adj, s, r)
    BY <1>1, <2>3, <2>6, DfsRight DEF MayAnswer
  <2>8. r.cycle = <<>> => \A i \in 1..k : goals[i].id \in r.black
    <3> SUFFICES ASSUME r.cycle = <<>>, NEW i \in 1..k
                 PROVE  goals[i].id \in r.black
      OBVIOUS
    <3>1. found.black \subseteq r.black /\ id \in r.black
      BY <2>3, <2>4, <2>7 DEF Found
    <3>2. i \in 1..(k - 1) => goals[i].id \in found.black
      BY <1>4 DEF SearchedTo
    <3> QED BY <1>2, <3>1, <3>2 DEF id
  <2>9. SearchedTo(adj, goals, k, r)
    BY <2>7, <2>8 DEF SearchedTo, Found
  <2> QED BY <2>1, <2>9 DEF adj
<1> QED BY <1>3, <1>4

LEMMA SearchFinds ==
  ASSUME NEW goals, IsBacklog(goals)
  PROVE  /\ find_cycle(goals) \in Seq(Ids(goals)) /\ CyclesFound(Adj(goals), find_cycle(goals))
<1> DEFINE adj == Adj(goals)
           n == Len(goals)
           Z == Answers(adj)
           z == [cycle |-> <<>>, black |-> {}]
           R == [k \in 0..n |-> {r \in Z : SearchedTo(adj, goals, k, r)}]
           B == [p \in Z \X (1..n) |-> Searched(adj, goals, p[1], p[2])]
<1>1. n \in Nat /\ DOMAIN goals = 1..n /\ IsGraph(adj) /\ DOMAIN adj = {goals[i].id : i \in 1..n}
  BY BacklogIs, ZenonT(60)
<1>2. SearchedTo(adj, goals, 0, z)
  BY DEF SearchedTo, Answers, Acyclic, IsClosed
<1>3. \A k \in 1..n : \A r : SearchedTo(adj, goals, k - 1, r) => SearchedTo(adj, goals, k, Searched(adj, goals, r, k))
  BY SearchedRight
<1> HIDE DEF adj, n, z
<1>4. R \in [0..n -> SUBSET Z] /\ \A k \in 0..n : \A r : r \in R[k] <=> SearchedTo(adj, goals, k, r)
  BY DEF SearchedTo
<1>5. \A k \in 1..n : \A r \in Z : B[<<r, k>>] = Searched(adj, goals, r, k)
  OBVIOUS
<1> HIDE DEF R, B, Z
<1>6. z \in R[0]
  BY <1>1, <1>2, <1>4
<1>7. \A k \in 1..n : \A r \in R[k - 1] : B[<<r, k>>] \in R[k]
  <2> TAKE k \in 1..n
  <2> TAKE r \in R[k - 1]
  <2>1. k - 1 \in 0..n /\ k \in 0..n
    BY <1>1
  <2>2. SearchedTo(adj, goals, k - 1, r) /\ r \in Z
    BY <1>4, <2>1 DEF SearchedTo, Z
  <2> QED BY <1>3, <1>4, <1>5, <2>1, <2>2
<1>8. PICK h \in [0..n -> Z] : h[0] = z /\ \A k \in 1..n : h[k] = B[<<h[k - 1], k>>]
  <2>1. IsMade(n, Z, z, R, B)
    BY <1>4, <1>6, <1>7 DEF IsMade
  <2> QED BY <1>1, <2>1, OneByOne
<1>9. h = [k \in 0..n |-> IF k = 0 THEN z ELSE Searched(adj, goals, h[k - 1], k)]
  <2>1. \A k \in 0..n : k # 0 => k \in 1..n /\ k - 1 \in 0..n
    BY <1>1
  <2>2. \A k \in 0..n : h[k] = IF k = 0 THEN z ELSE Searched(adj, goals, h[k - 1], k)
    BY <1>5, <1>8, <2>1
  <2> QED BY <2>2
<1> DEFINE f == CHOOSE f : f = [k \in 0..n |-> IF k = 0 THEN z ELSE Searched(adj, goals, f[k - 1], k)]
<1>10. f = [k \in 0..n |-> IF k = 0 THEN z ELSE Searched(adj, goals, f[k - 1], k)]
  BY <1>9
<1>11. find_cycle(goals) = f[n].cycle
  BY FindCycleIs DEF adj, n, z
<1> HIDE DEF f
<1>12. \A k \in 0..n : f[k] = IF k = 0 THEN z ELSE Searched(adj, goals, f[k - 1], k)
  BY <1>10
<1> DEFINE G == {k \in Nat : k <= n => SearchedTo(adj, goals, k, f[k])}
<1>13. 0 \in G
  BY <1>1, <1>2, <1>12
<1>14. \A k \in Nat : k \in G => k + 1 \in G
  <2> SUFFICES ASSUME NEW k \in Nat, k \in G, k + 1 <= n
               PROVE  SearchedTo(adj, goals, k + 1, f[k + 1])
    OBVIOUS
  <2>1. k + 1 \in 0..n /\ k + 1 \in 1..n /\ k + 1 # 0 /\ (k + 1) - 1 = k /\ k <= n
    BY <1>1
  <2>2. f[k + 1] = Searched(adj, goals, f[k], k + 1)
    BY <1>12, <2>1
  <2> QED BY <1>3, <2>1, <2>2
<1> HIDE DEF G
<1>15. \A k \in Nat : k \in G
  BY <1>13, <1>14, Induction
<1>16. SearchedTo(adj, goals, n, f[n])
  BY <1>1, <1>15 DEF G
<1>17. f[n].cycle \in Seq(DOMAIN adj)
  BY <1>16 DEF SearchedTo, Answers
<1>18. f[n].cycle # <<>> => IsCycle(adj, f[n].cycle) /\ \E id \in DOMAIN adj : id \in Below(adj, id)
  BY <1>16, <1>17, CycleIsBelowItself DEF SearchedTo
<1>19. f[n].cycle = <<>> => \A id \in DOMAIN adj : id \notin Below(adj, id)
  BY <1>1, <1>16 DEF SearchedTo, Acyclic
<1>20. CyclesFound(adj, f[n].cycle)
  BY <1>18, <1>19 DEF CyclesFound
<1>21. DOMAIN adj = Ids(goals)
  BY BacklogIs DEF adj
<1> QED BY <1>11, <1>17, <1>20, <1>21 DEF adj

-----------------------------------------------------------------------------
(* The order of the goals                                                  *)

LEMMA ListedIs ==
  ASSUME NEW goals, IsBacklog(goals), NEW ids \in SUBSET Ids(goals)
  PROVE  /\ Listed(goals, ids) \in Seq(Ids(goals)) /\ ToSet(Listed(goals, ids)) = ids
         /\ IsInjective(Listed(goals, ids))
<1> DEFINE I == {i \in DOMAIN goals : goals[i].id \in ids}
           found == Picked(goals, I)
           L == [k \in DOMAIN found |-> found[k].id]
           n == Cardinality(I)
<1>1. /\ goals \in Seq(Goal) /\ DOMAIN goals = 1..Len(goals) /\ Ids(goals) = {goals[i].id : i \in 1..Len(goals)}
      /\ \A i, j \in 1..Len(goals) : goals[i].id = goals[j].id => i = j
  BY BacklogIs DEF IsBacklog
<1>2. Listed(goals, ids) = L
  BY DEF Listed
<1>3. I \in SUBSET DOMAIN goals
  OBVIOUS
<1>4. (\A i \in I : goals[i].id \in ids) /\ \A id \in ids : \E i \in I : goals[i].id = id
  BY <1>1
<1> HIDE DEF I
<1>5. n \in Nat /\ found \in Seq(Goal) /\ Len(found) = n
  BY <1>1, <1>3, PickedIs
<1>6. PICK at \in [1..n -> I] : /\ \A k \in 1..n : found[k] = goals[at[k]]
                                /\ \A k, l \in 1..n : at[k] = at[l] => k = l
                                /\ \A i \in I : \E k \in 1..n : at[k] = i
  <2>1. goals \in Seq(Goal)
    BY <1>1
  <2>2. \E at \in [1..Cardinality(I) -> I] :
          /\ \A k \in 1..Cardinality(I) : Picked(goals, I)[k] = goals[at[k]]
          /\ \A k, l \in 1..Cardinality(I) : at[k] = at[l] => k = l
          /\ \A i \in I : \E k \in 1..Cardinality(I) : at[k] = i
    <3> HIDE DEF n, found
    <3> QED BY <1>3, <2>1, PickedIs, SMTT(60)
  <2> QED BY <2>2
<1> HIDE DEF found, n
<1>7. DOMAIN found = 1..n
  BY <1>5
<1>8. L = [k \in 1..n |-> goals[at[k]].id]
  BY <1>6, <1>7
<1> HIDE DEF L
<1>9. DOMAIN L = 1..n /\ \A k \in 1..n : at[k] \in I /\ at[k] \in DOMAIN goals /\ L[k] = goals[at[k]].id
  BY <1>3, <1>6, <1>8
<1>10. L \in Seq(Ids(goals))
  <2>1. \A k \in 1..n : L[k] \in Ids(goals)
    BY <1>1, <1>9
  <2> QED BY <1>5, <1>8, <2>1
<1>11. ToSet(L) = ids
  <2>1. \A k \in 1..n : L[k] \in ids
    BY <1>4, <1>9
  <2>2. \A id \in ids : \E k \in 1..n : L[k] = id
    BY <1>4, <1>6, <1>9
  <2> QED BY <1>9, <2>1, <2>2 DEF ToSet
<1>12. IsInjective(L)
  BY <1>1, <1>6, <1>9 DEF IsInjective
<1> QED BY <1>2, <1>10, <1>11, <1>12

\* How many of the dependencies of a goal are goals that others do not hold, and are this one.
Waits(adj, id, S) == Cardinality({k \in DOMAIN adj[id] : adj[id][k] \in DOMAIN adj \ S})
Names(adj, id, d) == Cardinality({k \in DOMAIN adj[id] : adj[id][k] = d})

LEMMA WaitsIs ==
  ASSUME NEW adj, IsGraph(adj), NEW id \in DOMAIN adj, NEW S
  PROVE  /\ Waits(adj, id, S) \in Nat
         /\ Waits(adj, id, S) = 0 <=> Inside(adj, id) \subseteq S
         /\ \A d \in DOMAIN adj : /\ Names(adj, id, d) \in Nat
                                  /\ Names(adj, id, d) > 0 <=> d \in Inside(adj, id)
         /\ \A d \in DOMAIN adj \ S : Waits(adj, id, S \cup {d}) = Waits(adj, id, S) - Names(adj, id, d)
<1> DEFINE K == DOMAIN adj[id]
           open(T) == {k \in K : adj[id][k] \in DOMAIN adj \ T}
           named(d) == {k \in K : adj[id][k] = d}
<1>1. IsFiniteSet(K)
  <2>1. adj[id] \in Seq(GoalId)
    BY DEF IsGraph
  <2>2. K = 1..Len(adj[id]) /\ Len(adj[id]) \in Nat
    BY <2>1
  <2>3. IsFiniteSet(1..Len(adj[id]))
    BY <2>2, FS_Interval
  <2> QED BY <2>2, <2>3
<1>2. \A T : IsFiniteSet(open(T)) /\ Cardinality(open(T)) \in Nat
  <2> TAKE T
  <2>1. open(T) \in SUBSET K
    OBVIOUS
  <2> HIDE DEF open, K
  <2> QED BY <1>1, <2>1, FS_Subset, FS_CardinalityType
<1>3. \A d : IsFiniteSet(named(d)) /\ Cardinality(named(d)) \in Nat
  <2> TAKE d
  <2>1. named(d) \in SUBSET K
    OBVIOUS
  <2> HIDE DEF named, K
  <2> QED BY <1>1, <2>1, FS_Subset, FS_CardinalityType
<1>4. \A T : Waits(adj, id, T) = Cardinality(open(T))
  BY DEF Waits
<1>5. \A d : Names(adj, id, d) = Cardinality(named(d))
  BY DEF Names
<1>6. open(S) = {} <=> Inside(adj, id) \subseteq S
  BY InsideIs
<1>7. \A d \in DOMAIN adj : named(d) # {} <=> d \in Inside(adj, id)
  BY InsideIs
<1>8. ASSUME NEW d \in DOMAIN adj \ S
      PROVE  open(S \cup {d}) \cup named(d) = open(S) /\ open(S \cup {d}) \cap named(d) = {}
  OBVIOUS
<1> HIDE DEF open, named
<1>9. ASSUME NEW d \in DOMAIN adj \ S
      PROVE  Cardinality(open(S)) = Cardinality(open(S \cup {d})) + Cardinality(named(d))
  <2>1. Cardinality(open(S \cup {d}) \cap named(d)) = 0
    BY <1>8, FS_EmptySet
  <2>2. Cardinality(open(S \cup {d}) \cup named(d)) =
          Cardinality(open(S \cup {d})) + Cardinality(named(d)) - Cardinality(open(S \cup {d}) \cap named(d))
    BY <1>2, <1>3, FS_Union
  <2>3. Cardinality(open(S \cup {d}) \cup named(d)) = Cardinality(open(S))
    BY <1>8
  <2>4. Cardinality(open(S \cup {d})) \in Nat /\ Cardinality(named(d)) \in Nat
    BY <1>2, <1>3
  <2> QED BY <2>1, <2>2, <2>3, <2>4
<1>10. Cardinality(open(S)) = 0 <=> open(S) = {}
  BY <1>2, FS_EmptySet
<1>11. \A d : Cardinality(named(d)) > 0 <=> named(d) # {}
  <2> TAKE d
  <2>1. Cardinality(named(d)) = 0 <=> named(d) = {}
    BY <1>3, FS_EmptySet
  <2> QED BY <1>3, <2>1
<1>12. \A d \in DOMAIN adj \ S : Waits(adj, id, S \cup {d}) = Waits(adj, id, S) - Names(adj, id, d)
  <2> TAKE d \in DOMAIN adj \ S
  <2>1. Cardinality(open(S)) = Cardinality(open(S \cup {d})) + Cardinality(named(d))
    BY <1>9
  <2>2. Cardinality(open(S \cup {d})) \in Nat /\ Cardinality(named(d)) \in Nat
    BY <1>2, <1>3
  <2> QED BY <1>4, <1>5, <2>1, <2>2
<1>13. Waits(adj, id, S) \in Nat /\ (Waits(adj, id, S) = 0 <=> Inside(adj, id) \subseteq S)
  BY <1>2, <1>4, <1>6, <1>10
<1>14. \A d \in DOMAIN adj : Names(adj, id, d) \in Nat /\ (Names(adj, id, d) > 0 <=> d \in Inside(adj, id))
  BY <1>3, <1>5, <1>7, <1>11
<1> QED BY <1>12, <1>13, <1>14

\* Kahn's queue and order on the way: what waits for nothing is in one of them, once, and
\* behind what it depends on.
Sorting(adj, s) ==
  /\ s.queue \in Seq(DOMAIN adj) /\ s.order \in Seq(DOMAIN adj)
  /\ IsInjective(s.queue) /\ IsInjective(s.order) /\ ToSet(s.queue) \cap ToSet(s.order) = {}
  /\ s.degree = [id \in DOMAIN adj |-> Waits(adj, id, ToSet(s.order))]
  /\ \A id \in DOMAIN adj : Waits(adj, id, ToSet(s.order)) = 0 <=> id \in ToSet(s.order) \cup ToSet(s.queue)
  /\ \A i \in DOMAIN s.order : \A d \in Inside(adj, s.order[i]) : \E j \in 1..(i - 1) : s.order[j] = d

LEMMA AppendIs ==
  ASSUME NEW S, NEW s \in Seq(S), NEW x \in S
  PROVE  /\ Append(s, x) \in Seq(S) /\ Len(s) \in Nat /\ Len(Append(s, x)) = Len(s) + 1
         /\ DOMAIN s = 1..Len(s) /\ DOMAIN Append(s, x) = 1..(Len(s) + 1)
         /\ \A i \in 1..Len(s) : Append(s, x)[i] = s[i]
         /\ Append(s, x)[Len(s) + 1] = x
         /\ ToSet(Append(s, x)) = ToSet(s) \cup {x}
         /\ IsInjective(s) /\ x \notin ToSet(s) => IsInjective(Append(s, x))
<1> DEFINE q == Append(s, x)
           n == Len(s)
<1>1. n \in Nat
  OBVIOUS
<1>2. /\ q \in Seq(S) /\ Len(q) = n + 1 /\ q[n + 1] = x
      /\ \A i \in 1..n : q[i] = s[i]
  OBVIOUS
<1>3. DOMAIN s = 1..n
  OBVIOUS
<1> HIDE DEF q, n
<1>4. DOMAIN q = 1..(n + 1)
  BY <1>1, <1>2
<1>5. /\ \A i \in 1..(n + 1) : i \in 1..n \/ i = n + 1
      /\ n + 1 \in 1..(n + 1) /\ n + 1 \notin 1..n
      /\ \A i \in 1..n : i \in 1..(n + 1)
  BY <1>1
<1>6. \A y : (\E i \in 1..(n + 1) : q[i] = y) <=> (\E i \in 1..n : s[i] = y) \/ y = x
  BY <1>2, <1>5
<1>7. ToSet(q) = ToSet(s) \cup {x}
  BY <1>3, <1>4, <1>6 DEF ToSet
<1>8. IsInjective(s) /\ x \notin ToSet(s) => IsInjective(q)
  <2> SUFFICES ASSUME IsInjective(s), x \notin ToSet(s), NEW i \in 1..(n + 1), NEW j \in 1..(n + 1), q[i] = q[j]
               PROVE  i = j
    BY <1>4 DEF IsInjective
  <2>1. \A k \in 1..n : s[k] # x
    BY <1>3 DEF ToSet
  <2> QED BY <1>2, <1>3, <1>5, <2>1 DEF IsInjective
<1> QED BY <1>1, <1>2, <1>3, <1>4, <1>7, <1>8 DEF q, n

LEMMA TailIs ==
  ASSUME NEW S, NEW s \in Seq(S), s # <<>>, IsInjective(s)
  PROVE  /\ Head(s) \in S /\ Tail(s) \in Seq(S) /\ IsInjective(Tail(s))
         /\ ToSet(s) = {Head(s)} \cup ToSet(Tail(s)) /\ Head(s) \notin ToSet(Tail(s))
<1> DEFINE t == Tail(s)
           n == Len(s)
<1>1. n \in Nat \ {0} /\ DOMAIN s = 1..n /\ Head(s) = s[1] /\ s[1] \in S
  OBVIOUS
<1>2. t \in Seq(S) /\ Len(t) = n - 1 /\ \A i \in 1..(n - 1) : t[i] = s[i + 1]
  OBVIOUS
<1> HIDE DEF t, n
<1>3. DOMAIN t = 1..(n - 1)
  BY <1>1, <1>2
<1>4. \A i, j \in 1..n : s[i] = s[j] => i = j
  BY <1>1 DEF IsInjective
<1>5. /\ 1 \in 1..n /\ \A i \in 1..(n - 1) : i + 1 \in 1..n /\ i + 1 # 1
      /\ \A i \in 1..n : i = 1 \/ (i - 1 \in 1..(n - 1) /\ (i - 1) + 1 = i)
  BY <1>1
<1>6. IsInjective(t)
  <2> SUFFICES ASSUME NEW i \in 1..(n - 1), NEW j \in 1..(n - 1), t[i] = t[j]
               PROVE  i = j
    BY <1>3 DEF IsInjective
  <2>1. i + 1 = j + 1
    BY <1>2, <1>4, <1>5
  <2> QED BY <2>1
<1>7. \A y : (\E i \in 1..n : s[i] = y) <=> y = s[1] \/ \E i \in 1..(n - 1) : t[i] = y
  BY <1>2, <1>5, SMTT(60)
<1>8. ToSet(s) = {s[1]} \cup ToSet(t)
  BY <1>1, <1>3, <1>7 DEF ToSet
<1>9. s[1] \notin ToSet(t)
  BY <1>2, <1>3, <1>4, <1>5 DEF ToSet
<1> QED BY <1>1, <1>2, <1>6, <1>8, <1>9 DEF t

LEMMA JoinedIs ==
  ASSUME NEW S, NEW s \in Seq(S), NEW t \in Seq(S)
  PROVE  /\ s \o t \in Seq(S) /\ ToSet(s \o t) = ToSet(s) \cup ToSet(t)
         /\ IsInjective(s) /\ IsInjective(t) /\ ToSet(s) \cap ToSet(t) = {} => IsInjective(s \o t)
<1> DEFINE q == s \o t
           n == Len(s)
           l == Len(t)
<1>1. /\ n \in Nat /\ l \in Nat /\ DOMAIN s = 1..n /\ DOMAIN t = 1..l
      /\ q \in Seq(S) /\ Len(q) = n + l
      /\ \A i \in 1..n : q[i] = s[i]
      /\ \A i \in (n + 1)..(n + l) : q[i] = t[i - n]
  OBVIOUS
<1> HIDE DEF q, n, l
<1>2. DOMAIN q = 1..(n + l)
  BY <1>1
<1>3. /\ \A i \in 1..(n + l) : i \in 1..n \/ (i \in (n + 1)..(n + l) /\ i - n \in 1..l /\ (i - n) + n = i)
      /\ \A i \in 1..n : i \in 1..(n + l)
      /\ \A i \in 1..l : i + n \in 1..(n + l) /\ i + n \in (n + 1)..(n + l) /\ (i + n) - n = i
  BY <1>1
<1>4. \A y : (\E i \in 1..(n + l) : q[i] = y) <=> (\E i \in 1..n : s[i] = y) \/ \E i \in 1..l : t[i] = y
  <2> TAKE y
  <2>1. ASSUME NEW i \in 1..(n + l), q[i] = y
        PROVE  (\E k \in 1..n : s[k] = y) \/ \E k \in 1..l : t[k] = y
    <3>1. i \in 1..n => s[i] = y
      BY <1>1, <2>1
    <3>2. i \in (n + 1)..(n + l) => t[i - n] = y
      BY <1>1, <2>1
    <3> QED BY <1>3, <3>1, <3>2
  <2>2. ASSUME NEW i \in 1..n, s[i] = y
        PROVE  \E k \in 1..(n + l) : q[k] = y
    BY <1>1, <1>3, <2>2
  <2>3. ASSUME NEW i \in 1..l, t[i] = y
        PROVE  \E k \in 1..(n + l) : q[k] = y
    <3>1. i + n \in 1..(n + l) /\ q[i + n] = t[(i + n) - n] /\ (i + n) - n = i
      BY <1>1, <1>3
    <3> QED BY <2>3, <3>1
  <2> QED BY <2>1, <2>2, <2>3
<1>5. ToSet(q) = ToSet(s) \cup ToSet(t)
  BY <1>1, <1>2, <1>4, ZenonT(60) DEF ToSet
<1>6. IsInjective(s) /\ IsInjective(t) /\ ToSet(s) \cap ToSet(t) = {} => IsInjective(q)
  <2> SUFFICES ASSUME IsInjective(s), IsInjective(t), ToSet(s) \cap ToSet(t) = {},
                      NEW i \in 1..(n + l), NEW j \in 1..(n + l), q[i] = q[j]
               PROVE  i = j
    BY <1>2 DEF IsInjective
  <2>1. \A a \in 1..n, b \in 1..l : s[a] # t[b]
    BY <1>1 DEF ToSet
  <2>2. (\A a, b \in 1..n : s[a] = s[b] => a = b) /\ \A a, b \in 1..l : t[a] = t[b] => a = b
    BY <1>1 DEF IsInjective
  <2>3. CASE i \in 1..n /\ j \in 1..n
    BY <1>1, <2>2, <2>3
  <2>4. CASE i \in 1..n /\ j \notin 1..n
    BY <1>1, <1>3, <2>1, <2>4
  <2>5. CASE i \notin 1..n /\ j \in 1..n
    BY <1>1, <1>3, <2>1, <2>5
  <2>6. CASE i \notin 1..n /\ j \notin 1..n
    <3>1. i - n = j - n
      BY <1>1, <1>3, <2>2, <2>6, SMTT(60)
    <3> QED BY <1>3, <2>6, <3>1
  <2> QED BY <2>3, <2>4, <2>5, <2>6
<1> QED BY <1>1, <1>5, <1>6 DEF q


LEMMA PassIs ==
  ASSUME NEW goals, NEW adj, NEW s, s.queue # <<>>
  PROVE  LET degree == [id \in DOMAIN adj |-> s.degree[id] - Names(adj, id, Head(s.queue))]
             freed == {id \in DOMAIN adj : Names(adj, id, Head(s.queue)) > 0 /\ degree[id] = 0}
         IN Pass(goals, adj, s) = [queue |-> Tail(s.queue) \o Listed(goals, freed), degree |-> degree,
                                   order |-> Append(s.order, Head(s.queue))]
<1> DEFINE times == [id \in DOMAIN adj |-> Names(adj, id, Head(s.queue))]
           degree == [id \in DOMAIN adj |-> s.degree[id] - times[id]]
           freed == {id \in DOMAIN adj : times[id] > 0 /\ Released(degree, id)}
<1>1. Pass(goals, adj, s) = [queue |-> Tail(s.queue) \o Listed(goals, freed), degree |-> degree,
                             order |-> Append(s.order, Head(s.queue))]
  BY DEF Pass, Names
<1>2. degree = [id \in DOMAIN adj |-> s.degree[id] - Names(adj, id, Head(s.queue))]
  OBVIOUS
<1>3. freed = {id \in DOMAIN adj : Names(adj, id, Head(s.queue)) > 0 /\ degree[id] = 0}
  BY DEF Released
<1> QED BY <1>1, <1>2, <1>3

LEMMA PassSorts ==
  ASSUME NEW goals, IsBacklog(goals), NEW s, Sorting(Adj(goals), s), s.queue # <<>>
  PROVE  /\ Sorting(Adj(goals), Pass(goals, Adj(goals), s))
         /\ Pass(goals, Adj(goals), s).order = Append(s.order, Head(s.queue))
<1> DEFINE adj == Adj(goals)
           D == DOMAIN adj
           node == Head(s.queue)
           W == ToSet(s.order)
           degree == [id \in D |-> s.degree[id] - Names(adj, id, node)]
           freed == {id \in D : Names(adj, id, node) > 0 /\ degree[id] = 0}
           queue == Tail(s.queue) \o Listed(goals, freed)
           order == Append(s.order, node)
           r == [queue |-> queue, degree |-> degree, order |-> order]
<1>1. Pass(goals, adj, s) = r
  BY PassIs
<1>2. IsGraph(adj) /\ D = Ids(goals)
  BY BacklogIs
<1> HIDE DEF adj
<1>3. /\ s.queue \in Seq(D) /\ s.order \in Seq(D)
      /\ IsInjective(s.queue) /\ IsInjective(s.order) /\ ToSet(s.queue) \cap W = {}
      /\ s.degree = [id \in D |-> Waits(adj, id, W)]
      /\ \A id \in D : Waits(adj, id, W) = 0 <=> id \in W \cup ToSet(s.queue)
      /\ \A i \in DOMAIN s.order : \A d \in Inside(adj, s.order[i]) : \E j \in 1..(i - 1) : s.order[j] = d
  BY DEF Sorting, adj
<1> HIDE DEF D
<1>4. /\ node \in D /\ Tail(s.queue) \in Seq(D) /\ IsInjective(Tail(s.queue))
      /\ ToSet(s.queue) = {node} \cup ToSet(Tail(s.queue)) /\ node \notin ToSet(Tail(s.queue))
  BY <1>3, TailIs
<1>5. node \notin W
  BY <1>3, <1>4
<1> HIDE DEF node
<1>6. /\ order \in Seq(D) /\ Len(s.order) \in Nat /\ Len(order) = Len(s.order) + 1
      /\ DOMAIN s.order = 1..Len(s.order) /\ DOMAIN order = 1..(Len(s.order) + 1)
      /\ \A i \in 1..Len(s.order) : order[i] = s.order[i]
      /\ order[Len(s.order) + 1] = node
      /\ ToSet(order) = W \cup {node} /\ IsInjective(order)
  BY <1>3, <1>4, <1>5, AppendIs
<1> HIDE DEF order
<1>7. \A id \in D : /\ Waits(adj, id, W) \in Nat /\ Names(adj, id, node) \in Nat
                    /\ Waits(adj, id, W \cup {node}) \in Nat
                    /\ Waits(adj, id, W \cup {node}) = Waits(adj, id, W) - Names(adj, id, node)
                    /\ Waits(adj, id, W) = 0 <=> Inside(adj, id) \subseteq W
  BY <1>2, <1>4, <1>5, WaitsIs DEF D
<1> HIDE DEF W
<1>8. \A id \in D : degree[id] = Waits(adj, id, W \cup {node})
  BY <1>3, <1>7
<1>9. degree = [id \in D |-> Waits(adj, id, ToSet(order))]
  BY <1>6, <1>8
<1>10. freed \in SUBSET D /\ \A id \in D : id \in freed <=> Names(adj, id, node) > 0 /\ Waits(adj, id, W \cup {node}) = 0
  BY <1>8
<1> HIDE DEF degree, freed
<1>11. \A id \in freed : id \notin W \cup ToSet(s.queue)
  <2> SUFFICES ASSUME NEW id \in freed
               PROVE  Waits(adj, id, W) # 0
    BY <1>3, <1>10
  <2> QED BY <1>7, <1>10
<1>12. /\ Listed(goals, freed) \in Seq(D) /\ ToSet(Listed(goals, freed)) = freed /\ IsInjective(Listed(goals, freed))
  BY <1>2, <1>10, ListedIs
<1> HIDE DEF queue
<1>13. queue \in Seq(D) /\ ToSet(queue) = ToSet(Tail(s.queue)) \cup freed /\ IsInjective(queue)
  <2>1. ToSet(Tail(s.queue)) \cap ToSet(Listed(goals, freed)) = {}
    BY <1>4, <1>11, <1>12
  <2> DEFINE a == Tail(s.queue)
             b == Listed(goals, freed)
  <2>2. /\ a \in Seq(D) /\ IsInjective(a) /\ b \in Seq(D) /\ IsInjective(b) /\ ToSet(a) \cap ToSet(b) = {}
        /\ queue = a \o b
    BY <1>4, <1>12, <2>1 DEF queue
  <2> HIDE DEF a, b
  <2>3. queue \in Seq(D) /\ ToSet(queue) = ToSet(a) \cup ToSet(b) /\ IsInjective(queue)
    BY <2>2, JoinedIs
  <2> QED BY <1>12, <2>3 DEF a, b
<1>14. ToSet(queue) \cap ToSet(order) = {}
  BY <1>3, <1>4, <1>6, <1>11, <1>13
<1>15. ASSUME NEW id \in D
       PROVE  Waits(adj, id, ToSet(order)) = 0 <=> id \in ToSet(order) \cup ToSet(queue)
  <2>1. CASE Names(adj, id, node) > 0
    <3>1. Waits(adj, id, W) # 0
      BY <1>7, <2>1
    <3>2. id \notin W \cup ToSet(s.queue)
      BY <1>3, <3>1
    <3> QED BY <1>4, <1>6, <1>10, <1>13, <2>1, <3>2
  <2>2. CASE ~(Names(adj, id, node) > 0)
    <3>1. Waits(adj, id, W \cup {node}) = Waits(adj, id, W)
      <4>1. Names(adj, id, node) \in Nat /\ Waits(adj, id, W) \in Nat
        BY <1>7
      <4>2. Names(adj, id, node) = 0
        BY <2>2, <4>1
      <4>3. Waits(adj, id, W \cup {node}) = Waits(adj, id, W) - Names(adj, id, node)
        BY <1>7
      <4> QED BY <4>1, <4>2, <4>3
    <3>2. id \notin freed
      BY <1>10, <2>2
    <3> QED BY <1>3, <1>4, <1>6, <1>13, <3>1, <3>2
  <2> QED BY <2>1, <2>2
<1>16. ASSUME NEW i \in DOMAIN order, NEW d \in Inside(adj, order[i])
       PROVE  \E j \in 1..(i - 1) : order[j] = d
  <2>1. CASE i \in 1..Len(s.order)
    <3>1. PICK j \in 1..(i - 1) : s.order[j] = d
      BY <1>3, <1>6, <1>16, <2>1
    <3>2. j \in 1..Len(s.order)
      BY <1>6, <2>1
    <3> QED BY <1>6, <3>1, <3>2
  <2>2. CASE i = Len(s.order) + 1
    <3>1. Inside(adj, node) \subseteq W
      BY <1>3, <1>4, <1>7
    <3>2. d \in W
      BY <1>6, <1>16, <2>2, <3>1
    <3>3. PICK j \in 1..Len(s.order) : s.order[j] = d
      BY <1>6, <3>2 DEF W, ToSet
    <3>4. j \in 1..(i - 1)
      BY <1>6, <2>2
    <3> QED BY <1>6, <3>3, <3>4
  <2>3. i \in 1..Len(s.order) \/ i = Len(s.order) + 1
    BY <1>6
  <2> QED BY <2>1, <2>2, <2>3
<1>17. r.queue = queue /\ r.degree = degree /\ r.order = order
  OBVIOUS
<1> HIDE DEF r
<1>18. Sorting(adj, r)
  <2>1. r.degree = [id \in DOMAIN adj |-> Waits(adj, id, ToSet(r.order))]
    BY <1>9, <1>17 DEF D
  <2>2. /\ r.queue \in Seq(DOMAIN adj) /\ r.order \in Seq(DOMAIN adj)
        /\ IsInjective(r.queue) /\ IsInjective(r.order) /\ ToSet(r.queue) \cap ToSet(r.order) = {}
    BY <1>6, <1>13, <1>14, <1>17 DEF D
  <2>3. \A id \in DOMAIN adj : Waits(adj, id, ToSet(r.order)) = 0 <=> id \in ToSet(r.order) \cup ToSet(r.queue)
    BY <1>15, <1>17 DEF D
  <2>4. \A i \in DOMAIN r.order : \A d \in Inside(adj, r.order[i]) : \E j \in 1..(i - 1) : r.order[j] = d
    BY <1>16, <1>17
  <2> QED BY <2>1, <2>2, <2>3, <2>4 DEF Sorting
<1> QED BY <1>1, <1>17, <1>18 DEF adj, order, node


SortStart(goals, adj) ==
  LET degree == [id \in DOMAIN adj |-> Cardinality({k \in DOMAIN adj[id] : adj[id][k] \in DOMAIN adj})]
      free == {id \in DOMAIN adj : degree[id] = 0}
  IN [queue |-> Listed(goals, free), degree |-> degree, order |-> <<>>]
Sorts(adj) == [queue : Seq(DOMAIN adj), degree : [DOMAIN adj -> Nat], order : Seq(DOMAIN adj)]
SortedTo(adj, k, s) == s \in Sorts(adj) /\ Sorting(adj, s) /\ (Len(s.order) = k \/ s.queue = <<>>)

LEMMA SortingIsTyped ==
  ASSUME NEW adj, IsGraph(adj), NEW q, NEW d, NEW o, Sorting(adj, [queue |-> q, degree |-> d, order |-> o])
  PROVE  [queue |-> q, degree |-> d, order |-> o] \in Sorts(adj)
<1> DEFINE s == [queue |-> q, degree |-> d, order |-> o]
<1>1. /\ s.queue \in Seq(DOMAIN adj) /\ s.order \in Seq(DOMAIN adj)
      /\ s.degree = [id \in DOMAIN adj |-> Waits(adj, id, ToSet(s.order))]
  BY DEF Sorting
<1>2. s.queue = q /\ s.degree = d /\ s.order = o
  OBVIOUS
<1> HIDE DEF s
<1>3. d \in [DOMAIN adj -> Nat]
  BY <1>1, <1>2, WaitsIs
<1> QED BY <1>1, <1>2, <1>3 DEF Sorts, s

LEMMA SortIs ==
  ASSUME NEW goals
  PROVE  topological_sort(goals) =
           IF has_cycle(goals) THEN <<>>
           ELSE (CHOOSE f : f = [k \in 0..(Len(goals) + 1) |->
                                   IF k = 0 THEN SortStart(goals, Adj(goals))
                                   ELSE Pass(goals, Adj(goals), f[k - 1])])[Len(goals) + 1].order
BY DEF topological_sort, SortStart

LEMMA SortStarts ==
  ASSUME NEW goals, IsBacklog(goals)
  PROVE  SortedTo(Adj(goals), 0, SortStart(goals, Adj(goals)))
<1> DEFINE adj == Adj(goals)
           D == DOMAIN adj
           degree == [id \in D |-> Waits(adj, id, {})]
           free == {id \in D : degree[id] = 0}
           s == SortStart(goals, adj)
<1>1. D = Ids(goals)
  BY BacklogIs
<1> HIDE DEF adj
<1>2. ASSUME NEW id \in D
      PROVE  Cardinality({k \in DOMAIN adj[id] : adj[id][k] \in D}) = Waits(adj, id, {})
  <2>1. {k \in DOMAIN adj[id] : adj[id][k] \in D} = {k \in DOMAIN adj[id] : adj[id][k] \in D \ {}}
    OBVIOUS
  <2> QED BY <2>1 DEF Waits
<1>3. s = [queue |-> Listed(goals, free), degree |-> degree, order |-> <<>>]
  <2>1. [id \in D |-> Cardinality({k \in DOMAIN adj[id] : adj[id][k] \in D})] = degree
    BY <1>2
  <2> QED BY <2>1 DEF SortStart
<1>4. free \in SUBSET D /\ \A id \in D : id \in free <=> Waits(adj, id, {}) = 0
  OBVIOUS
<1> HIDE DEF D, free, degree
<1>5. /\ Listed(goals, free) \in Seq(D) /\ ToSet(Listed(goals, free)) = free /\ IsInjective(Listed(goals, free))
  BY <1>1, <1>4, ListedIs
<1>6. s.queue = Listed(goals, free) /\ s.degree = degree /\ s.order = <<>>
  BY <1>3
<1> HIDE DEF s
<1>7. /\ <<>> \in Seq(D) /\ IsInjective(<<>>) /\ ToSet(<<>>) = {} /\ Len(<<>>) = 0 /\ \A i \in DOMAIN <<>> : FALSE
  BY DEF IsInjective, ToSet
<1>8. s.degree = [id \in DOMAIN adj |-> Waits(adj, id, ToSet(s.order))]
  BY <1>6, <1>7 DEF degree, D
<1>9. /\ s.queue \in Seq(DOMAIN adj) /\ s.order \in Seq(DOMAIN adj)
      /\ IsInjective(s.queue) /\ IsInjective(s.order) /\ ToSet(s.queue) \cap ToSet(s.order) = {}
  BY <1>5, <1>6, <1>7 DEF D
<1>10. \A id \in DOMAIN adj : Waits(adj, id, ToSet(s.order)) = 0 <=> id \in ToSet(s.order) \cup ToSet(s.queue)
  BY <1>4, <1>5, <1>6, <1>7 DEF D
<1>11. \A i \in DOMAIN s.order : \A d \in Inside(adj, s.order[i]) : \E j \in 1..(i - 1) : s.order[j] = d
  BY <1>6, <1>7
<1>12. Sorting(adj, s)
  BY <1>8, <1>9, <1>10, <1>11 DEF Sorting
<1>13. s \in Sorts(adj)
  <2>1. IsGraph(adj)
    BY BacklogIs DEF adj
  <2> QED BY <1>3, <1>12, <2>1, SortingIsTyped
<1> QED BY <1>6, <1>7, <1>12, <1>13 DEF SortedTo, s, adj

LEMMA SortGoesOn ==
  ASSUME NEW goals, IsBacklog(goals), NEW k \in Nat \ {0}, NEW s, SortedTo(Adj(goals), k - 1, s)
  PROVE  SortedTo(Adj(goals), k, Pass(goals, Adj(goals), s))
<1>1. CASE s.queue = <<>>
  BY <1>1 DEF SortedTo, Pass
<1>2. CASE s.queue # <<>>
  <2>1. Sorting(Adj(goals), s) /\ Len(s.order) = k - 1
    BY <1>2 DEF SortedTo
  <2>2. /\ Sorting(Adj(goals), Pass(goals, Adj(goals), s))
        /\ Pass(goals, Adj(goals), s).order = Append(s.order, Head(s.queue))
    BY <1>2, <2>1, PassSorts
  <2>3. s.order \in Seq(DOMAIN Adj(goals))
    BY <2>1 DEF Sorting
  <2>4. Len(Append(s.order, Head(s.queue))) = k
    BY <2>1, <2>3
  <2>5. Pass(goals, Adj(goals), s) \in Sorts(Adj(goals))
    <3>1. \E q, d, o : Pass(goals, Adj(goals), s) = [queue |-> q, degree |-> d, order |-> o]
      BY <1>2, PassIs
    <3>2. IsGraph(Adj(goals))
      BY BacklogIs
    <3> QED BY <2>2, <3>1, <3>2, SortingIsTyped
  <2> QED BY <2>2, <2>4, <2>5 DEF SortedTo
<1> QED BY <1>1, <1>2

\* An order has no more members than there are goals.
LEMMA OrderIsShort ==
  ASSUME NEW D, IsFiniteSet(D), NEW s \in Seq(D), IsInjective(s)
  PROVE  Len(s) <= Cardinality(D) /\ (ToSet(s) = D => Len(s) = Cardinality(D))
<1>1. Len(s) \in Nat /\ DOMAIN s = 1..Len(s) /\ s \in [1..Len(s) -> D]
  OBVIOUS
<1>2. IsFiniteSet(1..Len(s)) /\ Cardinality(1..Len(s)) = Len(s)
  <2>1. IsFiniteSet(1..Len(s)) /\ Cardinality(1..Len(s)) = IF 1 > Len(s) THEN 0 ELSE Len(s) - 1 + 1
    BY <1>1, FS_Interval, SMTT(60)
  <2> QED BY <1>1, <2>1
<1>3. s \in Injection(1..Len(s), D)
  BY <1>1 DEF Injection, IsInjective
<1>4. Cardinality(1..Len(s)) <= Cardinality(D)
  BY <1>3, FS_Injection
<1>5. ASSUME ToSet(s) = D
      PROVE  Cardinality(1..Len(s)) = Cardinality(D)
  <2>1. s \in Surjection(1..Len(s), D)
    BY <1>1, <1>5 DEF Surjection, ToSet
  <2> QED BY <1>3, <2>1, FS_Injection
<1> QED BY <1>2, <1>4, <1>5

\* An order that nothing is queued for any more has every goal when there is no cycle.
LEMMA SortedAll ==
  ASSUME NEW adj, IsGraph(adj), NEW s, Sorting(adj, s), s.queue = <<>>,
         \A id \in DOMAIN adj : id \notin Below(adj, id)
  PROVE  OrderFollows(adj, s.order)
<1> DEFINE D == DOMAIN adj
           order == s.order
           W == ToSet(order)
           Late == D \ W
           M == {Cardinality(Below(adj, id)) : id \in Late}
<1>1. /\ order \in Seq(D) /\ IsInjective(order) /\ ToSet(s.queue) = {}
      /\ \A id \in D : Waits(adj, id, W) = 0 <=> id \in W \cup ToSet(s.queue)
      /\ \A i \in DOMAIN order : \A d \in Inside(adj, order[i]) : \E j \in 1..(i - 1) : order[j] = d
  <2>1. ToSet(s.queue) = {}
    BY DEF ToSet
  <2> QED BY <2>1 DEF Sorting
<1>2. \A id \in D : Cardinality(Below(adj, id)) \in Nat
  BY LessBelow
<1> HIDE DEF order, W
<1>3. Late = {}
  <2> SUFFICES ASSUME Late # {}
               PROVE  FALSE
    OBVIOUS
  <2>1. M \in SUBSET Nat /\ M # {}
    BY <1>2
  <2>2. Min(M) \in M /\ \A n \in M : Min(M) <= n
    BY <2>1, First
  <2>3. PICK a \in Late : Min(M) = Cardinality(Below(adj, a))
    BY <2>2
  <2>4. \A b \in Late : Cardinality(Below(adj, a)) <= Cardinality(Below(adj, b))
    BY <2>2, <2>3
  <2>5. ~(Inside(adj, a) \subseteq W)
    BY <1>1, WaitsIs
  <2>6. PICK b \in Inside(adj, a) : b \notin W
    BY <2>5
  <2>7. b \in Late /\ b \in Below(adj, a)
    BY <2>6, InsideIs, BelowIs
  <2>8. Cardinality(Below(adj, b)) < Cardinality(Below(adj, a))
    BY <2>7, LessBelow
  <2> QED BY <1>2, <2>4, <2>7, <2>8
<1>4. W = D
  <2>1. W \subseteq D
    BY <1>1 DEF W, ToSet
  <2> QED BY <1>3, <2>1
<1>5. Len(order) = Cardinality(D)
  BY <1>1, <1>4, OrderIsShort DEF IsGraph, W
<1>6. ASSUME NEW i \in DOMAIN order, NEW j \in DOMAIN order, order[j] \in Inside(adj, order[i])
      PROVE  j < i
  <2>1. PICK k \in 1..(i - 1) : order[k] = order[j]
    BY <1>1, <1>6
  <2>2. DOMAIN order = 1..Len(order) /\ Len(order) \in Nat
    BY <1>1
  <2>3. k \in DOMAIN order /\ k < i
    BY <1>6, <2>1, <2>2
  <2>4. k = j
    BY <1>1, <2>1, <2>3 DEF IsInjective
  <2> QED BY <2>3, <2>4
<1> QED BY <1>4, <1>5, <1>6 DEF OrderFollows, W, order

LEMMA SortFollows ==
  ASSUME NEW goals, IsBacklog(goals), find_cycle(goals) = <<>>
  PROVE  OrderFollows(Adj(goals), topological_sort(goals))
<1> DEFINE adj == Adj(goals)
           n == Len(goals) + 1
           Z == Sorts(adj)
           z == SortStart(goals, adj)
           R == [k \in 0..n |-> {s \in Z : SortedTo(adj, k, s)}]
           B == [p \in Z \X (1..n) |-> Pass(goals, adj, p[1])]
<1>1. n \in Nat /\ n > 0 /\ Len(goals) + 1 = n /\ IsGraph(adj) /\ Cardinality(DOMAIN adj) + 1 = n
  BY BacklogIs
<1>2. \A id \in DOMAIN adj : id \notin Below(adj, id)
  BY SearchFinds DEF CyclesFound
<1>3. SortedTo(adj, 0, z)
  BY SortStarts
<1>4. \A k \in 1..n : \A s : SortedTo(adj, k - 1, s) => SortedTo(adj, k, Pass(goals, adj, s))
  <2>1. \A k \in 1..n : k \in Nat \ {0}
    OBVIOUS
  <2> QED BY <2>1, SortGoesOn
<1> HIDE DEF adj, n, z
<1>5. R \in [0..n -> SUBSET Z] /\ \A k \in 0..n : \A s : s \in R[k] <=> SortedTo(adj, k, s)
  BY DEF SortedTo
<1>6. \A k \in 1..n : \A s \in Z : B[<<s, k>>] = Pass(goals, adj, s)
  OBVIOUS
<1> HIDE DEF R, B, Z
<1>7. IsMade(n, Z, z, R, B)
  <2>1. z \in R[0]
    BY <1>1, <1>3, <1>5
  <2>2. \A k \in 1..n : \A s \in R[k - 1] : B[<<s, k>>] \in R[k]
    <3> TAKE k \in 1..n
    <3> TAKE s \in R[k - 1]
    <3>1. k - 1 \in 0..n /\ k \in 0..n
      BY <1>1
    <3>2. SortedTo(adj, k - 1, s) /\ s \in Z
      BY <1>5, <3>1 DEF SortedTo, Z
    <3> QED BY <1>4, <1>5, <1>6, <3>1, <3>2
  <2> QED BY <1>5, <2>1, <2>2 DEF IsMade
<1>8. PICK h \in [0..n -> Z] : h[0] = z /\ \A k \in 1..n : h[k] = B[<<h[k - 1], k>>]
  BY <1>1, <1>7, OneByOne
<1>9. h = [k \in 0..n |-> IF k = 0 THEN z ELSE Pass(goals, adj, h[k - 1])]
  <2>1. \A k \in 0..n : k # 0 => k \in 1..n /\ k - 1 \in 0..n
    BY <1>1
  <2>2. \A k \in 0..n : h[k] = IF k = 0 THEN z ELSE Pass(goals, adj, h[k - 1])
    BY <1>6, <1>8, <2>1
  <2> QED BY <2>2
<1> DEFINE f == CHOOSE f : f = [k \in 0..n |-> IF k = 0 THEN z ELSE Pass(goals, adj, f[k - 1])]
<1>10. f = [k \in 0..n |-> IF k = 0 THEN z ELSE Pass(goals, adj, f[k - 1])]
  BY <1>9
<1>11. topological_sort(goals) = f[n].order
  <2>1. ~has_cycle(goals)
    BY DEF has_cycle
  <2> QED BY <2>1, SortIs DEF adj, n, z
<1> HIDE DEF f
<1>12. \A k \in 0..n : f[k] = IF k = 0 THEN z ELSE Pass(goals, adj, f[k - 1])
  BY <1>10
<1> DEFINE G == {k \in Nat : k <= n => SortedTo(adj, k, f[k])}
<1>13. 0 \in G
  BY <1>1, <1>3, <1>12
<1>14. \A k \in Nat : k \in G => k + 1 \in G
  <2> SUFFICES ASSUME NEW k \in Nat, k \in G, k + 1 <= n
               PROVE  SortedTo(adj, k + 1, f[k + 1])
    OBVIOUS
  <2>1. k + 1 \in 0..n /\ k + 1 \in 1..n /\ k + 1 # 0 /\ (k + 1) - 1 = k /\ k <= n
    BY <1>1
  <2>2. f[k + 1] = Pass(goals, adj, f[k])
    BY <1>12, <2>1
  <2> QED BY <1>4, <2>1, <2>2
<1> HIDE DEF G
<1>15. \A k \in Nat : k \in G
  BY <1>13, <1>14, Induction
<1>16. SortedTo(adj, n, f[n])
  BY <1>1, <1>15 DEF G
<1>17. Sorting(adj, f[n]) /\ f[n].order \in Seq(DOMAIN adj) /\ IsInjective(f[n].order)
  BY <1>16 DEF SortedTo, Sorting
<1>18. f[n].queue = <<>>
  <2>1. Len(f[n].order) <= Cardinality(DOMAIN adj)
    BY <1>1, <1>17, OrderIsShort DEF IsGraph
  <2>2. Len(f[n].order) \in Nat
    BY <1>17
  <2>3. Cardinality(DOMAIN adj) \in Nat
    BY <1>1, FS_CardinalityType DEF IsGraph
  <2>4. Len(f[n].order) # n
    BY <1>1, <2>1, <2>2, <2>3
  <2> QED BY <1>16, <2>4 DEF SortedTo
<1>19. OrderFollows(adj, f[n].order)
  BY <1>1, <1>2, <1>17, <1>18, SortedAll
<1> QED BY <1>11, <1>19 DEF adj

-----------------------------------------------------------------------------
(* The depth of a goal                                                     *)

Dives(adj) ==
  {s \in [node : DOMAIN adj, next : Nat \ {0}, depth : Nat, seen : SUBSET DOMAIN adj] : s.node \in s.seen}
Depths(adj) == [depth : Nat, seen : SUBSET DOMAIN adj]
Deepen(visit, adj, s) ==
  LET dep == adj[s.node][s.next]
      below == IF dep \in s.seen THEN [depth |-> 0, seen |-> s.seen]
               ELSE visit[[node |-> dep, next |-> 1, depth |-> 0, seen |-> s.seen \cup {dep}]]
  IN IF s.next > Len(adj[s.node]) THEN [depth |-> s.depth, seen |-> s.seen]
     ELSE IF dep \notin DOMAIN adj THEN visit[[s EXCEPT !.next = @ + 1]]
     ELSE visit[[s EXCEPT !.next = @ + 1, !.depth = Max({@, 1 + below.depth}), !.seen = below.seen]]

LEMMA DeepenIs ==
  ASSUME NEW adj
  PROVE  deepen(adj) = CHOOSE f : f = [s \in Dives(adj) |-> Deepen(f, adj, s)]
BY DEF deepen, Dives, Deepen

LEMMA MaxOfTwo ==
  ASSUME NEW a \in Nat, NEW b \in Nat
  PROVE  Max({a, b}) = IF a >= b THEN a ELSE b
<1>1. CASE a >= b
  <2>1. \A x \in {a, b} : a >= x
    BY <1>1
  <2>2. \A y \in {a, b} : (\A x \in {a, b} : y >= x) => y = a
    BY <1>1
  <2> QED BY <1>1, <2>1, <2>2 DEF Max
<1>2. CASE ~(a >= b)
  <2>1. \A x \in {a, b} : b >= x
    BY <1>2
  <2>2. \A y \in {a, b} : (\A x \in {a, b} : y >= x) => y = b
    BY <1>2
  <2> QED BY <1>2, <2>1, <2>2 DEF Max
<1> QED BY <1>1, <1>2

\* Where the dive goes on, and what it finds below the dependency it is at.
Further(s, depth, seen) == [node |-> s.node, next |-> s.next + 1, depth |-> depth, seen |-> seen]
Enter(adj, s) ==
  [node |-> adj[s.node][s.next], next |-> 1, depth |-> 0, seen |-> s.seen \cup {adj[s.node][s.next]}]
Under(visit, adj, s) ==
  IF adj[s.node][s.next] \in s.seen THEN [depth |-> 0, seen |-> s.seen] ELSE visit[Enter(adj, s)]
Deepest(a, b) == IF a >= b THEN a ELSE b

LEMMA DiveIs ==
  ASSUME NEW adj, IsGraph(adj), NEW s \in Dives(adj)
  PROVE  /\ s.node \in DOMAIN adj /\ s.next \in Nat \ {0} /\ s.depth \in Nat /\ s.seen \in SUBSET DOMAIN adj
         /\ s.node \in s.seen /\ Len(adj[s.node]) \in Nat /\ DOMAIN adj[s.node] = 1..Len(adj[s.node])
         /\ \A k \in DOMAIN adj[s.node] : adj[s.node][k] \in DOMAIN adj => adj[s.node][k] \in Inside(adj, s.node)
<1>1. /\ s.node \in DOMAIN adj /\ s.next \in Nat \ {0} /\ s.depth \in Nat /\ s.seen \in SUBSET DOMAIN adj
      /\ s.node \in s.seen
  BY DEF Dives
<1>2. adj[s.node] \in Seq(GoalId)
  BY <1>1 DEF IsGraph
<1>3. Len(adj[s.node]) \in Nat /\ DOMAIN adj[s.node] = 1..Len(adj[s.node])
  BY <1>2
<1> QED BY <1>1, <1>3, InsideIs

\* What a step of the dive does, whatever the rest of it answers.
LEMMA StepDown ==
  ASSUME NEW adj, IsGraph(adj), NEW visit, NEW s \in Dives(adj)
  PROVE  /\ s.next > Len(adj[s.node]) => Deepen(visit, adj, s) = [depth |-> s.depth, seen |-> s.seen]
         /\ s.next <= Len(adj[s.node]) =>
              /\ adj[s.node][s.next] \notin DOMAIN adj => Deepen(visit, adj, s) = visit[Further(s, s.depth, s.seen)]
              /\ adj[s.node][s.next] \in DOMAIN adj /\ Under(visit, adj, s).depth \in Nat =>
                   Deepen(visit, adj, s) = visit[Further(s, Deepest(s.depth, 1 + Under(visit, adj, s).depth),
                                                         Under(visit, adj, s).seen)]
<1> DEFINE dep == adj[s.node][s.next]
           below == Under(visit, adj, s)
<1>1. s.next \in Nat /\ s.depth \in Nat /\ Len(adj[s.node]) \in Nat
  BY DiveIs
<1>2. [s EXCEPT !.next = @ + 1] = Further(s, s.depth, s.seen)
  BY DEF Dives, Further
<1>3. \A d, e : [s EXCEPT !.next = @ + 1, !.depth = d, !.seen = e] = Further(s, d, e)
  <2> TAKE d, e
  <2>1. [s EXCEPT !.next = @ + 1, !.depth = d, !.seen = e] =
          [[[s EXCEPT !.next = @ + 1] EXCEPT !.depth = d] EXCEPT !.seen = e]
    OBVIOUS
  <2>2. [[[s EXCEPT !.next = @ + 1] EXCEPT !.depth = d] EXCEPT !.seen = e] =
          [[Further(s, s.depth, s.seen) EXCEPT !.depth = d] EXCEPT !.seen = e]
    BY <1>2
  <2>3. [Further(s, s.depth, s.seen) EXCEPT !.depth = d] = Further(s, d, s.seen)
    BY DEF Further
  <2>4. [Further(s, d, s.seen) EXCEPT !.seen = e] = Further(s, d, e)
    BY DEF Further
  <2> QED BY <2>1, <2>2, <2>3, <2>4
<1>4. Deepen(visit, adj, s) =
        IF s.next > Len(adj[s.node]) THEN [depth |-> s.depth, seen |-> s.seen]
        ELSE IF dep \notin DOMAIN adj THEN visit[[s EXCEPT !.next = @ + 1]]
        ELSE visit[[s EXCEPT !.next = @ + 1, !.depth = Max({s.depth, 1 + below.depth}), !.seen = below.seen]]
  BY Zenon DEF Deepen, Under, Enter
<1>5. Deepen(visit, adj, s) =
        IF s.next > Len(adj[s.node]) THEN [depth |-> s.depth, seen |-> s.seen]
        ELSE IF dep \notin DOMAIN adj THEN visit[Further(s, s.depth, s.seen)]
        ELSE visit[Further(s, Max({s.depth, 1 + below.depth}), below.seen)]
  BY <1>2, <1>3, <1>4
<1>6. below.depth \in Nat => Max({s.depth, 1 + below.depth}) = Deepest(s.depth, 1 + below.depth)
  <2> HIDE DEF below
  <2> HAVE below.depth \in Nat
  <2>1. 1 + below.depth \in Nat
    OBVIOUS
  <2> QED BY <1>1, <2>1, MaxOfTwo DEF Deepest
<1>7. s.next <= Len(adj[s.node]) => ~(s.next > Len(adj[s.node]))
  BY <1>1
<1> HIDE DEF below
<1> QED BY <1>5, <1>6, <1>7 DEF below

Left(adj) == [s \in Dives(adj) |-> Unseen(adj, s.seen, s.node, s.next)]

LEMMA LessLeft ==
  ASSUME NEW adj, IsGraph(adj), NEW s \in Dives(adj), s.next <= Len(adj[s.node])
  PROVE  /\ \A d \in Nat, T \in SUBSET DOMAIN adj :
              s.seen \subseteq T =>
                /\ Further(s, d, T) \in Dives(adj) /\ Left(adj)[Further(s, d, T)] < Left(adj)[s]
                /\ Further(s, d, T).node = s.node /\ Further(s, d, T).next = s.next + 1
                /\ Further(s, d, T).depth = d /\ Further(s, d, T).seen = T
         /\ adj[s.node][s.next] \in DOMAIN adj \ s.seen =>
              Enter(adj, s) \in Dives(adj) /\ Left(adj)[Enter(adj, s)] < Left(adj)[s]
<1>1. /\ s.node \in DOMAIN adj /\ s.next \in Nat \ {0} /\ s.depth \in Nat /\ s.seen \in SUBSET DOMAIN adj
      /\ s.node \in s.seen
  BY DiveIs
<1>2. ASSUME NEW d \in Nat, NEW T \in SUBSET DOMAIN adj, s.seen \subseteq T
      PROVE  /\ Further(s, d, T) \in Dives(adj) /\ Left(adj)[Further(s, d, T)] < Left(adj)[s]
             /\ Further(s, d, T).node = s.node /\ Further(s, d, T).next = s.next + 1
             /\ Further(s, d, T).depth = d /\ Further(s, d, T).seen = T
  <2>1. /\ Further(s, d, T).node = s.node /\ Further(s, d, T).next = s.next + 1
        /\ Further(s, d, T).depth = d /\ Further(s, d, T).seen = T
    BY DEF Further
  <2>2. Further(s, d, T) \in Dives(adj)
    BY <1>1, <1>2 DEF Dives, Further
  <2>3. Unseen(adj, T, s.node, s.next + 1) < Unseen(adj, s.seen, s.node, s.next)
    BY <1>1, <1>2, LessToLookAt
  <2> QED BY <2>1, <2>2, <2>3 DEF Left
<1>3. ASSUME adj[s.node][s.next] \in DOMAIN adj \ s.seen
      PROVE  Enter(adj, s) \in Dives(adj) /\ Left(adj)[Enter(adj, s)] < Left(adj)[s]
  <2> DEFINE dep == adj[s.node][s.next]
             t == Enter(adj, s)
  <2>0. dep \in DOMAIN adj \ s.seen
    BY <1>3
  <2>1. t = [node |-> dep, next |-> 1, depth |-> 0, seen |-> s.seen \cup {dep}]
    BY DEF Enter
  <2> HIDE DEF dep, t
  <2>2. t.node = dep /\ t.next = 1 /\ t.seen = s.seen \cup {dep}
    BY <2>1
  <2>3. t \in Dives(adj)
    BY <1>1, <2>0, <2>1 DEF Dives
  <2>4. Unseen(adj, s.seen \cup {dep}, dep, 1) < Unseen(adj, s.seen, s.node, s.next)
    BY <2>0, LessToEnter
  <2>5. t \in Dives(adj) /\ Left(adj)[t] < Left(adj)[s]
    BY <2>2, <2>3, <2>4 DEF Left
  <2> QED BY <2>5 DEF t
<1> QED BY <1>2, <1>3


\* What a dive answers: how deep it went, by what it has seen on its way.
Dived(adj, s, r) ==
  /\ r \in Depths(adj)
  /\ s.seen \subseteq r.seen /\ r.seen \subseteq s.seen \cup Below(adj, s.node)
  /\ s.depth <= r.depth
  /\ r.depth > 0 <=> s.depth > 0 \/ \E k \in DOMAIN adj[s.node] : k >= s.next /\ adj[s.node][k] \in DOMAIN adj
  /\ r.depth <= s.depth \/ r.depth <= 1 + Cardinality(r.seen \ s.seen)
  /\ (\A id \in DOMAIN adj : id \notin Below(adj, id)) =>
       r.depth <= s.depth \/ r.depth <= Cardinality(Below(adj, s.node))

LEMMA DivedIs ==
  ASSUME NEW adj, IsGraph(adj), NEW s, NEW r, Dived(adj, s, r)
  PROVE  r.depth \in Nat /\ r.seen \in SUBSET DOMAIN adj /\ Cardinality(r.seen \ s.seen) \in Nat
<1>1. r.depth \in Nat /\ r.seen \in SUBSET DOMAIN adj
  BY DEF Dived, Depths
<1>2. r.seen \ s.seen \in SUBSET DOMAIN adj /\ IsFiniteSet(DOMAIN adj)
  BY <1>1 DEF IsGraph
<1>3. Cardinality(r.seen \ s.seen) \in Nat
  BY <1>2, FS_Subset, FS_CardinalityType
<1> QED BY <1>1, <1>3

\* What is under the next dependency.
LEMMA UnderIs ==
  ASSUME NEW adj, IsGraph(adj), NEW visit, NEW s \in Dives(adj), s.next <= Len(adj[s.node]),
         adj[s.node][s.next] \in DOMAIN adj,
         \A t \in Dives(adj) : Left(adj)[t] < Left(adj)[s] => Dived(adj, t, visit[t])
  PROVE  LET below == Under(visit, adj, s)
         IN /\ below.depth \in Nat /\ below.seen \in SUBSET DOMAIN adj
            /\ s.seen \subseteq below.seen /\ below.seen \subseteq s.seen \cup Below(adj, s.node)
            /\ 1 + below.depth <= 1 + Cardinality(below.seen \ s.seen)
            /\ (\A id \in DOMAIN adj : id \notin Below(adj, id)) =>
                 1 + below.depth <= Cardinality(Below(adj, s.node))
<1> DEFINE below == Under(visit, adj, s)
           dep == adj[s.node][s.next]
           t == Enter(adj, s)
<1>1. /\ s.node \in DOMAIN adj /\ s.next \in Nat \ {0} /\ s.depth \in Nat /\ s.seen \in SUBSET DOMAIN adj
      /\ dep \in Below(adj, s.node) /\ dep \in DOMAIN adj
  <2>1. s.next \in DOMAIN adj[s.node]
    BY DiveIs
  <2> QED BY <2>1, DiveIs, BelowIs
<1>2. Cardinality(Below(adj, s.node)) \in Nat /\ Cardinality(Below(adj, dep)) \in Nat
  BY <1>1, LessBelow
<1>3. Cardinality(Below(adj, s.node)) >= 1
  <2>1. IsFiniteSet(Below(adj, s.node))
    BY <1>1, LessBelow
  <2>2. Cardinality(Below(adj, s.node)) # 0
    BY <1>1, <2>1, FS_EmptySet
  <2> QED BY <1>2, <2>2
<1>4. CASE dep \in s.seen
  <2>1. below = [depth |-> 0, seen |-> s.seen]
    BY <1>4 DEF Under
  <2>2. below.depth = 0 /\ below.seen = s.seen
    BY <2>1
  <2>3. s.seen \ s.seen = {} /\ Cardinality({}) = 0
    BY FS_EmptySet
  <2> HIDE DEF below
  <2>4. below.seen \ s.seen = {} /\ Cardinality(below.seen \ s.seen) = 0
    BY <2>2, <2>3
  <2>5. 1 + below.depth = 1 /\ 1 + 0 = 1
    BY <2>2
  <2> QED BY <1>1, <1>2, <1>3, <2>2, <2>4, <2>5 DEF below
<1>5. CASE dep \notin s.seen
  <2>1. below = visit[t]
    BY <1>5 DEF Under
  <2>2. t \in Dives(adj) /\ Left(adj)[t] < Left(adj)[s]
    BY <1>1, <1>5, LessLeft
  <2>3. t.node = dep /\ t.depth = 0 /\ t.seen = s.seen \cup {dep}
    BY DEF Enter
  <2> HIDE DEF below, t
  <2>4. Dived(adj, t, below)
    BY <2>1, <2>2
  <2>5. below.depth \in Nat /\ below.seen \in SUBSET DOMAIN adj
    BY <2>4, DivedIs
  <2>6. /\ s.seen \cup {dep} \subseteq below.seen /\ below.seen \subseteq s.seen \cup {dep} \cup Below(adj, dep)
        /\ below.depth <= 0 \/ below.depth <= 1 + Cardinality(below.seen \ (s.seen \cup {dep}))
        /\ (\A id \in DOMAIN adj : id \notin Below(adj, id)) =>
             below.depth <= 0 \/ below.depth <= Cardinality(Below(adj, dep))
    BY <2>3, <2>4 DEF Dived
  <2>7. Below(adj, dep) \subseteq Below(adj, s.node)
    BY <1>1, BelowThatIsBelow
  <2>8. s.seen \subseteq below.seen /\ below.seen \subseteq s.seen \cup Below(adj, s.node)
    BY <1>1, <2>6, <2>7
  <2>9. 1 + below.depth <= 1 + Cardinality(below.seen \ s.seen)
    <3> DEFINE X == below.seen \ s.seen
    <3>1. IsFiniteSet(X) /\ Cardinality(X) \in Nat /\ dep \in X
      <4>1. X \in SUBSET DOMAIN adj /\ IsFiniteSet(DOMAIN adj)
        BY <2>5 DEF IsGraph
      <4> QED BY <1>5, <2>6, <4>1, FS_Subset, FS_CardinalityType
    <3>2. below.seen \ (s.seen \cup {dep}) = X \ {dep}
      OBVIOUS
    <3> HIDE DEF X
    <3>3. Cardinality(X \ {dep}) = Cardinality(X) - 1
      BY <3>1, FS_RemoveElement
    <3>4. below.depth <= 0 \/ below.depth <= 1 + Cardinality(X \ {dep})
      BY <2>6, <3>2
    <3>5. below.depth <= Cardinality(X)
      BY <2>5, <3>1, <3>3, <3>4
    <3> QED BY <2>5, <3>1, <3>5 DEF X
  <2>10. ASSUME \A id \in DOMAIN adj : id \notin Below(adj, id)
         PROVE  1 + below.depth <= Cardinality(Below(adj, s.node))
    <3>1. Cardinality(Below(adj, dep)) < Cardinality(Below(adj, s.node))
      BY <1>1, <2>10, LessBelow
    <3>2. below.depth <= 0 \/ below.depth <= Cardinality(Below(adj, dep))
      BY <2>6, <2>10
    <3> QED BY <1>2, <1>3, <2>5, <3>1, <3>2
  <2> QED BY <2>5, <2>8, <2>9, <2>10 DEF below
<1> QED BY <1>4, <1>5

\* A step of the dive answers rightly if what it asks of the rest is.
LEMMA DeepenRight ==
  ASSUME NEW adj, IsGraph(adj), NEW visit, NEW s \in Dives(adj),
         \A t \in Dives(adj) : Left(adj)[t] < Left(adj)[s] => Dived(adj, t, visit[t])
  PROVE  Dived(adj, s, Deepen(visit, adj, s))
<1> DEFINE r == Deepen(visit, adj, s)
           dep == adj[s.node][s.next]
           below == Under(visit, adj, s)
           deepest == Deepest(s.depth, 1 + below.depth)
           K == DOMAIN adj[s.node]
<1>1. /\ s.node \in DOMAIN adj /\ s.next \in Nat \ {0} /\ s.depth \in Nat /\ s.seen \in SUBSET DOMAIN adj
      /\ Len(adj[s.node]) \in Nat /\ K = 1..Len(adj[s.node])
  BY DiveIs
<1>2. \A k \in K : k >= s.next <=> k = s.next \/ k >= s.next + 1
  BY <1>1
<1>3. CASE s.next > Len(adj[s.node])
  <2>1. r = [depth |-> s.depth, seen |-> s.seen]
    BY <1>3, StepDown
  <2>2. r.depth = s.depth /\ r.seen = s.seen /\ r \in Depths(adj)
    BY <1>1, <2>1 DEF Depths
  <2> HIDE DEF r
  <2>3. \A k \in K : ~(k >= s.next)
    BY <1>1, <1>3
  <2> QED BY <1>1, <2>2, <2>3 DEF Dived, r
<1>4. CASE s.next <= Len(adj[s.node]) /\ dep \notin DOMAIN adj
  <2> DEFINE t == Further(s, s.depth, s.seen)
  <2>1. r = visit[t]
    BY <1>4, StepDown
  <2>2. /\ t \in Dives(adj) /\ Left(adj)[t] < Left(adj)[s]
        /\ t.node = s.node /\ t.next = s.next + 1 /\ t.depth = s.depth /\ t.seen = s.seen
    BY <1>1, <1>4, LessLeft
  <2> HIDE DEF r, t
  <2>3. Dived(adj, t, r)
    BY <2>1, <2>2
  <2>4. (\E k \in K : k >= s.next + 1 /\ adj[s.node][k] \in DOMAIN adj) <=>
          \E k \in K : k >= s.next /\ adj[s.node][k] \in DOMAIN adj
    BY <1>2, <1>4
  <2> QED BY <2>2, <2>3, <2>4 DEF Dived, r
<1>5. CASE s.next <= Len(adj[s.node]) /\ dep \in DOMAIN adj
  <2>1. /\ below.depth \in Nat /\ below.seen \in SUBSET DOMAIN adj
        /\ s.seen \subseteq below.seen /\ below.seen \subseteq s.seen \cup Below(adj, s.node)
        /\ 1 + below.depth <= 1 + Cardinality(below.seen \ s.seen)
        /\ (\A id \in DOMAIN adj : id \notin Below(adj, id)) =>
             1 + below.depth <= Cardinality(Below(adj, s.node))
    BY <1>5, UnderIs
  <2> DEFINE t == Further(s, deepest, below.seen)
  <2>2. r = visit[t]
    BY <1>5, <2>1, StepDown
  <2> HIDE DEF below
  <2>3. deepest \in Nat /\ deepest >= s.depth /\ deepest >= 1 /\ (deepest = s.depth \/ deepest = 1 + below.depth)
    BY <1>1, <2>1 DEF Deepest
  <2> HIDE DEF deepest
  <2>4. /\ t \in Dives(adj) /\ Left(adj)[t] < Left(adj)[s]
        /\ t.node = s.node /\ t.next = s.next + 1 /\ t.depth = deepest /\ t.seen = below.seen
    BY <1>1, <1>5, <2>1, <2>3, LessLeft
  <2> HIDE DEF r, t
  <2>5. Dived(adj, t, r)
    BY <2>2, <2>4
  <2>6. r.depth \in Nat /\ r.seen \in SUBSET DOMAIN adj
    BY <2>5, DivedIs
  <2>7. /\ below.seen \subseteq r.seen /\ r.seen \subseteq below.seen \cup Below(adj, s.node)
        /\ deepest <= r.depth
        /\ r.depth <= deepest \/ r.depth <= 1 + Cardinality(r.seen \ below.seen)
        /\ (\A id \in DOMAIN adj : id \notin Below(adj, id)) =>
             r.depth <= deepest \/ r.depth <= Cardinality(Below(adj, s.node))
    BY <2>4, <2>5 DEF Dived
  <2>8. /\ Cardinality(below.seen \ s.seen) \in Nat /\ Cardinality(r.seen \ below.seen) \in Nat
        /\ Cardinality(r.seen \ s.seen) \in Nat
        /\ Cardinality(below.seen \ s.seen) <= Cardinality(r.seen \ s.seen)
        /\ Cardinality(r.seen \ below.seen) <= Cardinality(r.seen \ s.seen)
    <3>1. IsFiniteSet(DOMAIN adj)
      BY DEF IsGraph
    <3>2. /\ r.seen \ s.seen \in SUBSET DOMAIN adj
          /\ below.seen \ s.seen \in SUBSET (r.seen \ s.seen)
          /\ r.seen \ below.seen \in SUBSET (r.seen \ s.seen)
      BY <2>1, <2>6, <2>7
    <3>3. IsFiniteSet(r.seen \ s.seen)
      BY <3>1, <3>2, FS_Subset
    <3>4. /\ IsFiniteSet(below.seen \ s.seen) /\ Cardinality(below.seen \ s.seen) <= Cardinality(r.seen \ s.seen)
      BY <3>2, <3>3, FS_Subset
    <3>5. /\ IsFiniteSet(r.seen \ below.seen) /\ Cardinality(r.seen \ below.seen) <= Cardinality(r.seen \ s.seen)
      BY <3>2, <3>3, FS_Subset
    <3> QED BY <3>3, <3>4, <3>5, FS_CardinalityType
  <2>9. r.depth <= s.depth \/ r.depth <= 1 + Cardinality(r.seen \ s.seen)
    BY <1>1, <2>1, <2>3, <2>6, <2>7, <2>8
  <2>10. ASSUME \A id \in DOMAIN adj : id \notin Below(adj, id)
         PROVE  r.depth <= s.depth \/ r.depth <= Cardinality(Below(adj, s.node))
    <3>1. Cardinality(Below(adj, s.node)) \in Nat
      BY <1>1, LessBelow
    <3>2. /\ 1 + below.depth <= Cardinality(Below(adj, s.node))
          /\ r.depth <= deepest \/ r.depth <= Cardinality(Below(adj, s.node))
      BY <2>1, <2>7, <2>10
    <3> QED BY <1>1, <2>1, <2>3, <2>6, <3>1, <3>2
  <2>11. r.depth > 0 /\ s.depth <= r.depth
    BY <1>1, <2>3, <2>6, <2>7
  <2>12. \E k \in K : k >= s.next /\ adj[s.node][k] \in DOMAIN adj
    <3>1. s.next \in K /\ s.next >= s.next
      BY <1>1, <1>5
    <3> QED BY <1>5, <3>1
  <2>13. s.seen \subseteq r.seen /\ r.seen \subseteq s.seen \cup Below(adj, s.node)
    BY <2>1, <2>7
  <2>14. r \in Depths(adj)
    BY <2>5 DEF Dived
  <2> QED BY <2>9, <2>10, <2>11, <2>12, <2>13, <2>14 DEF Dived, r
<1> QED BY <1>1, <1>3, <1>4, <1>5

LEMMA DeepenAgrees ==
  ASSUME NEW adj, IsGraph(adj), NEW f, NEW g, NEW s \in Dives(adj),
         \A t \in Dives(adj) : Left(adj)[t] < Left(adj)[s] => Dived(adj, t, f[t]) /\ f[t] = g[t]
  PROVE  Deepen(f, adj, s) = Deepen(g, adj, s)
<1> DEFINE dep == adj[s.node][s.next]
           below == Under(f, adj, s)
<1>1. /\ s.node \in DOMAIN adj /\ s.next \in Nat \ {0} /\ s.depth \in Nat /\ s.seen \in SUBSET DOMAIN adj
      /\ Len(adj[s.node]) \in Nat
  BY DiveIs
<1>2. CASE s.next > Len(adj[s.node])
  <2>1. Deepen(f, adj, s) = [depth |-> s.depth, seen |-> s.seen]
    BY <1>2, StepDown
  <2>2. Deepen(g, adj, s) = [depth |-> s.depth, seen |-> s.seen]
    BY <1>2, StepDown
  <2> QED BY <2>1, <2>2
<1>3. CASE s.next <= Len(adj[s.node]) /\ dep \notin DOMAIN adj
  <2> DEFINE t == Further(s, s.depth, s.seen)
  <2>1. Deepen(f, adj, s) = f[t] /\ Deepen(g, adj, s) = g[t]
    BY <1>3, StepDown
  <2>2. t \in Dives(adj) /\ Left(adj)[t] < Left(adj)[s]
    BY <1>1, <1>3, LessLeft
  <2> QED BY <2>1, <2>2
<1>4. CASE s.next <= Len(adj[s.node]) /\ dep \in DOMAIN adj
  <2>1. below.depth \in Nat /\ below.seen \in SUBSET DOMAIN adj /\ s.seen \subseteq below.seen
    BY <1>4, UnderIs
  <2>2. Under(g, adj, s) = below
    <3>1. CASE dep \in s.seen
      BY <3>1 DEF Under
    <3>2. CASE dep \notin s.seen
      <4>1. Enter(adj, s) \in Dives(adj) /\ Left(adj)[Enter(adj, s)] < Left(adj)[s]
        BY <1>4, <3>2, LessLeft
      <4>2. f[Enter(adj, s)] = g[Enter(adj, s)]
        BY <4>1
      <4> QED BY <3>2, <4>2 DEF Under
    <3> QED BY <3>1, <3>2
  <2> DEFINE t == Further(s, Deepest(s.depth, 1 + below.depth), below.seen)
  <2>3. Deepen(f, adj, s) = f[t]
    BY <1>4, <2>1, StepDown
  <2>4. Deepen(g, adj, s) = g[t]
    BY <1>4, <2>1, <2>2, StepDown
  <2>5. t \in Dives(adj) /\ Left(adj)[t] < Left(adj)[s]
    <3> HIDE DEF below
    <3>1. Deepest(s.depth, 1 + below.depth) \in Nat
      BY <1>1, <2>1 DEF Deepest
    <3> QED BY <1>1, <1>4, <2>1, <3>1, LessLeft
  <2> QED BY <2>3, <2>4, <2>5
<1> QED BY <1>1, <1>2, <1>3, <1>4

LEMMA DiveRight ==
  ASSUME NEW adj, IsGraph(adj)
  PROVE  \A s \in Dives(adj) : Dived(adj, s, deepen(adj)[s])
<1> DEFINE A == Dives(adj)
           Z == Depths(adj)
           z == [depth |-> 0, seen |-> {}]
           m == Left(adj)
           R == [s \in A |-> {r \in Z : Dived(adj, s, r)}]
           B == [p \in [A -> Z] \X A |-> Deepen(p[1], adj, p[2])]
<1>1. m \in [A -> Nat]
  BY RestIs DEF Left
<1>2. Z # {}
  <2>1. z \in Z
    BY DEF Depths
  <2> QED BY <2>1
<1>3. R \in [A -> SUBSET Z]
  OBVIOUS
<1>4. \A f \in [A -> Z], s \in A : B[<<f, s>>] = Deepen(f, adj, s)
  OBVIOUS
<1>5. \A s \in A : \A r : r \in R[s] <=> Dived(adj, s, r)
  BY DEF Dived
<1> HIDE DEF A, Z, m, R, B
<1>6. ASSUME NEW f \in [A -> Z], NEW a \in A, \A b \in A : m[b] < m[a] => f[b] \in R[b]
      PROVE  B[<<f, a>>] \in R[a]
  <2>1. \A t \in Dives(adj) : Left(adj)[t] < Left(adj)[a] => Dived(adj, t, f[t])
    BY <1>5, <1>6 DEF A, m
  <2>2. Dived(adj, a, Deepen(f, adj, a))
    BY <2>1, DeepenRight DEF A
  <2> QED BY <1>4, <1>5, <2>2
<1>7. ASSUME NEW f \in [A -> Z], NEW g \in [A -> Z], NEW a \in A,
             \A b \in A : m[b] < m[a] => f[b] \in R[b] /\ f[b] = g[b]
      PROVE  B[<<f, a>>] = B[<<g, a>>]
  <2>1. \A t \in Dives(adj) : Left(adj)[t] < Left(adj)[a] => Dived(adj, t, f[t]) /\ f[t] = g[t]
    BY <1>5, <1>7 DEF A, m
  <2>2. Deepen(f, adj, a) = Deepen(g, adj, a)
    BY <2>1, DeepenAgrees DEF A
  <2> QED BY <1>4, <2>2
<1>8. \E f \in [A -> Z] : \A a \in A : f[a] = B[<<f, a>>] /\ f[a] \in R[a]
  <2>1. \A f \in [A -> Z], a \in A : (\A b \in A : m[b] < m[a] => f[b] \in R[b]) => B[<<f, a>>] \in R[a]
    BY <1>6
  <2>2. \A f, g \in [A -> Z], a \in A :
          (\A b \in A : m[b] < m[a] => f[b] \in R[b] /\ f[b] = g[b]) => B[<<f, a>>] = B[<<g, a>>]
    BY <1>7
  <2>3. IsRecursive(A, Z, m, R, B)
    BY <1>1, <1>2, <1>3, <2>1, <2>2 DEF IsRecursive
  <2> QED BY <2>3, Recursion
<1>9. \E f : f = [s \in A |-> Deepen(f, adj, s)]
  <2>1. PICK f \in [A -> Z] : \A a \in A : f[a] = B[<<f, a>>]
    BY <1>8
  <2>2. f = [s \in A |-> Deepen(f, adj, s)]
    BY <1>4, <2>1
  <2> QED BY <2>2
<1> DEFINE visit == deepen(adj)
<1>10. visit = [s \in A |-> Deepen(visit, adj, s)]
  BY <1>9, DeepenIs DEF A
<1> HIDE DEF visit
<1>11. \A s \in A : visit[s] = Deepen(visit, adj, s)
  BY <1>10
<1> DEFINE G == {s \in A : Dived(adj, s, visit[s])}
<1>12. ASSUME NEW a \in A, \A b \in A : m[b] < m[a] => b \in G
       PROVE  a \in G
  <2>1. \A t \in Dives(adj) : Left(adj)[t] < Left(adj)[a] => Dived(adj, t, visit[t])
    BY <1>12 DEF A, m
  <2>2. Dived(adj, a, Deepen(visit, adj, a))
    BY <2>1, DeepenRight DEF A
  <2> QED BY <1>11, <2>2
<1>13. G \in SUBSET A
  OBVIOUS
<1> HIDE DEF G
<1>14. \A a \in A : a \in G
  BY <1>1, <1>12, <1>13, ByMeasure
<1> QED BY <1>14 DEF G, A, visit

LEMMA DepthIs ==
  ASSUME NEW goals, IsBacklog(goals), NEW depth,
         depth = [id \in Ids(goals) |-> dependency_depth(goals, id)]
  PROVE  /\ depth \in [Ids(goals) -> Nat]
         /\ DepthsBounded(Adj(goals), depth, find_cycle(goals) # <<>>)
<1> DEFINE adj == Adj(goals)
           cyclic == find_cycle(goals) # <<>>
<1>1. IsGraph(adj) /\ DOMAIN adj = Ids(goals)
  BY BacklogIs
<1>2. cyclic \/ \A id \in DOMAIN adj : id \notin Below(adj, id)
  BY SearchFinds DEF CyclesFound
<1>3. \A id \in Ids(goals) :
        depth[id] = deepen(adj)[[node |-> id, next |-> 1, depth |-> 0, seen |-> {id}]].depth
  BY DEF dependency_depth
<1> HIDE DEF adj, cyclic
<1>4. ASSUME NEW id \in DOMAIN adj
      PROVE  /\ depth[id] \in Nat
             /\ (depth[id] > 0) = (Inside(adj, id) # {})
             /\ depth[id] <= Cardinality(Below(adj, id) \cup (IF cyclic THEN {id} ELSE {}))
  <2> DEFINE s == [node |-> id, next |-> 1, depth |-> 0, seen |-> {id}]
             r == deepen(adj)[s]
             X == Below(adj, id)
  <2>1. s.node = id /\ s.next = 1 /\ s.depth = 0 /\ s.seen = {id}
    OBVIOUS
  <2>2. s \in Dives(adj)
    BY DEF Dives
  <2>3. depth[id] = r.depth
    BY <1>1, <1>3
  <2> HIDE DEF s
  <2>4. Dived(adj, s, r)
    BY <1>1, <2>2, DiveRight
  <2> HIDE DEF r
  <2>5. r.depth \in Nat /\ r.seen \in SUBSET DOMAIN adj
    BY <1>1, <2>4, DivedIs
  <2>6. /\ r.seen \subseteq {id} \cup X
        /\ r.depth > 0 <=> \E k \in DOMAIN adj[id] : k >= 1 /\ adj[id][k] \in DOMAIN adj
        /\ r.depth <= 0 \/ r.depth <= 1 + Cardinality(r.seen \ {id})
        /\ (\A a \in DOMAIN adj : a \notin Below(adj, a)) => r.depth <= 0 \/ r.depth <= Cardinality(X)
    BY <2>1, <2>4 DEF Dived
  <2>7. r.depth > 0 <=> Inside(adj, id) # {}
    <3>1. \A k \in DOMAIN adj[id] : k >= 1
      <4>1. adj[id] \in Seq(GoalId)
        BY <1>1 DEF IsGraph
      <4> QED BY <4>1
    <3>2. Inside(adj, id) # {} <=> \E k \in DOMAIN adj[id] : adj[id][k] \in DOMAIN adj
      BY InsideIs
    <3> QED BY <2>6, <3>1, <3>2
  <2>8. IsFiniteSet(X) /\ Cardinality(X) \in Nat
    BY <1>1, LessBelow
  <2> HIDE DEF X
  <2>9. CASE cyclic
    <3>1. r.seen \ {id} \in SUBSET (X \ {id})
      BY <2>6
    <3>2. IsFiniteSet(X \ {id}) /\ Cardinality(X \ {id}) \in Nat
      BY <2>8, FS_RemoveElement, FS_CardinalityType
    <3>3. Cardinality(r.seen \ {id}) <= Cardinality(X \ {id}) /\ Cardinality(r.seen \ {id}) \in Nat
      BY <3>1, <3>2, FS_Subset, FS_CardinalityType
    <3>4. Cardinality((X \ {id}) \cup {id}) = Cardinality(X \ {id}) + 1
      BY <3>2, FS_AddElement
    <3>5. (X \ {id}) \cup {id} = X \cup {id}
      OBVIOUS
    <3>6. r.depth <= Cardinality(X \cup {id})
      BY <2>5, <2>6, <3>2, <3>3, <3>4, <3>5
    <3> QED BY <2>3, <2>5, <2>7, <2>9, <3>6 DEF X
  <2>10. CASE ~cyclic
    <3>1. r.depth <= Cardinality(X)
      BY <1>2, <2>5, <2>6, <2>8, <2>10
    <3>2. X \cup {} = X
      OBVIOUS
    <3> QED BY <2>3, <2>5, <2>7, <2>10, <3>1, <3>2 DEF X
  <2> QED BY <2>9, <2>10
<1>5. depth \in [Ids(goals) -> Nat]
  BY <1>1, <1>4
<1>6. DepthsBounded(adj, depth, cyclic)
  BY <1>4 DEF DepthsBounded
<1> QED BY <1>5, <1>6 DEF adj, cyclic

-----------------------------------------------------------------------------
(* Lists in the order of a key, and plans                                  *)

\* A list in the order of keys that no two share holds every member once.
Sooner(S, key) == [x \in S |-> {y \in S : Before(key[y], key[x])}]

LEMMA KeyedIs ==
  ASSUME NEW S, IsFiniteSet(S), NEW key \in [S -> Seq(Int)], \A x, y \in S : key[x] = key[y] => x = y,
         NEW L, L = InOrder(S, Sooner(S, key))
  PROVE  /\ Cardinality(S) \in Nat /\ L \in Seq(S) /\ Len(L) = Cardinality(S)
         /\ \A i, j \in 1..Cardinality(S) : L[i] = L[j] => i = j
         /\ \A x \in S : \E i \in 1..Cardinality(S) : L[i] = x
<1> DEFINE E == Sooner(S, key)
<1>1. \A x \in S : key[x] \in Seq(Int)
  OBVIOUS
<1>2. E \in [S -> SUBSET S]
  BY DEF Sooner
<1>3. \A x, y \in S : y \in E[x] <=> Before(key[y], key[x])
  BY DEF Sooner
<1>4. \A x \in S : x \notin E[x]
  BY <1>1, <1>3, NeverBeforeItself
<1>5. \A x, y \in S : x # y => x \in E[y] \/ y \in E[x]
  BY <1>1, <1>3, BeforeIsTotal
<1>6. ASSUME NEW x \in S, NEW y \in S, x \in E[y]
      PROVE  E[x] \subseteq E[y]
  <2> SUFFICES ASSUME NEW w \in E[x]
               PROVE  w \in E[y]
    OBVIOUS
  <2>1. w \in S
    BY <1>2
  <2>2. Before(key[w], key[x]) /\ Before(key[x], key[y])
    BY <1>3, <1>6, <2>1
  <2> QED BY <1>1, <1>3, <2>1, <2>2, BeforeIsTransitive
<1> HIDE DEF E
<1>7. /\ Cardinality(S) \in Nat
      /\ InOrder(S, E) \in Seq(S) /\ Len(InOrder(S, E)) = Cardinality(S)
      /\ \A x \in S : Cardinality(E[x]) + 1 \in 1..Cardinality(S) /\ InOrder(S, E)[Cardinality(E[x]) + 1] = x
      /\ \A i \in 1..Cardinality(S) :
           InOrder(S, E)[i] \in S /\ Cardinality(E[InOrder(S, E)[i]]) + 1 = i
  BY <1>2, <1>4, <1>5, <1>6, InOrderIs, SMTT(60)
<1>8. L = InOrder(S, E)
  BY DEF E
<1>9. \A i \in 1..Cardinality(S) : L[i] \in S /\ Cardinality(E[L[i]]) + 1 = i
  BY <1>7, <1>8
<1>10. \A i, j \in 1..Cardinality(S) : L[i] = L[j] => i = j
  BY <1>9
<1> QED BY <1>7, <1>8, <1>10

\* The goals that name one are finitely many.
LEMMA DependentsAreCounted ==
  ASSUME NEW goals, IsBacklog(goals), NEW id
  PROVE  Cardinality(get_dependents(goals, id)) \in Nat
<1> DEFINE K(i) == {n \in DOMAIN goals[i].depends : goals[i].depends[n] = id}
           Of == [i \in DOMAIN goals |-> {<<i, k>> : k \in K(i)}]
           All == {Of[i] : i \in DOMAIN goals}
<1>1. Len(goals) \in Nat /\ DOMAIN goals = 1..Len(goals) /\ \A i \in DOMAIN goals : goals[i].depends \in Seq(GoalId)
  BY BacklogIs DEF Goal
<1>2. ASSUME NEW i \in DOMAIN goals
      PROVE  IsFiniteSet(Of[i])
  <2>1. IsFiniteSet(K(i))
    <3>1. DOMAIN goals[i].depends = 1..Len(goals[i].depends) /\ Len(goals[i].depends) \in Nat
      BY <1>1
    <3>2. IsFiniteSet(1..Len(goals[i].depends))
      BY <3>1, FS_Interval
    <3>3. K(i) \in SUBSET (1..Len(goals[i].depends))
      BY <3>1
    <3> QED BY <3>2, <3>3, FS_Subset
  <2> DEFINE f == [k \in K(i) |-> <<i, k>>]
  <2>2. f \in Surjection(K(i), Of[i])
    <3>1. f \in [K(i) -> Of[i]] /\ \A e \in Of[i] : \E k \in K(i) : f[k] = e
      OBVIOUS
    <3> HIDE DEF f, K, Of
    <3> QED BY <3>1 DEF Surjection
  <2> HIDE DEF f, K, Of
  <2> QED BY <2>1, <2>2, FS_Surjection
<1>3. get_dependents(goals, id) = UNION All
  BY DEF get_dependents
<1>4. IsFiniteSet(All)
  <2>1. IsFiniteSet(DOMAIN goals)
    BY <1>1, FS_Interval
  <2>2. Of \in Surjection(DOMAIN goals, All)
    <3>1. Of \in [DOMAIN goals -> All] /\ \A e \in All : \E i \in DOMAIN goals : Of[i] = e
      OBVIOUS
    <3> HIDE DEF Of, All
    <3> QED BY <3>1 DEF Surjection
  <2> HIDE DEF Of, All
  <2> QED BY <2>1, <2>2, FS_Surjection
<1>5. \A T \in All : IsFiniteSet(T)
  BY <1>2
<1> HIDE DEF All
<1>6. IsFiniteSet(UNION All)
  BY <1>4, <1>5, FS_UNION
<1> QED BY <1>3, <1>6, FS_CardinalityType

\* The backlog in another order.
LEMMA PrioritizedIs ==
  ASSUME NEW goals, IsBacklog(goals)
  PROVE  LET sorted == prioritize(goals)
         IN /\ IsBacklog(sorted) /\ Len(sorted) = Len(goals)
            /\ \A i \in 1..Len(goals) : \E k \in 1..Len(goals) : sorted[k] = goals[i]
            /\ \A k \in 1..Len(goals) : \E i \in 1..Len(goals) : sorted[k] = goals[i]
            /\ (\A i, j \in 1..Len(goals) : goals[i].title = goals[j].title => i = j) =>
                 \A i, j \in 1..Len(goals) : sorted[i].title = sorted[j].title => i = j
<1> DEFINE n == Len(goals)
           S == DOMAIN goals
           depth == [id \in Ids(goals) |-> dependency_depth(goals, id)]
           key == [i \in S |->
                     <<goals[i].priority, -dependency_depth(goals, goals[i].id),
                       -Cardinality(get_dependents(goals, goals[i].id)), -goals[i].complexity, i>>]
           L == InOrder(S, Sooner(S, key))
           sorted == [k \in DOMAIN L |-> goals[L[k]]]
<1>1. /\ n \in Nat /\ S = 1..n /\ \A i \in S : goals[i] \in Goal /\ goals[i].id \in Ids(goals)
      /\ goals \in Seq(Goal) /\ \A i, j \in 1..n : goals[i].id = goals[j].id => i = j
  BY BacklogIs DEF IsBacklog
<1>2. prioritize(goals) = sorted
  BY DEF prioritize, Sooner
<1>3. ASSUME NEW i \in S
      PROVE  /\ goals[i].priority \in Int /\ -dependency_depth(goals, goals[i].id) \in Int
             /\ -Cardinality(get_dependents(goals, goals[i].id)) \in Int /\ -goals[i].complexity \in Int
             /\ i \in Int
  <2>1. goals[i].priority \in Int /\ goals[i].complexity \in 0..4
    BY <1>1 DEF Goal
  <2>2. dependency_depth(goals, goals[i].id) \in Nat
    <3>1. depth \in [Ids(goals) -> Nat]
      BY DepthIs
    <3>2. depth[goals[i].id] = dependency_depth(goals, goals[i].id)
      BY <1>1
    <3> HIDE DEF depth
    <3> QED BY <1>1, <3>1, <3>2
  <2>3. Cardinality(get_dependents(goals, goals[i].id)) \in Nat
    BY DependentsAreCounted
  <2> QED BY <1>1, <2>1, <2>2, <2>3
<1>4. key \in [S -> Seq(Int)] /\ \A i \in S : key[i][5] = i
  <2>1. \A a, b, c, d, e \in Int : <<a, b, c, d, e>> \in Seq(Int) /\ <<a, b, c, d, e>>[5] = e
    OBVIOUS
  <2>2. \A i \in S : key[i] \in Seq(Int) /\ key[i][5] = i
    BY <1>3, <2>1
  <2> QED BY <2>2
<1> HIDE DEF key
<1>5. IsFiniteSet(S) /\ Cardinality(S) = n
  <2>1. IsFiniteSet(1..n) /\ Cardinality(1..n) = IF 1 > n THEN 0 ELSE n - 1 + 1
    BY <1>1, FS_Interval
  <2> QED BY <1>1, <2>1
<1>6. \A i, j \in S : key[i] = key[j] => i = j
  BY <1>4
<1> HIDE DEF S, n
<1>7. /\ L \in Seq(S) /\ Len(L) = n
      /\ \A i, j \in 1..n : L[i] = L[j] => i = j
      /\ \A x \in S : \E i \in 1..n : L[i] = x
  BY <1>4, <1>5, <1>6, KeyedIs
<1> HIDE DEF L
<1>8. DOMAIN L = 1..n /\ \A k \in 1..n : L[k] \in S /\ L[k] \in 1..n
  BY <1>1, <1>7, SMTT(60)
<1>9. sorted \in Seq(Goal) /\ Len(sorted) = n /\ \A k \in 1..n : sorted[k] = goals[L[k]]
  BY <1>1, <1>8
<1> HIDE DEF sorted
<1>10. IsBacklog(sorted)
  <2>1. ASSUME NEW k \in 1..n, NEW l \in 1..n, sorted[k].id = sorted[l].id
        PROVE  k = l
    <3>1. goals[L[k]].id = goals[L[l]].id
      BY <1>9, <2>1
    <3>2. L[k] = L[l]
      BY <1>1, <1>8, <3>1
    <3> QED BY <1>7, <3>2
  <2> QED BY <1>9, <2>1 DEF IsBacklog
<1>11. \A i \in 1..n : \E k \in 1..n : sorted[k] = goals[i]
  <2> TAKE i \in 1..n
  <2>1. PICK k \in 1..n : L[k] = i
    BY <1>1, <1>7
  <2> QED BY <1>9, <2>1
<1>12. \A k \in 1..n : \E i \in 1..n : sorted[k] = goals[i]
  BY <1>8, <1>9
<1>13. ASSUME \A i, j \in 1..n : goals[i].title = goals[j].title => i = j,
              NEW k \in 1..n, NEW l \in 1..n, sorted[k].title = sorted[l].title
       PROVE  k = l
  <2>1. goals[L[k]].title = goals[L[l]].title
    BY <1>9, <1>13
  <2>2. L[k] = L[l]
    BY <1>8, <1>13, <2>1
  <2> QED BY <1>7, <2>2
<1> QED BY <1>2, <1>9, <1>10, <1>11, <1>12, <1>13 DEF n


\* The first goal that is open, from below, waits for nothing.
LEMMA FirstOpenIsUnblocked ==
  ASSUME NEW goals, IsBacklog(goals), \A id \in Ids(goals) : id \notin Below(Adj(goals), id)
  PROVE  SomethingIsUnblocked(Adj(goals), goals)
<1> DEFINE adj == Adj(goals)
           Late == {id \in Ids(goals) : ~Settled(goals, id)}
           M == {Cardinality(Below(adj, id)) : id \in Late}
<1>1. /\ IsGraph(adj) /\ DOMAIN adj = Ids(goals)
      /\ \A id \in Ids(goals) : adj[id] = GoalOf(goals, id).depends
  BY BacklogIs DEF Adj
<1> HIDE DEF adj
<1>2. SUFFICES ASSUME \A id \in Ids(goals) : ToSet(adj[id]) \subseteq Ids(goals), Late # {}
               PROVE  \E id \in get_unblocked(goals) : ~Settled(goals, id)
  BY <1>1 DEF SomethingIsUnblocked, adj
<1>3. \A id \in Ids(goals) : Cardinality(Below(adj, id)) \in Nat
  BY <1>1, LessBelow
<1>4. M \in SUBSET Nat /\ M # {}
  BY <1>2, <1>3
<1>5. Min(M) \in M /\ \A n \in M : Min(M) <= n
  BY <1>4, First
<1>6. PICK a \in Late : Min(M) = Cardinality(Below(adj, a))
  BY <1>5
<1>7. \A b \in Late : Cardinality(Below(adj, a)) <= Cardinality(Below(adj, b))
  BY <1>5, <1>6
<1>8. \A d \in ToSet(adj[a]) : d \in Ids(goals) /\ Settled(goals, d)
  <2> TAKE d \in ToSet(adj[a])
  <2>1. d \in Ids(goals) /\ a \in Ids(goals)
    BY <1>2
  <2>2. d \in Below(adj, a)
    BY <1>1, <2>1, BelowIs DEF Inside
  <2>3. Cardinality(Below(adj, d)) < Cardinality(Below(adj, a))
    BY <1>1, <2>1, <2>2, LessBelow DEF adj
  <2>4. d \notin Late
    BY <1>3, <1>7, <2>1, <2>3
  <2> QED BY <2>1, <2>4
<1>9. a \in get_unblocked(goals)
  BY <1>1, <1>8 DEF get_unblocked
<1> QED BY <1>9

\* Goals that depend on nothing lie on no cycle.
LEMMA NothingNoCycle ==
  ASSUME NEW goals, IsBacklog(goals), \A i \in 1..Len(goals) : goals[i].depends = <<>>
  PROVE  ~has_cycle(goals)
<1> DEFINE adj == Adj(goals)
<1>1. \A id \in DOMAIN adj : Inside(adj, id) = {}
  <2> TAKE id \in DOMAIN adj
  <2>1. PICK i \in 1..Len(goals) : id = goals[i].id
    BY BacklogIs
  <2>2. adj[id] = <<>>
    BY <2>1, BacklogIs
  <2> QED BY <2>2 DEF Inside, ToSet
<1> HIDE DEF adj
<1>2. \A id \in DOMAIN adj : id \notin Below(adj, id)
  <2> TAKE id \in DOMAIN adj
  <2>1. Inside(adj, id) \subseteq {} /\ IsClosed(adj, {}) /\ {} \in SUBSET DOMAIN adj
    BY <1>1 DEF IsClosed
  <2>2. Below(adj, id) \subseteq {}
    BY <2>1, BelowIs
  <2> QED BY <2>2
<1>3. find_cycle(goals) = <<>>
  BY <1>2, SearchFinds DEF CyclesFound, adj
<1> QED BY <1>3 DEF has_cycle

LEMMA SplitIs ==
  ASSUME NEW o \in Seq(Seq(Nat))
  PROVE  Split(o) \in Seq(Seq(Nat))
<1> DEFINE lines == Picked(o, {i \in DOMAIN o : o[i] # <<>>})
<1>1. lines \in Seq(Seq(Nat))
  <2> DEFINE I == {i \in DOMAIN o : o[i] # <<>>}
  <2>1. I \in SUBSET DOMAIN o
    OBVIOUS
  <2> HIDE DEF I
  <2>2. Picked(o, I) \in Seq(Seq(Nat))
    BY <2>1, PickedIs
  <2> QED BY <2>2 DEF I
<1>2. Split(o) = IF Len(lines) # 1 THEN lines ELSE [i \in DOMAIN lines[1] |-> <<lines[1][i]>>]
  BY DEF Split
<1> HIDE DEF lines
<1>3. ASSUME Len(lines) = 1
      PROVE  [i \in DOMAIN lines[1] |-> <<lines[1][i]>>] \in Seq(Seq(Nat))
  <2> DEFINE line == lines[1]
  <2>1. line \in Seq(Nat)
    <3>1. 1 \in 1..Len(lines)
      BY <1>3
    <3> QED BY <1>1, <3>1
  <2> HIDE DEF line
  <2>2. DOMAIN line = 1..Len(line) /\ Len(line) \in Nat /\ \A i \in 1..Len(line) : line[i] \in Nat
    BY <2>1
  <2>3. \A n \in Nat : <<n>> \in Seq(Nat)
    OBVIOUS
  <2>4. \A i \in 1..Len(line) : <<line[i]>> \in Seq(Nat)
    BY <2>2, <2>3
  <2> DEFINE T == Seq(Nat)
             q == [i \in 1..Len(line) |-> <<line[i]>>]
  <2>5. q \in [1..Len(line) -> T]
    BY <2>4
  <2> HIDE DEF T, q
  <2>6. q \in Seq(T)
    BY <2>2, <2>5
  <2> QED BY <2>2, <2>6 DEF line, T, q
<1> QED BY <1>1, <1>2, <1>3

LEMMA PlanGoalIs ==
  ASSUME NEW t \in Seq(Nat)
  PROVE  /\ PlanGoal(t) \in Goal /\ PlanGoal(t).id = <<"plan", t>> /\ PlanGoal(t).title = t
         /\ PlanGoal(t).depends = <<>>
<1>1. /\ PlanGoal(t).id = <<"plan", t>> /\ PlanGoal(t).title = t /\ PlanGoal(t).depends = <<>>
  BY DEF PlanGoal
<1>2. <<"plan", t>> \in GoalId /\ <<>> \in Seq(GoalId)
  BY DEF GoalId
<1>3. "todo" \in Written
  BY DEF Written, Statuses
<1> DEFINE c == IF 9 \in ToSet(t) THEN 3 ELSE 2
<1>4. c \in 0..4 /\ 2 \in Int
  OBVIOUS
<1>5. PlanGoal(t) = [id |-> <<"plan", t>>, title |-> t, priority |-> 2, status |-> "todo", depends |-> <<>>,
                     complexity |-> c]
  BY DEF PlanGoal
<1> HIDE DEF c
<1>6. PlanGoal(t) \in Goal
  BY <1>2, <1>3, <1>4, <1>5 DEF Goal
<1> QED BY <1>1, <1>6

\* An objective in goals: one for every part that is a title, and none twice.
LEMMA DecomposedIs ==
  ASSUME NEW o \in Seq(Seq(Nat))
  PROVE  LET goals == decompose(o)
         IN /\ IsBacklog(goals) /\ \A i \in 1..Len(goals) : goals[i].depends = <<>>
            /\ \A i, j \in 1..Len(goals) : goals[i].title = goals[j].title => i = j
            /\ \A i \in DOMAIN Split(o) : Untitled(Split(o)[i]) \/ \E k \in 1..Len(goals) : goals[k].title = Split(o)[i]
<1> DEFINE s == Split(o)
           I == {i \in DOMAIN s : ~Untitled(s[i])}
           named == Picked(s, I)
           titles == Once(named)
           goals == [i \in DOMAIN titles |-> PlanGoal(titles[i])]
<1>1. decompose(o) = goals
  BY DEF decompose
<1>2. s \in Seq(Seq(Nat))
  BY SplitIs
<1> HIDE DEF s
<1>3. I \in SUBSET DOMAIN s /\ \A i \in DOMAIN s : i \in I \/ Untitled(s[i])
  OBVIOUS
<1> HIDE DEF I
<1>4. named \in Seq(Seq(Nat)) /\ Len(named) = Cardinality(I) /\ Cardinality(I) \in Nat
  BY <1>2, <1>3, PickedIs
<1>5. \A i \in I : \E k \in 1..Cardinality(I) : named[k] = s[i]
  <2> DEFINE T == Seq(Nat)
  <2>1. s \in Seq(T)
    BY <1>2
  <2> HIDE DEF T
  <2>2. \A i \in I : \E k \in 1..Cardinality(I) : Picked(s, I)[k] = s[i]
    BY <1>3, <2>1, PickedAll
  <2> QED BY <2>2
<1> HIDE DEF named
<1>6. /\ titles \in Seq(Seq(Nat))
      /\ \A i \in DOMAIN named : \E k \in DOMAIN titles : titles[k] = named[i]
      /\ \A k, l \in DOMAIN titles : titles[k] = titles[l] => k = l
  BY <1>4, OnceIs
<1> HIDE DEF titles
<1>7. Len(titles) \in Nat /\ DOMAIN titles = 1..Len(titles) /\ \A i \in 1..Len(titles) : titles[i] \in Seq(Nat)
  BY <1>6
<1>8. /\ goals \in Seq(Goal) /\ Len(goals) = Len(titles)
      /\ \A i \in 1..Len(titles) : goals[i] = PlanGoal(titles[i])
  <2>1. goals = [i \in 1..Len(titles) |-> PlanGoal(titles[i])]
    BY <1>7
  <2>2. \A i \in 1..Len(titles) : PlanGoal(titles[i]) \in Goal
    BY <1>7, PlanGoalIs
  <2> QED BY <1>7, <2>1, <2>2
<1> HIDE DEF goals
<1>9. \A i \in 1..Len(titles) : /\ goals[i].id = <<"plan", titles[i]>> /\ goals[i].title = titles[i]
                                /\ goals[i].depends = <<>>
  BY <1>7, <1>8, PlanGoalIs
<1>10. \A i, j \in 1..Len(goals) : goals[i].title = goals[j].title => i = j
  <2> TAKE i, j \in 1..Len(goals)
  <2> HAVE goals[i].title = goals[j].title
  <2>1. titles[i] = titles[j]
    BY <1>8, <1>9
  <2> QED BY <1>6, <1>7, <1>8, <2>1
<1>11. \A i, j \in 1..Len(goals) : goals[i].id = goals[j].id => i = j
  <2> TAKE i, j \in 1..Len(goals)
  <2> HAVE goals[i].id = goals[j].id
  <2>1. <<"plan", titles[i]>> = <<"plan", titles[j]>>
    BY <1>8, <1>9
  <2>2. titles[i] = titles[j]
    BY <2>1
  <2> QED BY <1>6, <1>7, <1>8, <2>2
<1>12. IsBacklog(goals)
  BY <1>8, <1>11 DEF IsBacklog
<1>13. ASSUME NEW i \in DOMAIN s, ~Untitled(s[i])
       PROVE  \E k \in 1..Len(goals) : goals[k].title = s[i]
  <2>1. i \in I
    BY <1>3, <1>13
  <2>2. PICK j \in 1..Cardinality(I) : named[j] = s[i]
    BY <1>5, <2>1
  <2>3. j \in DOMAIN named
    BY <1>4, <2>2
  <2>4. PICK k \in DOMAIN titles : titles[k] = s[i]
    BY <1>6, <2>2, <2>3
  <2> QED BY <1>7, <1>8, <1>9, <2>4
<1> QED BY <1>1, <1>8, <1>9, <1>10, <1>12, <1>13 DEF s

LEMMA PlansSound ==
  PlansAreSound
<1> SUFFICES ASSUME NEW o \in Objectives
             PROVE  /\ validate_backlog(plan_goals(o)) \subseteq {"empty"}
                    /\ \A i \in DOMAIN Split(o) :
                         Untitled(Split(o)[i]) \/ \E g \in ToSet(plan_goals(o)) : g.title = Split(o)[i]
  BY DEF PlansAreSound
<1> DEFINE goals == decompose(o)
           sorted == prioritize(goals)
<1>1. o \in Seq(Seq(Nat))
  BY ObjectivesAssumption
<1>2. /\ IsBacklog(goals) /\ \A i \in 1..Len(goals) : goals[i].depends = <<>>
      /\ \A i, j \in 1..Len(goals) : goals[i].title = goals[j].title => i = j
      /\ \A i \in DOMAIN Split(o) : Untitled(Split(o)[i]) \/ \E k \in 1..Len(goals) : goals[k].title = Split(o)[i]
  BY <1>1, DecomposedIs
<1>3. plan_goals(o) = IF goals = <<>> \/ has_cycle(goals) THEN <<>> ELSE sorted
  BY DEF plan_goals
<1> HIDE DEF goals
<1>4. ~has_cycle(goals)
  BY <1>2, NothingNoCycle
<1>5. /\ IsBacklog(sorted) /\ Len(sorted) = Len(goals)
      /\ \A i \in 1..Len(goals) : \E k \in 1..Len(goals) : sorted[k] = goals[i]
      /\ \A k \in 1..Len(goals) : \E i \in 1..Len(goals) : sorted[k] = goals[i]
      /\ \A i, j \in 1..Len(goals) : sorted[i].title = sorted[j].title => i = j
  BY <1>2, PrioritizedIs
<1> HIDE DEF sorted
<1> DEFINE planned == plan_goals(o)
<1>6. /\ IsBacklog(planned) /\ Len(planned) = Len(goals)
      /\ \A i \in 1..Len(goals) : \E k \in 1..Len(goals) : planned[k] = goals[i]
      /\ \A k \in 1..Len(goals) : \E i \in 1..Len(goals) : planned[k] = goals[i]
      /\ \A i, j \in 1..Len(goals) : planned[i].title = planned[j].title => i = j
  <2>1. CASE goals = <<>>
    <3>1. planned = goals
      BY <1>3, <2>1
    <3> QED BY <1>2, <3>1
  <2>2. CASE goals # <<>>
    BY <1>3, <1>4, <1>5, <2>2
  <2> QED BY <2>1, <2>2
<1> HIDE DEF planned
<1>7. DOMAIN planned = 1..Len(goals) /\ \A k \in 1..Len(goals) : planned[k].depends = <<>>
  <2>1. DOMAIN planned = 1..Len(goals)
    BY <1>6, BacklogIs
  <2>2. ASSUME NEW k \in 1..Len(goals)
        PROVE  planned[k].depends = <<>>
    <3>1. PICK i \in 1..Len(goals) : planned[k] = goals[i]
      BY <1>6
    <3> QED BY <1>2, <3>1
  <2> QED BY <2>1, <2>2
<1>8. ~has_cycle(planned)
  BY <1>6, <1>7, NothingNoCycle
<1>9. \A k \in DOMAIN planned : ToSet(planned[k].depends) \subseteq Ids(planned)
  <2>1. ToSet(<<>>) = {}
    BY DEF ToSet
  <2> QED BY <1>7, <2>1
<1>10. ~\E i, j \in DOMAIN planned : i < j /\ planned[i].title = planned[j].title
  <2> SUFFICES ASSUME NEW i \in DOMAIN planned, NEW j \in DOMAIN planned, i < j, planned[i].title = planned[j].title
               PROVE  FALSE
    OBVIOUS
  <2>1. i = j
    BY <1>6, <1>7
  <2>2. Len(goals) \in Nat
    BY <1>2, BacklogIs
  <2> QED BY <1>7, <2>1, <2>2
<1>11. validate_backlog(planned) \subseteq {"empty"}
  <2> SUFFICES ASSUME NEW e \in validate_backlog(planned)
               PROVE  e = "empty"
    OBVIOUS
  <2>1. e \in {"empty", "cycle", "missing", "duplicate"}
    BY DEF validate_backlog
  <2>2. "cycle" \notin validate_backlog(planned)
    BY <1>8 DEF validate_backlog
  <2>3. "missing" \notin validate_backlog(planned)
    BY <1>9 DEF validate_backlog
  <2>4. "duplicate" \notin validate_backlog(planned)
    BY <1>10 DEF validate_backlog
  <2> QED BY <2>1, <2>2, <2>3, <2>4
<1>12. ASSUME NEW i \in DOMAIN Split(o), ~Untitled(Split(o)[i])
       PROVE  \E g \in ToSet(planned) : g.title = Split(o)[i]
  <2>1. PICK k \in 1..Len(goals) : goals[k].title = Split(o)[i]
    BY <1>2, <1>12
  <2>2. PICK l \in 1..Len(goals) : planned[l] = goals[k]
    BY <1>6
  <2>3. planned[l] \in ToSet(planned)
    BY <1>7 DEF ToSet
  <2> QED BY <2>1, <2>2, <2>3
<1> QED BY <1>11, <1>12 DEF planned

-----------------------------------------------------------------------------
(* The repository's goals as a list                                        *)

\* A sequence behind its first member.
Headed(n, s) == <<n>> \o s

LEMMA SameTail ==
  ASSUME NEW n \in Int, NEW m \in Int, NEW s \in Seq(Int), NEW t \in Seq(Int), Headed(n, s) = Headed(m, t)
  PROVE  n = m /\ s = t
<1>0. <<n>> \o s = <<m>> \o t
  BY DEF Headed
<1>1. (<<n>> \o s)[1] = n /\ (<<m>> \o t)[1] = m
  OBVIOUS
<1>2. s = t
  <2> DEFINE w == <<n>> \o s
             v == <<m>> \o t
  <2>1. /\ Len(w) = Len(s) + 1 /\ Len(s) \in Nat /\ \A i \in 1..Len(s) : w[i + 1] = s[i]
        /\ Len(v) = Len(t) + 1 /\ Len(t) \in Nat /\ \A i \in 1..Len(t) : v[i + 1] = t[i]
    OBVIOUS
  <2>2. w = v
    BY <1>0
  <2> HIDE DEF w, v
  <2>3. Len(s) = Len(t) /\ \A i \in 1..Len(s) : s[i] = t[i]
    BY <2>1, <2>2
  <2>4. s = [i \in 1..Len(s) |-> s[i]] /\ t = [i \in 1..Len(t) |-> t[i]]
    OBVIOUS
  <2> QED BY <2>3, <2>4
<1> QED BY <1>0, <1>1, <1>2

\* What is listed is the repository, with one goal of an id.
LEMMA ListedBacklog ==
  ASSUME Sound(repository)
  PROVE  IsBacklog(AsListed(repository))
<1> DEFINE S == repository
           kind == [g \in S |-> IF g.id[1] = "goal" THEN 0 ELSE 1]
           key == [g \in S |-> <<IF g.id[1] = "goal" THEN 0 ELSE 1>> \o g.id[2]]
           L == AsListed(S)
<1>1. /\ IsFiniteSet(S) /\ S \subseteq Goal /\ \A g, h \in S : g.id = h.id => g = h
      /\ \A g \in S : g.id \in GoalId
  BY DEF Sound, Goal
<1>2. \A g \in S : /\ kind[g] \in Int /\ g.id[2] \in Seq(Int) /\ key[g] = Headed(kind[g], g.id[2])
                   /\ g.id = <<IF kind[g] = 0 THEN "goal" ELSE "plan", g.id[2]>>
  <2> TAKE g \in S
  <2>1. PICK k \in {"goal", "plan"}, t \in Seq(Nat) : g.id = <<k, t>>
    BY <1>1 DEF GoalId
  <2>2. g.id[1] = k /\ g.id[2] = t
    BY <2>1
  <2>3. t \in Seq(Int)
    BY <2>1
  <2> QED BY <2>1, <2>2, <2>3 DEF Headed
<1> HIDE DEF kind
<1>3. \A n \in Int, s \in Seq(Int) : Headed(n, s) \in Seq(Int)
  BY DEF Headed
<1>4. key \in [S -> Seq(Int)]
  BY <1>2, <1>3
<1> HIDE DEF key
<1>5. \A g, h \in S : key[g] = key[h] => g = h
  <2> SUFFICES ASSUME NEW g \in S, NEW h \in S, key[g] = key[h]
               PROVE  g = h
    OBVIOUS
  <2>1. /\ kind[g] \in Int /\ kind[h] \in Int /\ g.id[2] \in Seq(Int) /\ h.id[2] \in Seq(Int)
        /\ Headed(kind[g], g.id[2]) = Headed(kind[h], h.id[2])
    BY <1>2
  <2>6. kind[g] = kind[h] /\ g.id[2] = h.id[2]
    BY <2>1, SameTail
  <2>2. g.id = h.id
    BY <1>2, <2>6
  <2> QED BY <1>1, <2>2
<1>6. L = InOrder(S, Sooner(S, key))
  BY DEF AsListed, Sooner, key
<1> HIDE DEF L
<1>7. /\ Cardinality(S) \in Nat /\ L \in Seq(S) /\ Len(L) = Cardinality(S)
      /\ \A i, j \in 1..Cardinality(S) : L[i] = L[j] => i = j
  BY <1>1, <1>4, <1>5, <1>6, KeyedIs
<1>8. L \in Seq(Goal) /\ \A i \in 1..Len(L) : L[i] \in S
  BY <1>1, <1>7
<1>9. \A i, j \in 1..Len(L) : L[i].id = L[j].id => i = j
  BY <1>1, <1>7, <1>8
<1> QED BY <1>8, <1>9 DEF IsBacklog, L

\* The dependency graph answers as its relation does whatever goals it is built from.
LEMMA PlanningIs ==
  ASSUME Sound(repository)
  PROVE  PlanningIsSound
<1> DEFINE goals == AsListed(repository)
           adj == Adj(goals)
           cycle == find_cycle(goals)
           depth == [id \in DOMAIN adj |-> dependency_depth(goals, id)]
<1>1. IsBacklog(goals)
  BY ListedBacklog
<1>2. PlanningIsSound <=>
        /\ CyclesFound(adj, cycle) /\ DepthsBounded(adj, depth, cycle # <<>>)
        /\ cycle = <<>> => OrderFollows(adj, topological_sort(goals)) /\ SomethingIsUnblocked(adj, goals)
        /\ PlansAreSound
  BY DEF PlanningIsSound
<1> HIDE DEF goals
<1>3. DOMAIN adj = Ids(goals)
  BY <1>1, BacklogIs
<1>4. CyclesFound(adj, cycle)
  BY <1>1, SearchFinds
<1>5. DepthsBounded(adj, depth, cycle # <<>>)
  <2>1. depth = [id \in Ids(goals) |-> dependency_depth(goals, id)]
    BY <1>3
  <2> HIDE DEF depth
  <2> QED BY <1>1, <2>1, DepthIs
<1>6. ASSUME cycle = <<>>
      PROVE  OrderFollows(adj, topological_sort(goals)) /\ SomethingIsUnblocked(adj, goals)
  <2>1. OrderFollows(adj, topological_sort(goals))
    BY <1>1, <1>6, SortFollows
  <2>2. \A id \in Ids(goals) : id \notin Below(adj, id)
    BY <1>3, <1>4, <1>6 DEF CyclesFound
  <2>3. SomethingIsUnblocked(adj, goals)
    BY <1>1, <2>2, FirstOpenIsUnblocked
  <2> QED BY <2>1, <2>3
<1> HIDE DEF cycle, depth, adj
<1> QED BY <1>2, <1>4, <1>5, <1>6, PlansSound

\* Whatever goals the repository comes to hold, the dependency graph finds a cycle exactly
\* when there is one, orders every goal after what it depends on when there is none, bounds
\* the depths and leaves an open goal unblocked; and every plan names its objective's parts.
THEOREM PlanningSound == GoalsSpec => []PlanningIsSound
<1>1. GoalsInv => PlanningIsSound
  BY Opened, PlanningIs DEF Kept
<1> QED BY <1>1, GoalsInvariant, PTL
=============================================================================
