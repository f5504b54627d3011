-------------------------- MODULE AgentLoop_proofs --------------------------
(***************************************************************************)
(* Proofs about the agent loop: its inductive invariant IInv, and with it  *)
(* that every goal is accounted for in the session and in the goal         *)
(* repository, that retries and cancels bound the executor's runs, and     *)
(* that no session ends as completed that was cancelled or left a goal     *)
(* out, for every set of titles and every plan.                            *)
(***************************************************************************)
EXTENDS AgentLoop, SequenceTheorems, TLAPS

-----------------------------------------------------------------------------
(* Lists of goals                                                          *)

\* What two lists say together.
LEMMA Together ==
  ASSUME NEW S, NEW c \in Seq(S), NEW f \in Seq(S)
  PROVE  ToSet(c \o f) = ToSet(c) \cup ToSet(f)
<1>1. /\ DOMAIN c = 1..Len(c) /\ DOMAIN f = 1..Len(f)
      /\ Len(c) \in Nat /\ Len(f) \in Nat
      /\ DOMAIN (c \o f) = 1..(Len(c) + Len(f))
      /\ \A i \in 1..(Len(c) + Len(f)) :
           (c \o f)[i] = IF i =< Len(c) THEN c[i] ELSE f[i - Len(c)]
  BY ConcatProperties, LenProperties
<1>2. ASSUME NEW i \in DOMAIN (c \o f)
      PROVE  (c \o f)[i] \in ToSet(c) \cup ToSet(f)
  BY <1>1 DEF ToSet
<1>3. ASSUME NEW i \in DOMAIN c
      PROVE  c[i] \in ToSet(c \o f)
  <2>1. i \in DOMAIN (c \o f) /\ (c \o f)[i] = c[i]
    BY <1>1
  <2> QED BY <2>1 DEF ToSet
<1>4. ASSUME NEW i \in DOMAIN f
      PROVE  f[i] \in ToSet(c \o f)
  <2>1. i + Len(c) \in DOMAIN (c \o f) /\ (c \o f)[i + Len(c)] = f[i]
    BY <1>1
  <2> QED BY <2>1 DEF ToSet
<1> QED BY <1>2, <1>3, <1>4 DEF ToSet

\* What a list says with one more.
LEMMA OneMore ==
  ASSUME NEW S, NEW c \in Seq(S), NEW g \in S
  PROVE  Append(c, g) \in Seq(S) /\ ToSet(Append(c, g)) = ToSet(c) \cup {g}
<1>1. /\ Append(c, g) \in Seq(S) /\ DOMAIN Append(c, g) = 1..(Len(c) + 1)
      /\ DOMAIN c = 1..Len(c) /\ Len(c) \in Nat
      /\ \A i \in 1..Len(c) : Append(c, g)[i] = c[i]
      /\ Append(c, g)[Len(c) + 1] = g
  OBVIOUS
<1>2. ASSUME NEW i \in DOMAIN Append(c, g)
      PROVE  Append(c, g)[i] \in ToSet(c) \cup {g}
  BY <1>1 DEF ToSet
<1>3. ASSUME NEW i \in DOMAIN c
      PROVE  c[i] \in ToSet(Append(c, g))
  <2>1. i \in DOMAIN Append(c, g) /\ Append(c, g)[i] = c[i]
    BY <1>1
  <2> QED BY <2>1 DEF ToSet
<1>4. g \in ToSet(Append(c, g))
  <2>1. Len(c) + 1 \in DOMAIN Append(c, g)
    BY <1>1
  <2> QED BY <1>1, <2>1 DEF ToSet
<1> QED BY <1>1, <1>2, <1>3, <1>4 DEF ToSet

\* A goal that neither list has may end on either.
LEMMA StillOnce ==
  ASSUME NEW S, NEW c \in Seq(S), NEW f \in Seq(S), NEW g \in S,
         IsInjective(c \o f), g \notin ToSet(c \o f)
  PROVE  IsInjective(Append(c, g) \o f) /\ IsInjective(c \o Append(f, g))
<1> DEFINE n == Len(c)
           m == Len(f)
           t == c \o f
<1>1. /\ n \in Nat /\ m \in Nat /\ DOMAIN t = 1..(n + m)
      /\ \A i \in 1..(n + m) : t[i] = IF i =< n THEN c[i] ELSE f[i - n]
  BY ConcatProperties, LenProperties
<1>2. /\ \A i \in 1..(n + m) : t[i] # g
      /\ \A i, j \in 1..(n + m) : t[i] = t[j] => i = j
  BY <1>1 DEF IsInjective, ToSet
<1>3. /\ DOMAIN (Append(c, g) \o f) = 1..(n + m + 1)
      /\ \A i \in 1..(n + m + 1) :
           (Append(c, g) \o f)[i] = IF i =< n THEN t[i] ELSE IF i = n + 1 THEN g ELSE t[i - 1]
  <2> DEFINE d == Append(c, g)
  <2>1. /\ d \in Seq(S) /\ Len(d) = n + 1
        /\ \A i \in 1..n : d[i] = c[i]
        /\ d[n + 1] = g
    OBVIOUS
  <2> HIDE DEF d
  <2>2. /\ DOMAIN (d \o f) = 1..(n + 1 + m)
        /\ \A i \in 1..(n + 1 + m) :
             (d \o f)[i] = IF i =< n + 1 THEN d[i] ELSE f[i - (n + 1)]
    <3>1. /\ d \o f \in Seq(S) /\ Len(d \o f) = Len(d) + m
          /\ \A i \in 1..(Len(d) + m) : (d \o f)[i] = IF i =< Len(d) THEN d[i] ELSE f[i - Len(d)]
      BY <2>1, ConcatProperties
    <3> QED BY <2>1, <3>1, LenProperties
  <2> HIDE DEF n, m, t
  <2>3. DOMAIN (d \o f) = 1..(n + m + 1)
    BY <1>1, <2>2
  <2>4. \A i \in 1..(n + m + 1) :
          (d \o f)[i] = IF i =< n THEN t[i] ELSE IF i = n + 1 THEN g ELSE t[i - 1]
    BY <1>1, <2>1, <2>2, SMTT(60)
  <2> QED BY <2>3, <2>4 DEF d
<1>4. /\ DOMAIN (c \o Append(f, g)) = 1..(n + m + 1)
      /\ \A i \in 1..(n + m + 1) :
           (c \o Append(f, g))[i] = IF i =< n + m THEN t[i] ELSE g
  <2> DEFINE d == Append(f, g)
  <2>1. /\ d \in Seq(S) /\ Len(d) = m + 1
        /\ \A i \in 1..m : d[i] = f[i]
        /\ d[m + 1] = g
    OBVIOUS
  <2> HIDE DEF d
  <2>2. /\ DOMAIN (c \o d) = 1..(n + (m + 1))
        /\ \A i \in 1..(n + (m + 1)) : (c \o d)[i] = IF i =< n THEN c[i] ELSE d[i - n]
    <3>1. /\ c \o d \in Seq(S) /\ Len(c \o d) = n + Len(d)
          /\ \A i \in 1..(n + Len(d)) : (c \o d)[i] = IF i =< n THEN c[i] ELSE d[i - n]
      BY <2>1, ConcatProperties
    <3> QED BY <2>1, <3>1, LenProperties
  <2> HIDE DEF n, m, t
  <2>3. DOMAIN (c \o d) = 1..(n + m + 1)
    BY <1>1, <2>2
  <2>4. ASSUME NEW i \in 1..(n + m + 1)
        PROVE  (c \o d)[i] = IF i =< n + m THEN t[i] ELSE g
    <3>1. CASE i =< n
      BY <1>1, <2>2, <3>1
    <3>2. CASE ~(i =< n)
      <4>1. i - n \in 1..(m + 1) /\ (i = n + m + 1 <=> i - n = m + 1)
        BY <1>1, <3>2
      <4>2. (c \o d)[i] = d[i - n] /\ (i =< n + m => t[i] = f[i - n] /\ i - n \in 1..m)
        BY <1>1, <2>2, <3>2, <4>1
      <4> QED BY <1>1, <2>1, <4>1, <4>2
    <3> QED BY <3>1, <3>2
  <2> QED BY <2>3, <2>4 DEF d
<1> DEFINE a == Append(c, g) \o f
           b == c \o Append(f, g)
<1> HIDE DEF t, n, m
<1>5. IsInjective(a)
  <2> DEFINE v(k) == IF k =< n THEN k ELSE k - 1
  <2>0. \A i \in 1..(n + m + 1) :
          a[i] = IF i =< n THEN t[i] ELSE IF i = n + 1 THEN g ELSE t[i - 1]
    BY <1>3
  <2>1. ASSUME NEW k \in 1..(n + m + 1), k # n + 1
        PROVE  v(k) \in 1..(n + m) /\ a[k] = t[v(k)]
    <3> HIDE DEF a
    <3>1. v(k) \in 1..(n + m)
      BY <1>1, <2>1
    <3>2. CASE k =< n
      BY <2>0, <3>1, <3>2
    <3>3. CASE ~(k =< n)
      BY <2>0, <2>1, <3>1, <3>3
    <3> QED BY <3>2, <3>3
  <2>2. a[n + 1] = g /\ n + 1 \in 1..(n + m + 1)
    BY <1>1, <1>3
  <2>3. DOMAIN a = 1..(n + m + 1)
    BY <1>3
  <2> HIDE DEF a
  <2>4. ASSUME NEW i \in 1..(n + m + 1), NEW j \in 1..(n + m + 1), a[i] = a[j]
        PROVE  i = j
    <3>1. CASE i = n + 1 \/ j = n + 1
      <4>1. \A k \in 1..(n + m + 1) : a[k] = g => k = n + 1
        BY <1>2, <2>1
      <4> QED BY <2>2, <2>4, <3>1, <4>1
    <3>2. CASE i # n + 1 /\ j # n + 1
      <4>1. v(i) = v(j)
        <5> HIDE DEF v
        <5> QED BY <1>2, <2>1, <2>4, <3>2
      <4> QED BY <1>1, <3>2, <4>1
    <3> QED BY <3>1, <3>2
  <2> QED BY <2>3, <2>4 DEF IsInjective
<1>6. IsInjective(b)
  <2>1. \A k \in 1..(n + m) : k \in 1..(n + m + 1) /\ b[k] = t[k]
    BY <1>1, <1>4
  <2>2. b[n + m + 1] = g /\ n + m + 1 \in 1..(n + m + 1)
        /\ \A k \in 1..(n + m + 1) : k = n + m + 1 \/ k \in 1..(n + m)
    BY <1>1, <1>4
  <2>3. DOMAIN b = 1..(n + m + 1)
    BY <1>4
  <2> HIDE DEF b
  <2>4. ASSUME NEW i \in 1..(n + m + 1), NEW j \in 1..(n + m + 1), b[i] = b[j]
        PROVE  i = j
    BY <1>2, <2>1, <2>2, <2>4
  <2> QED BY <2>3, <2>4 DEF IsInjective
<1> QED BY <1>5, <1>6

-----------------------------------------------------------------------------
(* The goal repository                                                     *)

Goals(r) == DOMAIN r \subseteq GoalId /\ \A id \in DOMAIN r : r[id] \in GoalStatus
OneEach(r) == \A i, j \in DOMAIN r : i[2] = j[2] => i = j

LEMMA GoalsAre ==
  \A id \in GoalId : id = <<id[1], id[2]>> /\ id[1] \in {"plan", "memory"} /\ id[2] \in Titles
  BY DEF GoalId

LEMMA WithOne ==
  ASSUME NEW r, Goals(r), NEW id \in GoalId, NEW st \in GoalStatus
  PROVE  /\ Goals(With(r, id, st)) /\ DOMAIN With(r, id, st) = DOMAIN r \cup {id}
         /\ With(r, id, st)[id] = st
         /\ \A i \in DOMAIN r : i # id => With(r, id, st)[i] = r[i]
  BY DEF Goals, With

LEMMA WithStaysOneEach ==
  ASSUME NEW r, OneEach(r), NEW id, NEW st, \A o \in DOMAIN r : o # id => o[2] # id[2]
  PROVE  OneEach(With(r, id, st))
  BY DEF OneEach, With

\* The records add goals of new titles and change none.
LEMMA Merged ==
  ASSUME NEW r, Goals(r)
  PROVE  /\ Goals(MergeMemory(r)) /\ DOMAIN r \subseteq DOMAIN MergeMemory(r)
         /\ \A i \in DOMAIN r : MergeMemory(r)[i] = r[i]
         /\ OneEach(r) => OneEach(MergeMemory(r))
<1> DEFINE new == {t \in Titles : memory[t] # "none" /\ t \notin TitlesOf(DOMAIN r)}
           m == MergeMemory(r)
<1>1. /\ DOMAIN m = DOMAIN r \cup ({"memory"} \X new)
      /\ \A i \in DOMAIN m : m[i] = IF i \in DOMAIN r THEN r[i]
                                    ELSE IF memory[i[2]] = "good" THEN "done" ELSE "todo"
  BY DEF MergeMemory
<1>2. \A i \in {"memory"} \X new : i \in GoalId /\ i[1] = "memory" /\ i[2] \in new
  BY DEF GoalId
<1>3. \A i \in DOMAIN r : i[2] \notin new
  BY DEF TitlesOf
<1> HIDE DEF m, new
<1>4. Goals(m)
  BY <1>1, <1>2 DEF Goals, GoalStatus
<1>5. ASSUME OneEach(r)
      PROVE  OneEach(m)
  <2>1. ASSUME NEW i \in {"memory"} \X new, NEW j \in {"memory"} \X new, i[2] = j[2]
        PROVE  i = j
    BY <1>2, <2>1, GoalsAre
  <2> QED BY <1>1, <1>2, <1>3, <1>5, <2>1 DEF OneEach
<1> QED BY <1>1, <1>4, <1>5 DEF m

-----------------------------------------------------------------------------
(* Type correctness                                                        *)

PCs == {"idle", "loop", "attempting", "calling", "executing", "recording", "ending", "finished"}
States == {"pending", "running", "replanning", "completed", "failed", "cancelled"}

ControlOK == pc \in PCs /\ state \in States
FlagsOK == cancelled \in BOOLEAN /\ paused \in BOOLEAN /\ replan \in BOOLEAN /\ raised \in BOOLEAN
PlanOK == plan \in Plans \cup {<<>>} /\ next \in 1..(Len(plan) + 1)
ConfigOK == maxRetries \in RetryLimits /\ maxGoals \in GoalLimits
CountsOK == attempt \in 0..maxRetries /\ sessions \in 0..MaxSessions /\ starts \in Nat /\ late \in Nat
ListsOK == completed \in Seq(GoalId) /\ failed \in Seq(GoalId)
RepoOK == Goals(repo)
MemoryOK == memory \in [Titles -> {"none", "good", "bad"}]

LEMMA TypesAre ==
  /\ TypeOK <=> /\ ControlOK /\ FlagsOK /\ PlanOK /\ ConfigOK
                /\ CountsOK /\ ListsOK /\ RepoOK /\ MemoryOK
  /\ TypeOK' <=> /\ ControlOK' /\ FlagsOK' /\ PlanOK' /\ ConfigOK'
                 /\ CountsOK' /\ ListsOK' /\ RepoOK' /\ MemoryOK'
  BY DEF TypeOK, ControlOK, FlagsOK, PlanOK, ConfigOK, CountsOK, ListsOK, RepoOK, MemoryOK,
     PCs, States, Goals, Stored

\* The plan names each title once and the loop stays within it.
LEMMA PlanIs ==
  ASSUME PlanOK
  PROVE  /\ Len(plan) \in Nat /\ DOMAIN plan = 1..Len(plan) /\ next \in 1..(Len(plan) + 1)
         /\ \A k \in DOMAIN plan : plan[k] \in Titles /\ <<"plan", plan[k]>> \in GoalId
         /\ \A k, l \in DOMAIN plan : <<"plan", plan[k]>> = <<"plan", plan[l]>> => k = l
<1>1. plan \in Seq(Titles) /\ IsInjective(plan)
  <2>1. CASE plan = <<>>
    <3>1. DOMAIN plan = {}
      BY <2>1
    <3> QED BY <2>1, <3>1 DEF IsInjective
  <2>2. CASE plan \in Plans
    BY <2>2, ConstantsAssumption
  <2> QED BY <2>1, <2>2 DEF PlanOK
<1>2. \A k \in DOMAIN plan : plan[k] \in Titles
  BY <1>1
<1> QED BY <1>1, <1>2 DEF PlanOK, GoalId, IsInjective

\* The goal at hand is one the plan may name.
LEMMA GoalAtHand ==
  ASSUME PlanOK, next =< Len(plan)
  PROVE  next \in DOMAIN plan /\ Goal \in GoalId /\ Goal = <<"plan", plan[next]>>
  BY PlanIs DEF Goal


-----------------------------------------------------------------------------
(* The result of an attempt                                                *)

AllOK == TypeOK /\ AtHandInv

\* What an attempt may have made of the lists and the repository on its way.
Progress(c, f, r) ==
  /\ c \in Seq(GoalId) /\ f \in Seq(GoalId)
  /\ Goals(r) /\ DOMAIN r = Stored
  /\ \A id \in Stored : id # Goal => r[id] = repo[id]
  /\ repo[Goal] # "todo" => r[Goal] # "todo"
  /\ Listed \subseteq ToSet(c \o f)
  /\ \A id \in ToSet(c \o f) : id \in Listed \/ (id = Goal /\ r[Goal] # "todo")

LEMMA ProgressMade ==
  ASSUME AllOK, pc \in WithGoal
  PROVE  /\ Progress(completed, failed, repo)
         /\ \A c, f, r : Progress(c, f, r) =>
              /\ Progress(c, f, Block(r)) /\ Progress(c, Append(f, Goal), Block(r))
              /\ Goal \in ToSet(c \o Append(f, Goal)) /\ Block(r)[Goal] = "blocked"
         /\ Progress(completed, failed, Done(Goal))
         /\ Progress(Append(completed, Goal), failed, Done(Goal))
         /\ Goal \in ToSet(Append(completed, Goal) \o failed) /\ Done(Goal)[Goal] = "done"
<1>1. /\ Goal \in GoalId /\ Goal \in Stored /\ ListsOK /\ Goals(repo)
  BY TypesAre, GoalAtHand DEF AllOK, AtHandInv, RepoOK
<1> DEFINE g == Goal
<1>2. Progress(completed, failed, repo)
  BY <1>1 DEF Progress, Listed, Stored, ListsOK
<1>3. ASSUME NEW c, NEW f, NEW r, Progress(c, f, r)
      PROVE  /\ Progress(c, f, Block(r)) /\ Progress(c, Append(f, g), Block(r))
             /\ g \in ToSet(c \o Append(f, g)) /\ Block(r)[g] = "blocked"
  <2>1. /\ c \in Seq(GoalId) /\ f \in Seq(GoalId) /\ Goals(r) /\ DOMAIN r = Stored
    BY <1>3 DEF Progress
  <2>2. Block(r) = With(r, g, "blocked")
    BY <1>1, <2>1 DEF Block
  <2>3. /\ Goals(Block(r)) /\ DOMAIN Block(r) = Stored /\ Block(r)[g] = "blocked"
        /\ \A id \in Stored : id # g => Block(r)[id] = r[id]
    <3>1. "blocked" \in GoalStatus
      BY DEF GoalStatus
    <3>2. /\ Goals(With(r, g, "blocked")) /\ DOMAIN With(r, g, "blocked") = DOMAIN r \cup {g}
          /\ With(r, g, "blocked")[g] = "blocked"
          /\ \A i \in DOMAIN r : i # g => With(r, g, "blocked")[i] = r[i]
      BY <1>1, <2>1, <3>1, WithOne, ZenonT(60)
    <3> QED BY <1>1, <2>1, <2>2, <3>2
  <2>4. /\ Append(f, g) \in Seq(GoalId)
        /\ ToSet(c \o Append(f, g)) = ToSet(c \o f) \cup {g}
    <3>1. Append(f, g) \in Seq(GoalId) /\ ToSet(Append(f, g)) = ToSet(f) \cup {g}
      BY <1>1, <2>1, OneMore
    <3>2. ToSet(c \o f) = ToSet(c) \cup ToSet(f)
      BY <2>1, Together
    <3>3. ToSet(c \o Append(f, g)) = ToSet(c) \cup ToSet(Append(f, g))
      <4> DEFINE d == Append(f, g)
      <4>1. d \in Seq(GoalId)
        BY <3>1
      <4> HIDE DEF d
      <4>2. ToSet(c \o d) = ToSet(c) \cup ToSet(d)
        BY <2>1, <4>1, Together
      <4> QED BY <4>2 DEF d
    <3> QED BY <3>1, <3>2, <3>3
  <2> QED BY <1>3, <2>1, <2>3, <2>4 DEF Progress
<1>4. /\ Done(g) = With(repo, g, "done") /\ Goals(Done(g)) /\ DOMAIN Done(g) = Stored
      /\ Done(g)[g] = "done" /\ \A id \in Stored : id # g => Done(g)[id] = repo[id]
  <2>1. "done" \in GoalStatus
    BY DEF GoalStatus
  <2>2. /\ Goals(With(repo, g, "done")) /\ DOMAIN With(repo, g, "done") = DOMAIN repo \cup {g}
        /\ With(repo, g, "done")[g] = "done"
        /\ \A i \in DOMAIN repo : i # g => With(repo, g, "done")[i] = repo[i]
    BY <1>1, <2>1, WithOne
  <2> QED BY <1>1, <2>2 DEF Done, Stored
<1>5. /\ Append(completed, g) \in Seq(GoalId)
      /\ ToSet(Append(completed, g) \o failed) = Listed \cup {g}
  <2>1. Append(completed, g) \in Seq(GoalId) /\ ToSet(Append(completed, g)) = ToSet(completed) \cup {g}
    BY <1>1, OneMore DEF ListsOK
  <2>2. ToSet(completed \o failed) = ToSet(completed) \cup ToSet(failed)
    BY <1>1, Together DEF ListsOK
  <2>3. ToSet(Append(completed, g) \o failed) = ToSet(Append(completed, g)) \cup ToSet(failed)
    <3> DEFINE d == Append(completed, g)
    <3>1. d \in Seq(GoalId)
      BY <2>1
    <3> HIDE DEF d
    <3>2. ToSet(d \o failed) = ToSet(d) \cup ToSet(failed)
      BY <1>1, <3>1, Together DEF ListsOK
    <3> QED BY <3>2 DEF d
  <2> QED BY <2>1, <2>2, <2>3 DEF Listed
<1>6. Progress(completed, failed, Done(g))
  BY <1>1, <1>2, <1>4 DEF Progress
<1>7. Progress(Append(completed, g), failed, Done(g))
  BY <1>1, <1>4, <1>5 DEF Progress, ListsOK
<1> QED BY <1>2, <1>3, <1>4, <1>5, <1>6, <1>7

\* What follows an attempt: another one, the goal's result, or the session's
\* failure.
Retries == pc' = "attempting" /\ attempt' = attempt + 1 /\ attempt < maxRetries
           /\ attempt < ReviewLimit /\ state' = state /\ replan' = replan
Records == pc' = "recording" /\ attempt' = attempt /\ state' = state /\ replan' \in BOOLEAN
           /\ Goal \in ToSet(completed' \o failed')
GivesUp == pc' = "finished" /\ attempt' = attempt /\ state' = "failed" /\ replan' = replan

LEMMA FailureHandled ==
  ASSUME AllOK, pc \in WithGoal, NEW c, NEW f, NEW r, Progress(c, f, r), HandleFailure(c, f, r)
  PROVE  /\ completed' = c
         /\ \/ Retries /\ failed' = f /\ repo' = r
            \/ Records /\ failed' = Append(f, Goal) /\ repo' = Block(r)
<1>1. /\ c \in Seq(GoalId) /\ f \in Seq(GoalId)
      /\ Goal \in ToSet(c \o Append(f, Goal))
  BY ProgressMade DEF Progress
<1> QED BY <1>1 DEF HandleFailure, Retries, Records, Decisions, MayRetry, Conclude

LEMMA RaiseHandled ==
  ASSUME AllOK, pc \in WithGoal, NEW c, NEW f, NEW r, Progress(c, f, r), HandleRaise(c, f, r)
  PROVE  Progress(completed', failed', repo') /\ (Retries \/ Records \/ GivesUp)
<1>1. /\ Progress(c, f, Block(r)) /\ Progress(c, Append(f, Goal), Block(r))
  BY ProgressMade
<1>2. CASE HandleFailure(c, f, r)
  BY <1>1, <1>2, FailureHandled
<1>3. CASE ~HandleFailure(c, f, r)
  BY <1>1, <1>3 DEF HandleRaise, GivesUp
<1> QED BY <1>2, <1>3

Attempt == CallRaises \/ Succeed \/ SucceedRaises \/ Fail \/ FailRaises

\* What an attempt touches, and what one that nobody disturbs does.
LEMMA Attempted ==
  ASSUME AllOK, Attempt
  PROVE  /\ pc \in {"calling", "executing"} /\ next =< Len(plan)
         /\ UNCHANGED <<config, flags, plan, next, sessions, starts, late>>
         /\ Progress(completed', failed', repo') /\ (Retries \/ Records \/ GivesUp)
         /\ MemoryOK'
         /\ raised' \in {raised, TRUE}
         /\ ~raised' =>
              \/ Retries /\ UNCHANGED <<completed, failed, repo>>
              \/ /\ Records /\ completed' = Append(completed, Goal) /\ failed' = failed
                 /\ repo'[Goal] = "done"
              \/ /\ Records /\ failed' = Append(failed, Goal) /\ completed' = completed
                 /\ repo'[Goal] = "blocked"
<1> DEFINE g == Goal
<1>1. pc \in {"calling", "executing"} /\ pc \in WithGoal /\ next =< Len(plan)
  BY DEF Attempt, CallRaises, Succeed, SucceedRaises, Fail, FailRaises, WithGoal, Trying, AllOK, AtHandInv
<1>2. UNCHANGED <<config, flags, plan, next, sessions, starts, late>>
  BY DEF Attempt, CallRaises, Succeed, SucceedRaises, Fail, FailRaises, config, flags
<1>3. MemoryOK'
  <2>1. MemoryOK /\ \A t, o : Remember(t, o) => MemoryOK'
    BY TypesAre DEF AllOK, MemoryOK, Remember
  <2> QED BY <2>1 DEF Attempt, CallRaises, Succeed, SucceedRaises, Fail, FailRaises, MemoryOK
<1>4. raised' \in {raised, TRUE}
  BY DEF Attempt, CallRaises, Succeed, SucceedRaises, Fail, FailRaises
<1>5. /\ Progress(completed, failed, repo) /\ Progress(completed, failed, Done(g))
      /\ Progress(Append(completed, g), failed, Done(g))
      /\ Progress(completed, failed, Block(repo)) /\ Progress(completed, Append(failed, g), Block(repo))
  BY <1>1, ProgressMade
<1>6. CASE CallRaises
  BY <1>1, <1>2, <1>3, <1>4, <1>5, <1>6, RaiseHandled DEF CallRaises
<1>7. CASE Succeed
  <2>1. /\ repo' = Done(g) /\ completed' = Append(completed, g) /\ failed' = failed
        /\ pc' = "recording" /\ replan' = FALSE /\ state' = state /\ attempt' = attempt
    BY <1>7 DEF Succeed, Conclude
  <2>2. g \in ToSet(completed' \o failed') /\ repo'[g] = "done"
    BY <1>1, <2>1, ProgressMade
  <2>3. Records
    BY <2>1, <2>2 DEF Records
  <2>4. Progress(completed', failed', repo')
    BY <1>5, <2>1
  <2> QED BY <1>1, <1>2, <1>3, <1>4, <2>1, <2>2, <2>3, <2>4
<1>8. CASE SucceedRaises
  BY <1>1, <1>2, <1>3, <1>4, <1>5, <1>8, RaiseHandled DEF SucceedRaises
<1>9. CASE Fail
  <2>1. HandleFailure(completed, failed, repo)
    BY <1>9 DEF Fail
  <2>2. Block(repo)[g] = "blocked"
    BY <1>1, <1>5, ProgressMade
  <2>3. \/ Retries /\ UNCHANGED <<completed, failed, repo>>
        \/ /\ Records /\ failed' = Append(failed, g) /\ completed' = completed
           /\ repo' = Block(repo)
    BY <1>1, <1>5, <2>1, FailureHandled
  <2>4. Progress(completed', failed', repo')
    BY <1>5, <2>3
  <2> QED BY <1>1, <1>2, <1>3, <1>4, <2>2, <2>3, <2>4
<1>10. CASE FailRaises
  BY <1>1, <1>2, <1>3, <1>4, <1>5, <1>10, RaiseHandled DEF FailRaises
<1> QED BY <1>6, <1>7, <1>8, <1>9, <1>10 DEF Attempt


-----------------------------------------------------------------------------
(* The other steps                                                         *)

Begins == Start \/ PlannerRaises
Adds == AddGoal \/ RejectGoal
Quiet ==
  \/ LoopCancelled \/ StopAtMaxGoals \/ End \/ AttemptCancelled \/ AttemptBegins \/ Call
  \/ Record \/ RecordRaises \/ Cancel \/ Pause \/ Resume \/ UNCHANGED vars

LEMMA StepKinds == [Next]_vars => Attempt \/ Begins \/ Adds \/ Quiet
  BY DEF Next, Run, Attempt, Begins, Adds, Quiet

\* The quiet steps change neither the lists nor the repository.
LEMMA QuietFrame ==
  ASSUME Quiet
  PROVE  UNCHANGED <<config, completed, failed, repo, raised, plan, memory, sessions, attempt, replan>>
  BY DEF Quiet, LoopCancelled, StopAtMaxGoals, End, AttemptCancelled, AttemptBegins, Call,
     Record, RecordRaises, Cancel, Pause, Resume, Unflagged, vars, config, session, flags

\* A goal is added, or refused and the session failed.
LEMMA AddFrame ==
  ASSUME AllOK, OneEach(repo), Adds
  PROVE  /\ pc = "loop" /\ next =< Len(plan) /\ ~cancelled
         /\ UNCHANGED <<config, flags, completed, failed, raised, plan, next, memory, sessions, late, replan>>
         /\ Goals(repo') /\ OneEach(repo') /\ Stored \subseteq DOMAIN repo'
         /\ \A id \in Stored : id # Goal => repo'[id] = repo[id]
         /\ \/ /\ pc' = "attempting" /\ state' = state /\ attempt' = 0 /\ starts' = 0
               /\ Goal \in DOMAIN repo'
            \/ pc' = "finished" /\ state' = "failed" /\ UNCHANGED <<attempt, starts>>
<1>1. /\ pc = "loop" /\ next =< Len(plan) /\ ~cancelled
      /\ UNCHANGED <<config, flags, completed, failed, raised, plan, next, memory, sessions, late, replan>>
  BY DEF Adds, AddGoal, RejectGoal, Awake, config, flags, session
<1>2. Goal \in GoalId /\ Goals(repo)
  BY <1>1, TypesAre, GoalAtHand DEF AllOK, RepoOK
<1> DEFINE w == With(repo, Goal, "todo")
           m == MergeMemory(w)
<1>3. "todo" \in GoalStatus
  BY DEF GoalStatus
<1>4. /\ Goals(w) /\ DOMAIN w = Stored \cup {Goal}
      /\ \A id \in Stored : id # Goal => w[id] = repo[id]
  BY <1>2, <1>3, WithOne DEF Stored
<1>5. ~Duplicate(Goal) => OneEach(w)
  <2>1. ~Duplicate(Goal) => \A o \in DOMAIN repo : o # Goal => o[2] # Goal[2]
    BY DEF Duplicate, Stored
  <2> QED BY <2>1, WithStaysOneEach
<1>6. /\ Goals(m) /\ DOMAIN w \subseteq DOMAIN m
      /\ \A id \in DOMAIN w : m[id] = w[id]
      /\ OneEach(w) => OneEach(m)
  <2> HIDE DEF w
  <2> QED BY <1>4, Merged
<1>7. \/ AddGoal /\ ~Duplicate(Goal) /\ repo' = m
      \/ RejectGoal /\ repo' = repo
      \/ RejectGoal /\ ~Duplicate(Goal) /\ repo' \in {w, m}
  BY DEF Adds, AddGoal, RejectGoal
<1> HIDE DEF w, m
<1>8. /\ Goals(repo') /\ OneEach(repo') /\ Stored \subseteq DOMAIN repo'
      /\ \A id \in Stored : id # Goal => repo'[id] = repo[id]
  <2>1. CASE repo' = repo
    BY <1>2, <2>1 DEF Stored
  <2>2. CASE ~Duplicate(Goal) /\ repo' \in {w, m}
    BY <1>4, <1>5, <1>6, <2>2
  <2> QED BY <1>7, <2>1, <2>2
<1>9. CASE AddGoal
  <2>1. pc' = "attempting" /\ state' = state /\ attempt' = 0 /\ starts' = 0 /\ repo' = m
    BY <1>9 DEF AddGoal, session, m, w
  <2> QED BY <1>1, <1>4, <1>6, <1>8, <2>1
<1>10. CASE RejectGoal
  <2>1. pc' = "finished" /\ state' = "failed" /\ UNCHANGED <<attempt, starts>>
    BY <1>10 DEF RejectGoal
  <2> QED BY <1>1, <1>8, <2>1
<1> QED BY <1>9, <1>10 DEF Adds

\* A session begins with empty lists.
LEMMA BeginFrame ==
  ASSUME Begins
  PROVE  /\ UNCHANGED <<config, flags, repo, memory>>
         /\ completed' = <<>> /\ failed' = <<>> /\ raised' = FALSE /\ replan' = FALSE
         /\ attempt' = 0 /\ starts' = 0 /\ late' = 0 /\ next' = 1
         /\ sessions < MaxSessions /\ sessions' = sessions + 1
         /\ \/ pc' = "loop" /\ state' = "running" /\ plan' \in Plans /\ plan' # <<>>
            \/ pc' = "finished" /\ state' \in {"completed", "failed", "running"} /\ plan' = <<>>
         /\ ToSet(completed' \o failed') = {} /\ IsInjective(completed' \o failed')
<1>1. ToSet(<<>> \o <<>>) = {} /\ IsInjective(<<>> \o <<>>)
  <2>1. DOMAIN (<<>> \o <<>>) = {}
    OBVIOUS
  <2> QED BY <2>1 DEF ToSet, IsInjective
<1>2. completed' = <<>> /\ failed' = <<>>
  BY DEF Begins, Start, PlannerRaises
<1> QED BY <1>1, <1>2 DEF Begins, Start, PlannerRaises, config, flags

-----------------------------------------------------------------------------
(* Type correctness is kept                                                *)

LEMMA TypesKept ==
  ASSUME AllOK, OneEach(repo), [Next]_vars
  PROVE  TypeOK'
<1>1. /\ ControlOK /\ FlagsOK /\ PlanOK /\ ConfigOK /\ CountsOK /\ ListsOK /\ RepoOK /\ MemoryOK
  BY TypesAre DEF AllOK
<1>2. CASE Attempt
  <2>1. /\ UNCHANGED <<config, flags, plan, next, sessions, starts, late>>
        /\ Progress(completed', failed', repo') /\ (Retries \/ Records \/ GivesUp)
        /\ MemoryOK' /\ raised' \in {raised, TRUE}
    BY <1>2, Attempted
  <2>2. ControlOK'
    BY <1>1, <2>1 DEF ControlOK, PCs, States, Retries, Records, GivesUp
  <2>3. replan' \in BOOLEAN
    BY <1>1, <2>1, Zenon DEF FlagsOK, Retries, Records, GivesUp
  <2>4. FlagsOK'
    BY <1>1, <2>1, <2>3, Zenon DEF FlagsOK, flags
  <2>5. PlanOK' /\ ConfigOK'
    BY <1>1, <2>1 DEF PlanOK, ConfigOK, config
  <2>6. CountsOK'
    BY <1>1, <2>1, ConstantsAssumption DEF CountsOK, ConfigOK, config, Retries, Records, GivesUp
  <2>7. ListsOK' /\ RepoOK'
    BY <2>1 DEF Progress, ListsOK, RepoOK
  <2> QED BY <2>1, <2>2, <2>4, <2>5, <2>6, <2>7, TypesAre
<1>3. CASE Begins
  <2>1. ControlOK' /\ ListsOK'
    BY <1>3, BeginFrame DEF ControlOK, PCs, States, ListsOK
  <2>2. FlagsOK'
    BY <1>1, <1>3, BeginFrame, Zenon DEF FlagsOK, flags
  <2>3. plan' \in Plans \cup {<<>>} /\ next' = 1
    BY <1>3, BeginFrame
  <2>4. Len(plan') \in Nat
    BY <2>3, ConstantsAssumption
  <2>5. PlanOK'
    BY <2>3, <2>4 DEF PlanOK
  <2>6. CountsOK' /\ ConfigOK' /\ RepoOK' /\ MemoryOK'
    BY <1>1, <1>3, BeginFrame, ConstantsAssumption DEF CountsOK, ConfigOK, RepoOK, MemoryOK, config
  <2> QED BY <2>1, <2>2, <2>5, <2>6, TypesAre
<1>4. CASE Adds
  <2>1. ControlOK' /\ ListsOK' /\ RepoOK' /\ PlanOK' /\ ConfigOK' /\ MemoryOK'
    BY <1>1, <1>4, AddFrame DEF ControlOK, PCs, States, ListsOK, RepoOK, PlanOK, ConfigOK, MemoryOK,
       config
  <2>2. FlagsOK'
    BY <1>1, <1>4, AddFrame, Zenon DEF FlagsOK, flags
  <2>3. CountsOK'
    BY <1>1, <1>4, AddFrame, ConstantsAssumption DEF CountsOK, ConfigOK, config
  <2> QED BY <2>1, <2>2, <2>3, TypesAre
<1>5. CASE Quiet
  <2>1. ListsOK' /\ RepoOK' /\ ConfigOK' /\ MemoryOK'
    BY <1>1, <1>5, QuietFrame DEF ListsOK, RepoOK, ConfigOK, MemoryOK, config
  <2>2. cancelled' \in BOOLEAN /\ paused' \in BOOLEAN
    BY <1>1, <1>5, Zenon DEF FlagsOK, Quiet, LoopCancelled, StopAtMaxGoals, End, AttemptCancelled,
       AttemptBegins, Call, Record, RecordRaises, Cancel, Pause, Resume, Unflagged, vars, flags
  <2>3. FlagsOK'
    BY <1>1, <1>5, <2>2, QuietFrame, Zenon DEF FlagsOK
  <2>4. ControlOK'
    BY <1>1, <1>5 DEF ControlOK, PCs, States, FinalState, Quiet, LoopCancelled, StopAtMaxGoals, End,
       AttemptCancelled, AttemptBegins, Call, Record, RecordRaises, Cancel, Pause, Resume, Unflagged,
       vars, session
  <2>5. next' = next \/ (next' = next + 1 /\ pc \in WithGoal)
    BY <1>5 DEF Quiet, LoopCancelled, StopAtMaxGoals, End, AttemptCancelled, AttemptBegins, Call,
       Record, RecordRaises, Cancel, Pause, Resume, Unflagged, vars, WithGoal, Trying
  <2>6. PlanOK'
    BY <1>1, <1>5, <2>5, QuietFrame, PlanIs DEF PlanOK, AllOK, AtHandInv
  <2>7. starts' \in Nat /\ late' \in Nat
    BY <1>1, <1>5 DEF CountsOK, Quiet, LoopCancelled, StopAtMaxGoals, End,
       AttemptCancelled, AttemptBegins, Call, Record, RecordRaises, Cancel, Pause, Resume, Unflagged,
       vars
  <2>8. CountsOK'
    BY <1>1, <1>5, <2>7, QuietFrame DEF CountsOK, config
  <2> QED BY <2>1, <2>3, <2>4, <2>6, <2>8, TypesAre
<1> QED BY <1>2, <1>3, <1>4, <1>5, StepKinds


-----------------------------------------------------------------------------
(* Each part of the invariant is kept                                      *)

LEMMA AtHandKept ==
  ASSUME AllOK, OneEach(repo), [Next]_vars
  PROVE  AtHandInv'
<1>1. CASE Attempt
  <2>1. /\ UNCHANGED <<plan, next>> /\ next =< Len(plan) /\ pc \in WithGoal
        /\ DOMAIN repo' = Stored
    BY <1>1, Attempted DEF Progress, WithGoal, Trying
  <2> QED BY <2>1 DEF AllOK, AtHandInv, Goal, Stored
<1>2. CASE Begins
  BY <1>2, BeginFrame DEF AtHandInv, WithGoal, Trying
<1>3. CASE Adds
  BY <1>3, AddFrame DEF AtHandInv, WithGoal, Trying, Goal, Stored
<1>4. CASE Quiet
  <2>1. pc' \in WithGoal => pc \in WithGoal /\ next' = next
    BY <1>4 DEF Quiet, LoopCancelled, StopAtMaxGoals, End, AttemptCancelled, AttemptBegins, Call,
       Record, RecordRaises, Cancel, Pause, Resume, Unflagged, vars, WithGoal, Trying
  <2> QED BY <1>4, <2>1, QuietFrame DEF AllOK, AtHandInv, Goal, Stored
<1> QED BY <1>1, <1>2, <1>3, <1>4, StepKinds

\* A goal is not listed before its result, unless a subscriber raised.
LEMMA NotYetListed ==
  ASSUME TypeOK, PassedInv, next =< Len(plan), pc = "loop" \/ (pc \in Trying /\ ~raised)
  PROVE  Goal \notin Listed
<1>1. PlanOK
  BY TypesAre
<1>2. next \in DOMAIN plan /\ Goal = <<"plan", plan[next]>> /\ DOMAIN plan \subseteq Nat
  BY <1>1, GoalAtHand, PlanIs
<1>3. pc \in InLoop
  BY DEF InLoop, WithGoal
<1>4. ASSUME NEW k \in DOMAIN plan, k < next
      PROVE  <<"plan", plan[k]>> # Goal
  BY <1>1, <1>2, <1>4, PlanIs
<1>5. ASSUME Goal \in Listed
      PROVE  FALSE
  <2>1. PICK k \in DOMAIN plan : /\ Goal = <<"plan", plan[k]>>
                                 /\ \/ k < next
                                    \/ k = next /\ (pc \in Trying => raised) /\ pc # "loop"
    BY <1>3, <1>5 DEF PassedInv
  <2> QED BY <1>4, <2>1
<1> QED BY <1>5

LEMMA PassedKept ==
  ASSUME AllOK, OneEach(repo), PassedInv, [Next]_vars
  PROVE  PassedInv'
<1>a. TypeOK /\ PlanOK /\ next \in Nat /\ DOMAIN plan \subseteq Nat
  BY TypesAre, PlanIs DEF AllOK
<1>1. CASE Attempt
  <2>1. /\ pc \in Trying /\ next =< Len(plan) /\ UNCHANGED <<plan, next>>
        /\ Progress(completed', failed', repo') /\ (Retries \/ Records \/ GivesUp)
        /\ raised' \in {raised, TRUE}
        /\ ~raised' /\ pc' = "attempting" => UNCHANGED <<completed, failed>>
    BY <1>1, Attempted DEF Trying, Records, Retries
  <2>2. pc \in InLoop /\ next \in DOMAIN plan /\ Goal = <<"plan", plan[next]>>
    BY <1>a, <2>1, GoalAtHand DEF InLoop, WithGoal
  <2>3. ASSUME NEW id \in Listed', pc' \in InLoop
        PROVE  \E k \in DOMAIN plan :
                 /\ id = <<"plan", plan[k]>>
                 /\ \/ k < next
                    \/ k = next /\ (pc' \in Trying => raised') /\ pc' # "loop"
    <3>1. pc' \in {"attempting", "recording"}
      BY <2>1, <2>3 DEF Retries, Records, GivesUp, InLoop, WithGoal, Trying
    <3>2. CASE id \in Listed
      <4>1. PICK k \in DOMAIN plan : /\ id = <<"plan", plan[k]>>
                                     /\ \/ k < next
                                        \/ k = next /\ (pc \in Trying => raised) /\ pc # "loop"
        BY <2>2, <3>2 DEF PassedInv
      <4>2. raised => raised'
        BY <2>1, Zenon
      <4>3. \/ k < next
            \/ k = next /\ (pc' \in Trying => raised')
        BY <2>1, <4>1, <4>2, Zenon
      <4>4. pc' # "loop"
        BY <3>1
      <4> QED BY <4>1, <4>3, <4>4
    <3>3. CASE id \notin Listed
      <4>1. id = Goal
        BY <2>1, <2>3, <3>3 DEF Progress, Listed
      <4>2. pc' \in Trying => raised'
        <5>1. pc' \in Trying => pc' = "attempting"
          BY <3>1 DEF Trying
        <5>2. UNCHANGED <<completed, failed>> => Listed' = Listed
          BY DEF Listed
        <5> QED BY <2>1, <2>3, <3>3, <5>1, <5>2
      <4> QED BY <2>2, <3>1, <4>1, <4>2
    <3> QED BY <3>2, <3>3
  <2> QED BY <2>1, <2>3 DEF PassedInv
<1>2. CASE Begins
  BY <1>2, BeginFrame DEF PassedInv, Listed
<1>3. CASE Adds
  <2>1. pc \in InLoop /\ pc = "loop" /\ UNCHANGED <<plan, next, completed, failed>>
    BY <1>3, AddFrame DEF InLoop
  <2>2. Listed' = Listed
    BY <2>1 DEF Listed
  <2>3. \A id \in Listed : \E k \in DOMAIN plan : id = <<"plan", plan[k]>> /\ k < next
    BY <2>1 DEF PassedInv
  <2> QED BY <2>1, <2>2, <2>3 DEF PassedInv
<1>4. CASE Quiet
  <2>1. Listed' = Listed /\ plan' = plan /\ raised' = raised
    BY <1>4, QuietFrame DEF Listed
  <2>2. pc' \in InLoop =>
          /\ pc \in InLoop
          /\ \/ next' = next /\ (pc = "loop" <=> pc' = "loop") /\ (pc \in Trying <=> pc' \in Trying)
             \/ next' = next + 1 /\ pc' = "loop"
    BY <1>4 DEF Quiet, LoopCancelled, StopAtMaxGoals, End, AttemptCancelled, AttemptBegins, Call,
       Record, RecordRaises, Cancel, Pause, Resume, Unflagged, vars, InLoop, WithGoal, Trying
  <2>3. ASSUME NEW id \in Listed, pc' \in InLoop
        PROVE  \E k \in DOMAIN plan :
                 /\ id = <<"plan", plan[k]>>
                 /\ \/ k < next'
                    \/ k = next' /\ (pc' \in Trying => raised) /\ pc' # "loop"
    <3>1. PICK k \in DOMAIN plan : /\ id = <<"plan", plan[k]>>
                                   /\ \/ k < next
                                      \/ k = next /\ (pc \in Trying => raised) /\ pc # "loop"
      BY <2>2, <2>3 DEF PassedInv
    <3> QED BY <1>a, <2>2, <2>3, <3>1
  <2> QED BY <2>1, <2>3 DEF PassedInv
<1> QED BY <1>1, <1>2, <1>3, <1>4, StepKinds

LEMMA CoveredKept ==
  ASSUME AllOK, OneEach(repo), CoveredInv, [Next]_vars
  PROVE  CoveredInv'
<1>a. TypeOK /\ PlanOK /\ next \in Nat /\ DOMAIN plan \subseteq Nat
  BY TypesAre, PlanIs DEF AllOK
<1>1. CASE Attempt
  <2>1. /\ pc \in Trying /\ UNCHANGED <<plan, next, flags>>
        /\ Progress(completed', failed', repo') /\ (Retries \/ Records \/ GivesUp)
    BY <1>1, Attempted DEF Trying
  <2>2. Listed \subseteq Listed' /\ Goal' = Goal /\ (pc' = "recording" => Goal \in Listed')
    BY <2>1 DEF Progress, Listed, Goal, Retries, Records, GivesUp
  <2>3. pc \in InLoop /\ cancelled' = cancelled
    BY <2>1 DEF InLoop, WithGoal, flags
  <2> QED BY <2>1, <2>2, <2>3 DEF CoveredInv
<1>2. CASE Begins
  <2>1. /\ pc' \in {"loop", "finished"} /\ next' = 1
        /\ pc' = "loop" => plan' \in Plans
    BY <1>2, BeginFrame
  <2>2. pc' = "loop" => \A k \in DOMAIN plan' : k \in Nat /\ ~(k < next')
    <3>1. \A p \in Plans : DOMAIN p = 1..Len(p)
      BY ConstantsAssumption
    <3>2. \A p \in Plans : Len(p) \in Nat
      BY ConstantsAssumption
    <3> QED BY <2>1, <3>1, <3>2
  <2> QED BY <2>1, <2>2 DEF CoveredInv, InLoop, WithGoal, Trying
<1>3. CASE Adds
  BY <1>3, AddFrame DEF CoveredInv, InLoop, Listed, flags
<1>4. CASE Quiet
  <2>1. Listed' = Listed /\ plan' = plan
    BY <1>4, QuietFrame DEF Listed
  <2>2. pc' \in InLoop =>
          /\ pc \in InLoop
          /\ \/ next' = next
             \/ next' = next + 1 /\ (cancelled' \/ pc = "recording")
    BY <1>4 DEF Quiet, LoopCancelled, StopAtMaxGoals, End, AttemptCancelled, AttemptBegins, Call,
       Record, RecordRaises, Cancel, Pause, Resume, Unflagged, vars, InLoop, WithGoal, Trying, flags
  <2>3. cancelled => cancelled'
    BY <1>4 DEF Quiet, LoopCancelled, StopAtMaxGoals, End, AttemptCancelled, AttemptBegins, Call,
       Record, RecordRaises, Cancel, Pause, Resume, Unflagged, vars, flags
  <2>4. pc' = "recording" => pc = "recording" /\ next' = next
    BY <1>4 DEF Quiet, LoopCancelled, StopAtMaxGoals, End, AttemptCancelled, AttemptBegins, Call,
       Record, RecordRaises, Cancel, Pause, Resume, Unflagged, vars
  <2>5. ASSUME pc' \in InLoop, ~cancelled', NEW k \in DOMAIN plan, k < next'
        PROVE  <<"plan", plan[k]>> \in Listed
    <3>1. CASE next' = next
      BY <2>2, <2>3, <2>5, <3>1 DEF CoveredInv
    <3>2. CASE next' = next + 1 /\ pc = "recording"
      <4>1. k < next \/ k = next
        BY <1>a, <2>5, <3>2
      <4> QED BY <2>2, <2>3, <2>5, <3>2, <4>1 DEF CoveredInv, Goal
    <3> QED BY <2>2, <2>5, <3>1, <3>2
  <2> QED BY <2>1, <2>4, <2>5 DEF CoveredInv, Goal
<1> QED BY <1>1, <1>2, <1>3, <1>4, StepKinds


LEMMA RunningKept ==
  ASSUME AllOK, OneEach(repo), RunningInv, [Next]_vars
  PROVE  RunningInv'
<1>1. CASE Attempt
  <2>1. pc \in InLoop /\ (Retries \/ Records \/ GivesUp)
    BY <1>1, Attempted DEF InLoop, WithGoal, Trying
  <2> QED BY <2>1 DEF RunningInv, Retries, Records, GivesUp, InLoop, WithGoal, Trying
<1>2. CASE Begins
  BY <1>2, BeginFrame DEF RunningInv, InLoop, WithGoal, Trying
<1>3. CASE Adds
  BY <1>3, AddFrame DEF RunningInv, InLoop, WithGoal, Trying
<1>4. CASE Quiet
  <2>1. MaxGoalsReached' <=> MaxGoalsReached
    BY <1>4, QuietFrame DEF MaxGoalsReached, config
  <2>2. pc' \in InLoop => pc \in InLoop /\ state' \in {state, "replanning"}
    BY <1>4 DEF Quiet, LoopCancelled, StopAtMaxGoals, End, AttemptCancelled, AttemptBegins, Call,
       Record, RecordRaises, Cancel, Pause, Resume, Unflagged, vars, session, InLoop, WithGoal, Trying
  <2>3. pc' = "ending" => \/ pc = "ending" /\ state' = state /\ (cancelled => cancelled')
                          \/ cancelled' /\ state' = "cancelled"
                          \/ MaxGoalsReached
    BY <1>4 DEF Quiet, LoopCancelled, StopAtMaxGoals, End, AttemptCancelled, AttemptBegins, Call,
       Record, RecordRaises, Cancel, Pause, Resume, Unflagged, vars, session, flags
  <2> QED BY <2>1, <2>2, <2>3 DEF RunningInv
<1> QED BY <1>1, <1>2, <1>3, <1>4, StepKinds

LEMMA CountedKept ==
  ASSUME AllOK, OneEach(repo), CountedInv, [Next]_vars
  PROVE  CountedInv'
<1>a. attempt \in Nat /\ starts \in Nat /\ ReviewLimit \in Nat
  BY TypesAre, ConstantsAssumption DEF AllOK, CountsOK
<1>1. CASE Attempt
  <2>1. starts' = starts /\ (Retries \/ Records \/ GivesUp)
    BY <1>1, Attempted
  <2> QED BY <1>a, <2>1 DEF CountedInv, Retries, Records, GivesUp
<1>2. CASE Begins
  BY <1>a, <1>2, BeginFrame DEF CountedInv
<1>3. CASE Adds
  BY <1>a, <1>3, AddFrame DEF CountedInv
<1>4. CASE Quiet
  <2>1. attempt' = attempt
    BY <1>4, QuietFrame
  <2>2. \/ starts' = starts /\ (pc' \in {"attempting", "calling"} => pc \in {"attempting", "calling"})
        \/ starts' = starts + 1 /\ pc = "calling" /\ pc' = "executing"
    BY <1>4 DEF Quiet, LoopCancelled, StopAtMaxGoals, End, AttemptCancelled, AttemptBegins, Call,
       Record, RecordRaises, Cancel, Pause, Resume, Unflagged, vars
  <2> QED BY <1>a, <2>1, <2>2 DEF CountedInv
<1> QED BY <1>1, <1>2, <1>3, <1>4, StepKinds

LEMMA LateKept ==
  ASSUME AllOK, OneEach(repo), LateInv, [Next]_vars
  PROVE  LateInv'
<1>1. CASE Attempt
  <2>1. late' = late /\ pc' # "calling" /\ cancelled' = cancelled
    BY <1>1, Attempted DEF Retries, Records, GivesUp, flags
  <2> QED BY <2>1 DEF LateInv
<1>2. CASE Begins
  BY <1>2, BeginFrame DEF LateInv
<1>3. CASE Adds
  <2>1. late' = late /\ pc' # "calling" /\ cancelled' = cancelled
    BY <1>3, AddFrame DEF flags
  <2> QED BY <2>1 DEF LateInv
<1>4. CASE Quiet
  <2>1. \/ late' = late /\ (pc' = "calling" => pc = "calling" \/ ~cancelled)
        \/ late' = late + 1 /\ pc = "calling" /\ cancelled /\ pc' = "executing"
        \/ late' = late + 0 /\ pc = "calling" /\ pc' = "executing"
    BY <1>4 DEF Quiet, LoopCancelled, StopAtMaxGoals, End, AttemptCancelled, AttemptBegins, Call,
       Record, RecordRaises, Cancel, Pause, Resume, Unflagged, vars
  <2>2. cancelled => cancelled'
    BY <1>4 DEF Quiet, LoopCancelled, StopAtMaxGoals, End, AttemptCancelled, AttemptBegins, Call,
       Record, RecordRaises, Cancel, Pause, Resume, Unflagged, vars, flags
  <2> QED BY <2>1, <2>2 DEF LateInv
<1> QED BY <1>1, <1>2, <1>3, <1>4, StepKinds

\* A session that ends as completed was not cancelled: the loop broke off at
\* the limit or passed the whole plan.
LEMMA CompletionKept ==
  ASSUME AllOK, OneEach(repo), RunningInv, CoveredInv, CancelledIsNotCompleted, [Next]_vars
  PROVE  CancelledIsNotCompleted'
<1>a. PlanOK /\ pc \in PCs
  BY TypesAre DEF AllOK, ControlOK
<1>1. CASE Attempt
  <2>1. Retries \/ Records \/ GivesUp
    BY <1>1, Attempted
  <2> QED BY <2>1 DEF CancelledIsNotCompleted, Retries, Records, GivesUp
<1>2. CASE Begins
  <2>1. pc' = "finished" => DOMAIN plan' = {}
    BY <1>2, BeginFrame
  <2>2. pc' # "finished" => pc' = "loop"
    BY <1>2, BeginFrame
  <2> QED BY <2>1, <2>2 DEF CancelledIsNotCompleted
<1>3. CASE Adds
  BY <1>3, AddFrame DEF CancelledIsNotCompleted
<1>4. CASE Quiet
  <2>1. /\ MaxGoalsReached' <=> MaxGoalsReached
        /\ completed' = completed /\ failed' = failed /\ plan' = plan /\ Listed' = Listed
    BY <1>4, QuietFrame DEF MaxGoalsReached, config, Listed
  <2>2. CASE End
    <3>1. pc = "ending" \/ (pc = "loop" /\ next > Len(plan))
      BY <2>2 DEF End
    <3>2. state' = IF cancelled THEN state ELSE "completed"
      BY <2>2 DEF End, FinalState
    <3>3. CASE pc = "ending"
      BY <2>1, <3>2, <3>3 DEF RunningInv, CancelledIsNotCompleted
    <3>4. CASE pc = "loop" /\ next > Len(plan)
      <4>1. cancelled => state' # "completed"
        BY <3>2, <3>4 DEF RunningInv, InLoop
      <4>2. ~cancelled => \A k \in DOMAIN plan : <<"plan", plan[k]>> \in Listed
        <5>1. \A k \in DOMAIN plan : k < next
          BY <1>a, <3>4, PlanIs
        <5> QED BY <3>4, <5>1 DEF CoveredInv, InLoop
      <4> QED BY <2>1, <4>1, <4>2 DEF CancelledIsNotCompleted, Listed
    <3> QED BY <3>1, <3>3, <3>4
  <2>3. CASE ~End
    <3>1. pc' = "finished" /\ state' = "completed" => pc = "finished" /\ state = "completed"
      BY <1>4, <2>3 DEF Quiet, LoopCancelled, StopAtMaxGoals, AttemptCancelled, AttemptBegins, Call,
         Record, RecordRaises, Cancel, Pause, Resume, Unflagged, vars, session
    <3> QED BY <2>1, <3>1 DEF CancelledIsNotCompleted
  <2> QED BY <2>2, <2>3
<1> QED BY <1>1, <1>2, <1>3, <1>4, StepKinds


-----------------------------------------------------------------------------
(* The accounts are kept                                                   *)

LEMMA TitlesAreOneEach == (TitlesUnique <=> OneEach(repo)) /\ (TitlesUnique' <=> OneEach(repo'))
  BY DEF TitlesUnique, OneEach, Stored

LEMMA TitlesKept ==
  ASSUME AllOK, OneEach(repo), [Next]_vars
  PROVE  OneEach(repo')
<1>1. CASE Attempt
  BY <1>1, Attempted DEF Progress, OneEach, Stored
<1>2. CASE Begins
  BY <1>2, BeginFrame
<1>3. CASE Adds
  BY <1>3, AddFrame
<1>4. CASE Quiet
  BY <1>4, QuietFrame
<1> QED BY <1>1, <1>2, <1>3, <1>4, StepKinds

LEMMA EndedKept ==
  ASSUME AllOK, OneEach(repo), PassedInv, ListedHasEnded, [Next]_vars
  PROVE  ListedHasEnded'
<1>a. ListedHasEnded <=> \A id \in Listed : id \in Stored /\ repo[id] # "todo"
  BY DEF ListedHasEnded, Listed
<1>b. ListedHasEnded' <=> \A id \in Listed' : id \in DOMAIN repo' /\ repo'[id] # "todo"
  BY DEF ListedHasEnded, Listed, Stored
<1>1. CASE Attempt
  <2>1. Progress(completed', failed', repo') /\ Goal \in Stored
    BY <1>1, Attempted DEF AllOK, AtHandInv, WithGoal, Trying
  <2>2. ASSUME NEW id \in Listed'
        PROVE  id \in DOMAIN repo' /\ repo'[id] # "todo"
    <3>1. id \in Listed \/ (id = Goal /\ repo'[Goal] # "todo")
      BY <2>1, <2>2 DEF Progress, Listed
    <3> QED BY <1>a, <2>1, <3>1 DEF Progress
  <2> QED BY <1>b, <2>2
<1>2. CASE Begins
  <2>1. Listed' = {}
    BY <1>2, BeginFrame DEF Listed
  <2> QED BY <1>b, <2>1
<1>3. CASE Adds
  <2>1. Goal \notin Listed
    BY <1>3, AddFrame, NotYetListed DEF AllOK
  <2>2. Listed' = Listed
    BY <1>3, AddFrame DEF Listed
  <2> QED BY <1>3, <1>a, <1>b, <2>1, <2>2, AddFrame
<1>4. CASE Quiet
  <2>1. Listed' = Listed /\ repo' = repo
    BY <1>4, QuietFrame DEF Listed
  <2> QED BY <1>a, <1>b, <2>1 DEF Stored
<1> QED BY <1>1, <1>2, <1>3, <1>4, StepKinds

LEMMA OnceKept ==
  ASSUME AllOK, OneEach(repo), PassedInv, GoalsEndOnce, [Next]_vars
  PROVE  GoalsEndOnce'
<1>1. CASE Attempt
  <2>0. pc \in Trying /\ next =< Len(plan) /\ raised' \in {raised, TRUE}
    BY <1>1, Attempted DEF Trying
  <2>a. raised => raised'
    BY <2>0, Zenon
  <2>1. pc \in Trying /\ next =< Len(plan) /\ (raised => raised')
    BY <2>0, <2>a
  <2>2. ASSUME ~raised'
        PROVE  IsInjective(completed' \o failed')
    <3>1. ListsOK /\ Goal \in GoalId
      BY <2>1, TypesAre, GoalAtHand DEF AllOK
    <3>2. Goal \notin ToSet(completed \o failed)
      BY <2>1, <2>2, NotYetListed DEF AllOK, Listed
    <3>3. IsInjective(completed \o failed)
      BY <2>1, <2>2 DEF GoalsEndOnce
    <3>4. /\ IsInjective(Append(completed, Goal) \o failed)
          /\ IsInjective(completed \o Append(failed, Goal))
      BY <3>1, <3>2, <3>3, StillOnce DEF ListsOK
    <3>5. \/ completed' = completed /\ failed' = failed
          \/ completed' = Append(completed, Goal) /\ failed' = failed
          \/ completed' = completed /\ failed' = Append(failed, Goal)
      BY <1>1, <2>2, Attempted
    <3> QED BY <3>3, <3>4, <3>5
  <2> QED BY <2>2 DEF GoalsEndOnce
<1>2. CASE Begins
  BY <1>2, BeginFrame DEF GoalsEndOnce
<1>3. CASE Adds
  BY <1>3, AddFrame DEF GoalsEndOnce
<1>4. CASE Quiet
  BY <1>4, QuietFrame DEF GoalsEndOnce
<1> QED BY <1>1, <1>2, <1>3, <1>4, StepKinds

LEMMA AgreesKept ==
  ASSUME AllOK, OneEach(repo), PassedInv, ManagerAgrees, [Next]_vars
  PROVE  ManagerAgrees'
<1> DEFINE Agrees(c, f, r) ==
      /\ \A id \in ToSet(c) : id \in DOMAIN r /\ r[id] = "done"
      /\ \A id \in ToSet(f) : id \in DOMAIN r /\ r[id] = "blocked"
<1>a. /\ ManagerAgrees <=> raised \/ Agrees(completed, failed, repo)
      /\ ManagerAgrees' <=> raised' \/ Agrees(completed', failed', repo')
  BY DEF ManagerAgrees, Stored
<1>b. ListsOK
  BY TypesAre DEF AllOK
<1>c. Listed = ToSet(completed) \cup ToSet(failed)
  BY <1>b, Together DEF Listed, ListsOK
<1>1. CASE Attempt
  <2>0. /\ pc \in Trying /\ pc \in WithGoal /\ next =< Len(plan) /\ raised' \in {raised, TRUE}
        /\ Progress(completed', failed', repo')
    BY <1>1, Attempted DEF Trying, WithGoal
  <2>a. raised => raised'
    BY <2>0, Zenon
  <2>1. /\ pc \in Trying /\ pc \in WithGoal /\ next =< Len(plan) /\ (raised => raised')
        /\ Progress(completed', failed', repo')
    BY <2>0, <2>a
  <2>2. ASSUME ~raised'
        PROVE  Agrees(completed', failed', repo')
    <3>1. Goal \in GoalId /\ Goal \in Stored
      BY <2>1, TypesAre, GoalAtHand DEF AllOK, AtHandInv
    <3>2. Goal \notin Listed
      BY <2>1, <2>2, NotYetListed DEF AllOK
    <3>3. Agrees(completed, failed, repo)
      BY <1>a, <2>1, <2>2
    <3>4. /\ DOMAIN repo' = Stored /\ \A id \in Stored : id # Goal => repo'[id] = repo[id]
      BY <2>1 DEF Progress
    <3>5. /\ ToSet(Append(completed, Goal)) = ToSet(completed) \cup {Goal}
          /\ ToSet(Append(failed, Goal)) = ToSet(failed) \cup {Goal}
      BY <1>b, <3>1, OneMore DEF ListsOK
    <3>6. Agrees(completed, failed, repo')
      BY <1>c, <3>2, <3>3, <3>4 DEF Stored
    <3>7. \/ completed' = completed /\ failed' = failed
          \/ completed' = Append(completed, Goal) /\ failed' = failed /\ repo'[Goal] = "done"
          \/ completed' = completed /\ failed' = Append(failed, Goal) /\ repo'[Goal] = "blocked"
      BY <1>1, <2>2, Attempted
    <3> QED BY <3>1, <3>4, <3>5, <3>6, <3>7
  <2> QED BY <1>a, <2>2
<1>2. CASE Begins
  <2>0. DOMAIN <<>> = {}
    OBVIOUS
  <2>1. completed' = <<>> /\ failed' = <<>> /\ ToSet(<<>>) = {}
    BY <1>2, <2>0, BeginFrame DEF ToSet
  <2> QED BY <1>a, <2>1
<1>3. CASE Adds
  <2>1. Goal \notin Listed
    BY <1>3, AddFrame, NotYetListed DEF AllOK
  <2>2. Agrees(completed, failed, repo) => Agrees(completed, failed, repo')
    BY <1>3, <1>c, <2>1, AddFrame DEF Stored
  <2>3. completed' = completed /\ failed' = failed /\ raised' = raised
    BY <1>3, AddFrame
  <2> QED BY <1>a, <2>2, <2>3
<1>4. CASE Quiet
  <2>1. completed' = completed /\ failed' = failed /\ raised' = raised /\ repo' = repo
    BY <1>4, QuietFrame
  <2> QED BY <1>a, <2>1
<1> QED BY <1>1, <1>2, <1>3, <1>4, StepKinds

-----------------------------------------------------------------------------
(* The theorems                                                            *)

LEMMA InitHolds == Init => IInv
<1> SUFFICES ASSUME Init
             PROVE  IInv
  OBVIOUS
<1>1. /\ maxRetries \in RetryLimits /\ maxGoals \in GoalLimits
      /\ pc = "idle" /\ state = "pending"
      /\ cancelled = FALSE /\ paused = FALSE /\ replan = FALSE /\ raised = FALSE
      /\ plan = <<>> /\ next = 1 /\ attempt = 0
      /\ completed = <<>> /\ failed = <<>> /\ repo = <<>>
      /\ memory \in [Titles -> {"none", "good", "bad"}]
      /\ sessions = 0 /\ starts = 0 /\ late = 0
  BY DEF Init
<1>2. Listed = {} /\ ToSet(completed) = {} /\ ToSet(failed) = {} /\ IsInjective(completed \o failed)
  <2>1. DOMAIN (<<>> \o <<>>) = {} /\ DOMAIN <<>> = {}
    OBVIOUS
  <2> QED BY <1>1, <2>1 DEF Listed, ToSet, IsInjective
<1>3. TypeOK
  <2>1. ControlOK /\ ConfigOK /\ ListsOK /\ MemoryOK
    BY <1>1 DEF ControlOK, ConfigOK, ListsOK, MemoryOK, PCs, States
  <2>2. FlagsOK
    BY <1>1, Zenon DEF FlagsOK
  <2>3. PlanOK
    BY <1>1 DEF PlanOK
  <2>4. maxRetries \in Nat /\ MaxSessions \in Nat
    BY <1>1, ConstantsAssumption
  <2>5. CountsOK
    BY <1>1, <2>4 DEF CountsOK
  <2>6. RepoOK
    BY <1>1 DEF RepoOK, Goals
  <2> QED BY <2>1, <2>2, <2>3, <2>5, <2>6, TypesAre
<1>4. GoalsEndOnce /\ ManagerAgrees /\ ListedHasEnded /\ TitlesUnique
  BY <1>1, <1>2 DEF GoalsEndOnce, ManagerAgrees, ListedHasEnded, TitlesUnique, Stored, Listed
<1>5. /\ CancelledIsNotCompleted /\ RunningInv /\ AtHandInv /\ PassedInv /\ CoveredInv /\ LateInv
  BY <1>1 DEF CancelledIsNotCompleted, RunningInv, AtHandInv, PassedInv, CoveredInv, LateInv,
     InLoop, WithGoal, Trying
<1>6. CountedInv
  BY <1>1, ConstantsAssumption DEF CountedInv
<1> QED BY <1>3, <1>4, <1>5, <1>6 DEF IInv, GoalsAreAccountedFor

LEMMA Inductive == IInv /\ [Next]_vars => IInv'
<1> SUFFICES ASSUME IInv, [Next]_vars
             PROVE  IInv'
  OBVIOUS
<1>1. /\ AllOK /\ OneEach(repo)
      /\ GoalsEndOnce /\ ManagerAgrees /\ ListedHasEnded /\ CancelledIsNotCompleted
      /\ RunningInv /\ PassedInv /\ CoveredInv /\ CountedInv /\ LateInv
  BY TitlesAreOneEach DEF IInv, GoalsAreAccountedFor, AllOK
<1>2. TypeOK' /\ AtHandInv' /\ OneEach(repo')
  BY <1>1, TypesKept, AtHandKept, TitlesKept
<1>3. GoalsEndOnce' /\ ManagerAgrees' /\ ListedHasEnded' /\ CancelledIsNotCompleted'
  BY <1>1, OnceKept, AgreesKept, EndedKept, CompletionKept
<1>4. RunningInv' /\ PassedInv' /\ CoveredInv' /\ CountedInv' /\ LateInv'
  BY <1>1, RunningKept, PassedKept, CoveredKept, CountedKept, LateKept
<1>5. TitlesUnique'
  BY <1>2, TitlesAreOneEach
<1> QED BY <1>2, <1>3, <1>4, <1>5 DEF IInv, GoalsAreAccountedFor

\* Whatever the executor answers, whoever cancels, pauses and resumes in between and whichever
\* subscriber raises, run keeps the loop's inductive invariant.
THEOREM Invariant == Spec => []IInv
  BY InitHolds, Inductive, PTL DEF Spec

\* Each goal that run executes ends once, across retries, merged memories and sessions, and
\* the session and the goal manager agree how, unless a subscriber raised.
THEOREM Accounted == Spec => []GoalsAreAccountedFor
<1>1. IInv => GoalsAreAccountedFor
  BY DEF IInv
<1> QED BY <1>1, Invariant, PTL

\* _execute_goal calls the executor no more often than RetryPolicy and Reviewer allow, and at
\* most once after a cancel.
THEOREM Bounded == Spec => []WorkIsBounded
<1>1. IInv => WorkIsBounded
  <2> SUFFICES ASSUME IInv
               PROVE  WorkIsBounded
    OBVIOUS
  <2>1. /\ attempt \in 0..maxRetries /\ starts \in Nat /\ maxRetries \in Nat /\ ReviewLimit \in Nat
        /\ CountedInv /\ LateInv
    BY TypesAre, ConstantsAssumption DEF IInv, GoalsAreAccountedFor, CountsOK, ConfigOK
  <2> QED BY <2>1 DEF WorkIsBounded, AttemptsBounded, CancelStopsWork, CountedInv, LateInv
<1> QED BY <1>1, Invariant, PTL

\* A session that run leaves as completed passed its whole plan, or broke off at max_goals;
\* one that was cancelled in between does not say so.
THEOREM Completed == Spec => []CancelledIsNotCompleted
<1>1. IInv => CancelledIsNotCompleted
  BY DEF IInv
<1> QED BY <1>1, Invariant, PTL

=============================================================================
