--------------------------- MODULE Mission_proofs ---------------------------
(***************************************************************************)
(* Proofs about missions and the agents that patch: whom a step is given   *)
(* to can be justified, what a model is shown of the project fits and is   *)
(* to the point, what a patch wrote over is in a backup, and what missions,*)
(* fixes and passes report is what happened, for every registry, host,     *)
(* project and reply of a model.                                           *)
(***************************************************************************)
EXTENDS Mission, SequenceTheorems, FiniteSetTheorems, WellFoundedInduction, TLAPS

-----------------------------------------------------------------------------
(* The least of a set of numbers, and the first of the best                *)

LEMMA Least ==
  ASSUME NEW S \in SUBSET Nat, S # {}
  PROVE  Min(S) \in S /\ \A x \in S : Min(S) <= x
<1>1. PICK x \in S : \A y \in Nat : <<y, x>> \in OpToRel(<, Nat) => y \notin S
  BY NatLessThanWellFounded, WFMin
<1>2. \A y \in S : x <= y
  <2>1. \A y \in S : ~(y < x)
    BY <1>1 DEF OpToRel
  <2> QED BY <2>1
<1> QED BY <1>1, <1>2 DEF Min

FirstOfBest(C, f, i) == i \in C /\ \A j \in C \ {i} : f[i] > f[j] \/ (f[i] = f[j] /\ i < j)

\* Among finitely many places some one is the first of the best.
LEMMA BestExists ==
  ASSUME NEW n \in Nat, NEW C \in SUBSET (1..n), C # {}, NEW f \in [C -> Int]
  PROVE  \E i \in C : FirstOfBest(C, f, i)
<1> DEFINE D(m) == C \cap (1..m)
           Bad == {m \in 0..n : D(m) # {} /\ ~\E i \in D(m) : FirstOfBest(D(m), f, i)}
<1> SUFFICES ASSUME ~\E i \in C : FirstOfBest(C, f, i)
             PROVE  FALSE
  OBVIOUS
<1>1. D(n) = C
  OBVIOUS
<1>2. n \in Bad
  BY <1>1
<1>3. PICK m \in Bad : \A k \in Bad : m <= k
  <2>1. \A k \in Bad : k \in Nat
    <3> HIDE DEF D
    <3> QED OBVIOUS
  <2> HIDE DEF Bad
  <2>2. Bad \in SUBSET Nat /\ Bad # {}
    BY <1>2, <2>1
  <2> QED BY <2>2, Least
<1>4. m \in 1..n
  <2>1. D(m) # {} /\ m \in 0..n
    OBVIOUS
  <2>3. D(0) = {}
    OBVIOUS
  <2> HIDE DEF D, Bad
  <2>2. m # 0
    BY <2>1, <2>3
  <2> QED BY <2>1, <2>2
<1>5. m - 1 \in 0..n /\ m - 1 \notin Bad
  <2> HIDE DEF Bad
  <2> QED BY <1>3, <1>4
<1>6. D(m) # {} /\ ~\E i \in D(m) : FirstOfBest(D(m), f, i)
  OBVIOUS
<1>7. D(m) = IF m \in C THEN D(m - 1) \cup {m} ELSE D(m - 1)
  BY <1>4
<1>8. \A i \in D(m - 1) : i \in Nat /\ i < m /\ f[i] \in Int
  BY <1>4
<1>9. m \notin D(m - 1)
  BY <1>8
<1>10. CASE D(m - 1) = {}
  <2>1. D(m) = {m}
    BY <1>6, <1>7, <1>10
  <2> QED BY <1>6, <2>1 DEF FirstOfBest
<1>11. CASE D(m - 1) # {}
  <2>1. PICK b \in D(m - 1) : FirstOfBest(D(m - 1), f, b)
    BY <1>5, <1>11
  <2>2. m \in C /\ D(m) = D(m - 1) \cup {m}
    BY <1>6, <1>7, <2>1
  <2>3. f[m] \in Int /\ f[b] \in Int /\ b < m
    BY <1>8, <2>2
  <2> HIDE DEF D
  <2>4. CASE f[m] > f[b]
    <3>1. ASSUME NEW j \in D(m) \ {m}
          PROVE  f[m] > f[j]
      <4>1. j \in D(m - 1) /\ f[j] \in Int /\ (j = b \/ f[b] >= f[j])
        BY <1>8, <2>1, <2>2, <2>3 DEF FirstOfBest
      <4> QED BY <2>3, <2>4, <4>1
    <3> QED BY <1>6, <2>2, <3>1 DEF FirstOfBest
  <2>5. CASE ~(f[m] > f[b])
    <3>1. FirstOfBest(D(m), f, b)
      BY <2>1, <2>2, <2>3, <2>5 DEF FirstOfBest
    <3> QED BY <1>6, <2>2, <3>1
  <2> QED BY <2>4, <2>5
<1> QED BY <1>10, <1>11

-----------------------------------------------------------------------------
(* Routing                                                                 *)

Entry == [name : STRING, kind : STRING, cost : Int, priority : Int]
Penalty(agent, action) ==
  CASE action = "defer" -> 100
    [] action = "reduce" /\ EstimateCost(agent) > 2 -> 5 * (EstimateCost(agent) - 2)
    [] OTHER -> 0

\* Two agents' scores differ by what their priorities and the machine make of them.
LEMMA ScoresAre ==
  ASSUME NEW m \in Missions, NEW action \in {"continue", "reduce", "defer"}
  PROVE  \E base \in Int : \A a \in Entry :
           /\ Priority(a, m) \in Int /\ EstimateCost(a) \in Int /\ Penalty(a, action) \in Nat
           /\ Score(a, m, action) = 10 * Priority(a, m) + base - Penalty(a, action)
<1> DEFINE bonus == 5 - Min({5, m.length \div 800})
           base == 10 * m.priority + 2 * bonus + 3
<1>1. m.length \in Nat /\ m.priority \in Int
  BY MissionsAssumption
<1>2. bonus \in Int
  <2>1. m.length \div 800 \in Nat
    BY <1>1
  <2>2. Min({5, m.length \div 800}) \in {5, m.length \div 800}
    BY <2>1, Least
  <2> QED BY <2>1, <2>2
<1>3. base \in Int
  <2> HIDE DEF bonus
  <2> QED BY <1>1, <1>2
<1>4. ASSUME NEW a \in Entry
      PROVE  /\ Priority(a, m) \in Int /\ EstimateCost(a) \in Int /\ Penalty(a, action) \in Nat
             /\ Score(a, m, action) = 10 * Priority(a, m) + base - Penalty(a, action)
  <2>1. a.cost \in Int /\ a.priority \in Int
    BY DEF Entry
  <2>2. Priority(a, m) \in Int /\ EstimateCost(a) \in Int
    BY <1>1, <2>1 DEF Priority, EstimateCost
  <2>3. Penalty(a, action) \in Nat
    BY <2>2 DEF Penalty
  <2>4. Score(a, m, action) = 10 * (Priority(a, m) + m.priority) + 2 * bonus + 3 - Penalty(a, action)
    BY DEF Score, Penalty
  <2> HIDE DEF bonus
  <2> QED BY <1>1, <1>2, <2>2, <2>3, <2>4
<1> HIDE DEF base
<1> QED BY <1>3, <1>4

\* A host that is pressed is reduced on or deferred, one that is not is not.
LEMMA PressedIs ==
  ASSUME NEW host \in Hosts, NEW length \in Nat
  PROVE  LET action == decide(snapshot(host), length)
         IN /\ action \in {"continue", "reduce", "defer"}
            /\ action = "reduce" => Pressed(host)
            /\ Pressed(host) /\ length <= 4000 => action = "reduce"
<1> DEFINE snap == snapshot(host)
           critical == snap.processes \cap Critical # {}
<1>1. host.disk \in Int /\ snap.disk = host.disk /\ snap.processes = ActiveProcesses(host)
  BY MissionsAssumption DEF snapshot
<1>2. critical <=> host.listed /\ \E p \in host.processes : ProcessName(host.quoted, p) \in Critical
  BY <1>1 DEF ActiveProcesses
<1>3. Busy(snap) <=> host.disk >= DiskBusy
  BY <1>1 DEF Busy, DiskBusy, Unknown
<1>4. Pressed(host) <=> critical \/ Busy(snap)
  BY <1>2, <1>3 DEF Pressed, ProcessName
<1>5. length <= 4000 => MissionCost(length) # "high"
  BY DEF MissionCost
<1> HIDE DEF snap, critical
<1>6. decide(snap, length) = CASE critical /\ MissionCost(length) = "high" -> "defer"
       [] (critical \/ Busy(snap)) /\ ~(critical /\ MissionCost(length) = "high") -> "reduce"
       [] OTHER -> "continue"
  BY DEF decide, critical
<1> QED BY <1>4, <1>5, <1>6 DEF snap

\* The first of the ranking has the best score.
LEMMA RankedIsBest ==
  ASSUME NEW agents \in Registries, NEW m \in Missions, NEW action \in {"continue", "reduce", "defer"},
         Capable(agents) # {}
  PROVE  LET best == FirstRanked(agents, m, action)
         IN /\ best \in Capable(agents)
            /\ \A j \in Capable(agents) : Score(agents[best], m, action) >= Score(agents[j], m, action)
<1> DEFINE C == Capable(agents)
           f == [i \in C |-> Score(agents[i], m, action)]
           best == FirstRanked(agents, m, action)
<1>1. agents \in Seq(Entry)
  BY MissionsAssumption DEF Entry
<1>2. C \in SUBSET (1..Len(agents)) /\ Len(agents) \in Nat
  BY <1>1 DEF Capable
<1>3. \A i \in C : agents[i] \in Entry
  BY <1>1, <1>2
<1>4. f \in [C -> Int]
  <2>1. PICK base \in Int : \A a \in Entry :
          /\ Priority(a, m) \in Int /\ Penalty(a, action) \in Nat
          /\ Score(a, m, action) = 10 * Priority(a, m) + base - Penalty(a, action)
    BY ScoresAre
  <2>2. \A a \in Entry : Score(a, m, action) \in Int
    BY <2>1
  <2> QED BY <1>3, <2>2
<1>5. \E i \in C : FirstOfBest(C, f, i)
  <2> HIDE DEF C, f
  <2> QED BY <1>2, <1>4, BestExists DEF C
<1>6. best \in C /\ FirstOfBest(C, f, best)
  <2>1. best = CHOOSE i \in C : \A j \in C \ {i} :
          \/ Score(agents[i], m, action) > Score(agents[j], m, action)
          \/ Score(agents[i], m, action) = Score(agents[j], m, action) /\ i < j
    BY DEF FirstRanked
  <2>2. \A i \in C : FirstOfBest(C, f, i) <=> \A j \in C \ {i} :
          \/ Score(agents[i], m, action) > Score(agents[j], m, action)
          \/ Score(agents[i], m, action) = Score(agents[j], m, action) /\ i < j
    BY DEF FirstOfBest
  <2> HIDE DEF C, f, best
  <2> QED BY <1>5, <2>1, <2>2
<1>7. ASSUME NEW j \in C
      PROVE  f[best] >= f[j]
  <2> HIDE DEF C, f, best
  <2>1. f[best] \in Int /\ f[j] \in Int
    BY <1>4, <1>6
  <2> QED BY <1>6, <2>1 DEF FirstOfBest
<1> QED BY <1>6, <1>7

\* Whom the dispatcher selects is one of the capable, and the first ranked if names tell them
\* apart.
LEMMA SelectedIs ==
  ASSUME NEW agents \in Registries, NEW m \in Missions, NEW snap,
         decide(snap, m.length) \in {"continue", "reduce", "defer"}, Capable(agents) # {}
  PROVE  LET best == FirstRanked(agents, m, decide(snap, m.length))
         IN /\ \E i \in Capable(agents) : Selected(agents, m, snap) = agents[i]
            /\ (\A i, j \in Capable(agents) : i # j => agents[i].name # agents[j].name)
                 => Selected(agents, m, snap) = agents[best]
<1> DEFINE best == FirstRanked(agents, m, decide(snap, m.length))
           named == {i \in Capable(agents) : agents[i].name = agents[best].name}
<1>1. best \in Capable(agents)
  BY RankedIsBest
<1> HIDE DEF best
<1>2. named \in SUBSET Nat /\ best \in named
  <2>1. agents \in Seq(Entry)
    BY MissionsAssumption DEF Entry
  <2>2. Capable(agents) \subseteq Nat
    BY <2>1 DEF Capable
  <2> QED BY <1>1, <2>2
<1>3. Min(named) \in named
  BY <1>2, Least
<1>4. Selected(agents, m, snap) = agents[Min(named)]
  BY DEF Selected, best
<1> HIDE DEF named
<1>5. (\A i, j \in Capable(agents) : i # j => agents[i].name # agents[j].name) => Min(named) = best
  BY <1>1, <1>3 DEF named
<1>6. Min(named) \in Capable(agents)
  BY <1>3 DEF named
<1> QED BY <1>4, <1>5, <1>6 DEF best

\* What RoutingIsJustified says of the choice of a capable agent.
Justified(chosen, agents, m, host) ==
  LET capable == {agents[i] : i \in Capable(agents)}
      unique == \A i, j \in Capable(agents) : i # j => agents[i].name # agents[j].name
      urgency(a) == Priority(a, m)
  IN /\ chosen \in capable
     /\ unique => \A a \in capable :
          /\ urgency(a) > urgency(chosen) => Pressed(host) /\ EstimateCost(a) > EstimateCost(chosen)
          /\ Pressed(host) /\ m.length <= 4000 /\ urgency(a) = urgency(chosen)
               => EstimateCost(chosen) <= 2 \/ EstimateCost(a) >= EstimateCost(chosen)

LEMMA JustifiedIs == RoutingIsJustified <=> (run.at = "execute" => Justified(run.agent, mission.agents, mission.of, run.host))
BY DEF RoutingIsJustified, Justified

\* The penalty of the dear is what an urgency less is made up by.
LEMMA PenaltiesAre ==
  ASSUME NEW a \in Entry, NEW c \in Entry, NEW action \in {"continue", "reduce", "defer"},
         EstimateCost(a) \in Int, EstimateCost(c) \in Int
  PROVE  /\ Penalty(a, action) > Penalty(c, action) => action = "reduce" /\ EstimateCost(a) > EstimateCost(c)
         /\ action = "reduce" /\ Penalty(a, action) >= Penalty(c, action)
              => EstimateCost(c) <= 2 \/ EstimateCost(a) >= EstimateCost(c)
BY DEF Penalty

LEMMA ChoiceIsJustified ==
  ASSUME NEW agents \in Registries, NEW m \in Missions, NEW host \in Hosts, Capable(agents) # {}
  PROVE  Justified(Selected(agents, m, snapshot(host)), agents, m, host)
<1> DEFINE action == decide(snapshot(host), m.length)
           best == FirstRanked(agents, m, action)
           chosen == Selected(agents, m, snapshot(host))
           capable == {agents[i] : i \in Capable(agents)}
<1>1. m.length \in Nat
  BY MissionsAssumption
<1>2. /\ action \in {"continue", "reduce", "defer"}
      /\ action = "reduce" => Pressed(host)
      /\ Pressed(host) /\ m.length <= 4000 => action = "reduce"
  BY <1>1, PressedIs
<1> HIDE DEF action
<1>3. chosen \in capable
  BY <1>2, SelectedIs DEF action
<1>4. \A a \in capable : a \in Entry
  <2>1. agents \in Seq(Entry)
    BY MissionsAssumption DEF Entry
  <2> QED BY <2>1 DEF Capable
<1>5. ASSUME \A i, j \in Capable(agents) : i # j => agents[i].name # agents[j].name,
             NEW a \in capable
      PROVE  /\ Priority(a, m) > Priority(chosen, m) => Pressed(host) /\ EstimateCost(a) > EstimateCost(chosen)
             /\ Pressed(host) /\ m.length <= 4000 /\ Priority(a, m) = Priority(chosen, m)
                  => EstimateCost(chosen) <= 2 \/ EstimateCost(a) >= EstimateCost(chosen)
  <2>1. chosen = agents[best]
    BY <1>2, <1>5, SelectedIs DEF action
  <2>2. Score(chosen, m, action) >= Score(a, m, action)
    BY <1>2, <2>1, RankedIsBest
  <2> HIDE DEF chosen, best, capable
  <2>3. a \in Entry /\ chosen \in Entry
    BY <1>3, <1>4
  <2>4. PICK base \in Int : \A e \in Entry :
          /\ Priority(e, m) \in Int /\ EstimateCost(e) \in Int /\ Penalty(e, action) \in Nat
          /\ Score(e, m, action) = 10 * Priority(e, m) + base - Penalty(e, action)
    BY <1>2, ScoresAre
  <2>5. 10 * Priority(chosen, m) - Penalty(chosen, action) >= 10 * Priority(a, m) - Penalty(a, action)
    BY <2>2, <2>3, <2>4
  <2>6. /\ Priority(a, m) > Priority(chosen, m) => Penalty(a, action) > Penalty(chosen, action)
        /\ Priority(a, m) = Priority(chosen, m) => Penalty(a, action) >= Penalty(chosen, action)
    BY <2>3, <2>4, <2>5
  <2> QED BY <1>2, <2>3, <2>4, <2>6, PenaltiesAre
<1> QED BY <1>3, <1>5 DEF Justified

-----------------------------------------------------------------------------
(* The steps, by what they leave alone                                     *)

LEMMA StepKinds ==
  ASSUME [Next]_vars
  PROVE  MissionStep \/ ((JobStep \/ PassStep \/ Tick \/ Edit) /\ UNCHANGED missionVars) \/ UNCHANGED vars
BY DEF Next

LEMMA MissionStepsAlone ==
  ASSUME MissionStep
  PROVE  UNCHANGED patchVars
BY DEF MissionStep, Plan, BeginStep, Choose, ShowToPatcher, StepCompletes, StepFails, Finalize, Running

\* The mission is of the same objective and registry throughout.
LEMMA RoutingKept ==
  ASSUME MissionTypeInv, RoutingIsJustified, [Next]_vars
  PROVE  RoutingIsJustified'
<1>0. /\ run.at = "execute" => Justified(run.agent, mission.agents, mission.of, run.host)
      /\ RoutingIsJustified' <=>
           (run'.at = "execute" => Justified(run'.agent, mission'.agents, mission'.of, run'.host))
  <2>1. RoutingIsJustified' <=>
           (run'.at = "execute" => Justified(run'.agent, mission'.agents, mission'.of, run'.host))
    BY DEF RoutingIsJustified, Justified
  <2> QED BY <2>1, JustifiedIs
<1>1. CASE Choose
  <2>1. mission.of \in Missions /\ mission.agents \in Registries /\ {"at", "agent", "host"} \subseteq DOMAIN run
    BY DEF MissionTypeInv
  <2>2. PICK host \in Hosts :
          run' = [run EXCEPT !.at = "execute", !.host = host,
                             !.agent = Selected(mission.agents, mission.of, snapshot(host))]
    BY <1>1 DEF Choose
  <2>3. /\ Capable(mission.agents) # {} /\ mission' = mission
        /\ run'.host = host /\ run'.agent = Selected(mission.agents, mission.of, snapshot(host))
    BY <1>1, <2>1, <2>2 DEF Choose
  <2> QED BY <1>0, <2>1, <2>3, ChoiceIsJustified
<1>2. CASE ~Choose /\ MissionStep
  <2>1. "at" \in DOMAIN run
    BY DEF MissionTypeInv
  <2>2. run'.at # "execute"
    BY <1>2, <2>1 DEF MissionStep, Plan, BeginStep, ShowToPatcher, StepCompletes, StepFails, Finalize, RunAt
  <2> QED BY <1>0, <2>2
<1>3. CASE UNCHANGED missionVars
  <2>1. run' = run /\ mission' = mission
    BY <1>3 DEF missionVars
  <2> QED BY <1>0, <2>1
<1>4. UNCHANGED vars => UNCHANGED missionVars
  BY DEF vars
<1> QED BY <1>1, <1>2, <1>3, <1>4, StepKinds

-----------------------------------------------------------------------------
(* The history of a run                                                    *)

Lines == [event : Events, step : Nat]
\* h ends with a run that came through n steps and ends as it says, at step c.
Tells(h, c, n, ending) ==
  \E p \in DOMAIN h :
    /\ h[p].event = "planning" /\ Len(h) = p + 2 * n + Len(ending)
    /\ \A k \in 1..n : /\ h[p + 2 * k - 1] = [event |-> "step_running", step |-> k]
                       /\ h[p + 2 * k] = [event |-> "step_validated", step |-> k]
    /\ \A k \in DOMAIN ending : h[p + 2 * n + k] = [event |-> ending[k], step |-> c]

LEMMA LastRunIs ==
  ASSUME NEW n, NEW ending
  PROVE  LastRun(n, ending) <=> Tells(history, mission.current, n, ending)
BY DEF LastRun, Tells

LEMMA OneMore ==
  ASSUME NEW h \in Seq(Lines), NEW e \in Lines
  PROVE  /\ Append(h, e) \in Seq(Lines) /\ Len(Append(h, e)) = Len(h) + 1 /\ Len(h) \in Nat
         /\ \A k \in 1..Len(h) : Append(h, e)[k] = h[k]
         /\ Append(h, e)[Len(h) + 1] = e
OBVIOUS

LEMMA TellsPlanned ==
  ASSUME NEW h \in Seq(Lines), NEW c \in Nat, NEW c2
  PROVE  Tells(Append(h, [event |-> "planning", step |-> c]), c2, 0, <<>>)
<1> DEFINE e == [event |-> "planning", step |-> c]
           p == Len(h) + 1
<1>1. e \in Lines
  BY DEF Lines, Events
<1>2. Append(h, e) \in Seq(Lines) /\ Len(Append(h, e)) = p /\ p \in Nat \ {0} /\ Append(h, e)[p] = e
  BY <1>1, OneMore
<1>3. p \in DOMAIN Append(h, e)
  BY <1>2
<1>4. DOMAIN <<>> = {} /\ Len(<<>>) = 0
  OBVIOUS
<1> HIDE DEF p
<1> QED BY <1>2, <1>3, <1>4 DEF Tells

\* A step begins, after n of them.
LEMMA TellsBegun ==
  ASSUME NEW h \in Seq(Lines), NEW c, NEW n \in Nat, Tells(h, c, n, <<>>)
  PROVE  Tells(Append(h, [event |-> "step_running", step |-> n + 1]), n + 1, n, <<"step_running">>)
<1> DEFINE e == [event |-> "step_running", step |-> n + 1]
           g == Append(h, e)
<1>1. PICK p \in DOMAIN h :
        /\ h[p].event = "planning" /\ Len(h) = p + 2 * n + Len(<<>>)
        /\ \A k \in 1..n : /\ h[p + 2 * k - 1] = [event |-> "step_running", step |-> k]
                           /\ h[p + 2 * k] = [event |-> "step_validated", step |-> k]
  BY DEF Tells
<1>2. e \in Lines
  BY DEF Lines, Events
<1>3. /\ g \in Seq(Lines) /\ Len(g) = Len(h) + 1 /\ Len(h) \in Nat
      /\ \A k \in 1..Len(h) : g[k] = h[k]
      /\ g[Len(h) + 1] = e
  BY <1>2, OneMore
<1>4. p \in 1..Len(h) /\ Len(h) = p + 2 * n /\ p \in DOMAIN g
  BY <1>1, <1>3
<1> HIDE DEF g
<1>5. \A k \in 1..n : p + 2 * k - 1 \in 1..Len(h) /\ p + 2 * k \in 1..Len(h)
  BY <1>4
<1>6. Len(<<"step_running">>) = 1 /\ DOMAIN <<"step_running">> = {1} /\ <<"step_running">>[1] = "step_running"
  OBVIOUS
<1>7. Len(g) = p + 2 * n + 1 /\ g[p + 2 * n + 1] = e
  BY <1>3, <1>4
<1> QED BY <1>1, <1>3, <1>4, <1>5, <1>6, <1>7, SMTT(60) DEF Tells, g

\* It is validated.
LEMMA TellsValidated ==
  ASSUME NEW h \in Seq(Lines), NEW n \in Nat, NEW c, Tells(h, n + 1, n, <<"step_running">>)
  PROVE  Tells(Append(h, [event |-> "step_validated", step |-> n + 1]), c, n + 1, <<>>)
<1> DEFINE e == [event |-> "step_validated", step |-> n + 1]
           g == Append(h, e)
<1>0. Len(<<"step_running">>) = 1 /\ DOMAIN <<"step_running">> = {1} /\ <<"step_running">>[1] = "step_running"
  OBVIOUS
<1>1. PICK p \in DOMAIN h :
        /\ h[p].event = "planning" /\ Len(h) = p + 2 * n + 1
        /\ \A k \in 1..n : /\ h[p + 2 * k - 1] = [event |-> "step_running", step |-> k]
                           /\ h[p + 2 * k] = [event |-> "step_validated", step |-> k]
        /\ h[p + 2 * n + 1] = [event |-> "step_running", step |-> n + 1]
  BY <1>0 DEF Tells
<1>2. e \in Lines
  BY DEF Lines, Events
<1>3. /\ g \in Seq(Lines) /\ Len(g) = Len(h) + 1 /\ Len(h) \in Nat
      /\ \A k \in 1..Len(h) : g[k] = h[k]
      /\ g[Len(h) + 1] = e
  BY <1>2, OneMore
<1>4. p \in 1..Len(h) /\ p \in DOMAIN g
  BY <1>1, <1>3
<1> HIDE DEF g
<1>5. \A k \in 1..n : p + 2 * k - 1 \in 1..Len(h) /\ p + 2 * k \in 1..Len(h)
  BY <1>1, <1>4
<1>6. p + 2 * (n + 1) - 1 = Len(h) /\ p + 2 * (n + 1) = Len(h) + 1 /\ Len(h) \in 1..Len(h)
  BY <1>1, <1>4
<1>7. g[p + 2 * (n + 1) - 1] = [event |-> "step_running", step |-> n + 1] /\ g[p + 2 * (n + 1)] = e
  <2>1. p + 2 * (n + 1) - 1 = p + 2 * n + 1
    BY <1>4
  <2> QED BY <1>1, <1>3, <1>6, <2>1
<1>8. \A k \in 1..(n + 1) : /\ g[p + 2 * k - 1] = [event |-> "step_running", step |-> k]
                           /\ g[p + 2 * k] = [event |-> "step_validated", step |-> k]
  <2>1. \A k \in 1..(n + 1) : k \in 1..n \/ k = n + 1
    OBVIOUS
  <2> QED BY <1>1, <1>3, <1>5, <1>7, <2>1
<1>9. DOMAIN <<>> = {} /\ Len(<<>>) = 0 /\ Len(g) = p + 2 * (n + 1) + 0
  BY <1>3, <1>6
<1>10. g[p].event = "planning"
  BY <1>1, <1>3, <1>4
<1> QED BY <1>4, <1>8, <1>9, <1>10 DEF Tells, g

\* Or it fails.
LEMMA TellsFailed ==
  ASSUME NEW h \in Seq(Lines), NEW n \in Nat, Tells(h, n + 1, n, <<"step_running">>)
  PROVE  Tells(Append(h, [event |-> "step_failed", step |-> n + 1]), n + 1, n, <<"step_running", "step_failed">>)
<1> DEFINE e == [event |-> "step_failed", step |-> n + 1]
           g == Append(h, e)
           failing == <<"step_running", "step_failed">>
<1>0. /\ Len(<<"step_running">>) = 1 /\ DOMAIN <<"step_running">> = {1} /\ <<"step_running">>[1] = "step_running"
      /\ Len(failing) = 2 /\ DOMAIN failing = {1, 2} /\ failing[1] = "step_running" /\ failing[2] = "step_failed"
  OBVIOUS
<1>1. PICK p \in DOMAIN h :
        /\ h[p].event = "planning" /\ Len(h) = p + 2 * n + 1
        /\ \A k \in 1..n : /\ h[p + 2 * k - 1] = [event |-> "step_running", step |-> k]
                           /\ h[p + 2 * k] = [event |-> "step_validated", step |-> k]
        /\ h[p + 2 * n + 1] = [event |-> "step_running", step |-> n + 1]
  BY <1>0 DEF Tells
<1>2. e \in Lines
  BY DEF Lines, Events
<1>3. /\ g \in Seq(Lines) /\ Len(g) = Len(h) + 1 /\ Len(h) \in Nat
      /\ \A k \in 1..Len(h) : g[k] = h[k]
      /\ g[Len(h) + 1] = e
  BY <1>2, OneMore
<1>4. p \in 1..Len(h) /\ p \in DOMAIN g
  BY <1>1, <1>3
<1> HIDE DEF g, failing
<1>5. \A k \in 1..n : p + 2 * k - 1 \in 1..Len(h) /\ p + 2 * k \in 1..Len(h)
  BY <1>1, <1>4
<1>6. p + 2 * n + 1 \in 1..Len(h) /\ p + 2 * n + 2 = Len(h) + 1
  BY <1>1, <1>4
<1>7. g[p + 2 * n + 1] = [event |-> "step_running", step |-> n + 1] /\ g[p + 2 * n + 2] = e
  BY <1>1, <1>3, <1>6
<1>8. \A k \in 1..n : /\ g[p + 2 * k - 1] = [event |-> "step_running", step |-> k]
                     /\ g[p + 2 * k] = [event |-> "step_validated", step |-> k]
  BY <1>1, <1>3, <1>5
<1>9. g[p].event = "planning" /\ Len(g) = p + 2 * n + Len(failing)
  BY <1>0, <1>1, <1>3, <1>4, <1>6
<1>10. \A k \in DOMAIN failing : g[p + 2 * n + k] = [event |-> failing[k], step |-> n + 1]
  BY <1>0, <1>7 DEF e
<1>11. Tells(g, n + 1, n, failing)
  BY <1>4, <1>8, <1>9, <1>10 DEF Tells
<1> QED BY <1>11 DEF g, failing

\* All are through.
LEMMA TellsFinalized ==
  ASSUME NEW h \in Seq(Lines), NEW c, NEW n \in Nat, Tells(h, c, n, <<>>), NEW g,
         g = h \o [k \in 1..3 |-> [event |-> <<"mission_validated", "history_registered",
                                              "mission_finalized">>[k], step |-> n]]
  PROVE  /\ Tells(g, n, n, <<"mission_validated", "history_registered", "mission_finalized">>)
         /\ g \in Seq(Lines)
<1> DEFINE ending == <<"mission_validated", "history_registered", "mission_finalized">>
           tail == [k \in 1..3 |-> [event |-> ending[k], step |-> n]]
<1>0. Len(ending) = 3 /\ DOMAIN ending = 1..3 /\ \A k \in 1..3 : ending[k] \in Events
  BY DEF Events
<1> HIDE DEF ending
<1>1. PICK p \in DOMAIN h :
        /\ h[p].event = "planning" /\ Len(h) = p + 2 * n + Len(<<>>)
        /\ \A k \in 1..n : /\ h[p + 2 * k - 1] = [event |-> "step_running", step |-> k]
                           /\ h[p + 2 * k] = [event |-> "step_validated", step |-> k]
  BY DEF Tells
<1>2. tail \in Seq(Lines) /\ Len(tail) = 3 /\ \A k \in 1..3 : tail[k] = [event |-> ending[k], step |-> n]
  <2>1. \A k \in 1..3 : [event |-> ending[k], step |-> n] \in Lines
    BY <1>0 DEF Lines
  <2>2. tail \in [1..3 -> Lines]
    BY <2>1
  <2> QED BY <2>2
<1>3. g = h \o tail
  BY DEF ending
<1> HIDE DEF tail
<1>4. /\ g \in Seq(Lines) /\ Len(g) = Len(h) + 3 /\ Len(h) \in Nat
      /\ \A k \in 1..Len(h) : g[k] = h[k]
      /\ \A k \in 1..3 : g[Len(h) + k] = tail[k]
  <2>0. tail \in Seq(Lines) /\ Len(tail) = 3
    BY <1>2
  <2>1. g \in Seq(Lines) /\ Len(g) = Len(h) + 3 /\ Len(h) \in Nat
    <3>1. Len(h) \in Nat
      OBVIOUS
    <3>2. h \o tail \in Seq(Lines)
      BY <2>0, ConcatProperties
    <3>3. Len(h \o tail) = Len(h) + Len(tail)
      BY <2>0, ConcatProperties
    <3> QED BY <1>3, <2>0, <3>1, <3>2, <3>3
  <2>2. \A k \in 1..Len(g) : g[k] = IF k <= Len(h) THEN h[k] ELSE tail[k - Len(h)]
    BY <1>3, <2>0, <2>1, ConcatProperties
  <2>3. \A k \in 1..3 : Len(h) + k \in 1..Len(g) /\ ~(Len(h) + k <= Len(h)) /\ Len(h) + k - Len(h) = k
    BY <2>1
  <2>4. \A k \in 1..3 : g[Len(h) + k] = tail[k]
    BY <2>2, <2>3, SMTT(60)
  <2>5. \A k \in 1..Len(h) : g[k] = h[k]
    BY <2>1, <2>2
  <2> QED BY <2>1, <2>4, <2>5
<1>5. p \in 1..Len(h) /\ p \in DOMAIN g /\ Len(h) = p + 2 * n
  BY <1>1, <1>4
<1>6. \A k \in 1..n : p + 2 * k - 1 \in 1..Len(h) /\ p + 2 * k \in 1..Len(h)
  BY <1>5
<1>7. \A k \in 1..n : /\ g[p + 2 * k - 1] = [event |-> "step_running", step |-> k]
                     /\ g[p + 2 * k] = [event |-> "step_validated", step |-> k]
  BY <1>1, <1>4, <1>6
<1>8. \A k \in DOMAIN ending : g[p + 2 * n + k] = [event |-> ending[k], step |-> n]
  BY <1>0, <1>2, <1>4, <1>5
<1>9. g[p].event = "planning" /\ Len(g) = p + 2 * n + Len(ending)
  BY <1>0, <1>1, <1>4, <1>5
<1>10. Tells(g, n, n, ending)
  BY <1>5, <1>7, <1>8, <1>9 DEF Tells
<1> QED BY <1>4, <1>10 DEF ending

-----------------------------------------------------------------------------
(* What a mission does                                                     *)

MissionRecords == [of : Missions, agents : Registries, current : Nat,
                   status : {"created", "planning", "running", "completed", "failed"}]
Statuses == {"created", "running", "completed", "failed"}
RunFields == {"at", "count", "agent", "host", "shown"}

LEMMA TypesAre ==
  MissionTypeInv <=>
    /\ mission \in MissionRecords /\ steps \in Seq(Statuses) /\ history \in Seq(Lines)
    /\ DOMAIN run = RunFields /\ (run.at \in {"idle", "next"} \/ AtWork)
BY DEF MissionTypeInv, MissionRecords, Statuses, Lines, RunFields

LEMMA RunAtIs ==
  ASSUME MissionTypeInv, NEW place, RunAt(place)
  PROVE  run'.at = place /\ DOMAIN run' = RunFields
<1>1. DOMAIN run = RunFields
  BY TypesAre
<1> QED BY <1>1 DEF RunAt, RunFields

LEMMA PlanIs ==
  ASSUME MissionTypeInv, Plan
  PROVE  /\ run.at = "idle" /\ run'.at = "next" /\ DOMAIN run' = RunFields
         /\ mission' \in MissionRecords /\ mission'.status = "planning" /\ mission'.current = mission.current
         /\ steps' \in Seq(Statuses) /\ steps' # <<>>
         /\ \A k \in DOMAIN steps' : steps'[k] = "created" \/ (k \in DOMAIN steps /\ steps'[k] = steps[k])
         /\ history' = Append(history, [event |-> "planning", step |-> mission.current])
<1>1. mission \in MissionRecords /\ DOMAIN run = RunFields /\ steps \in Seq(Statuses)
  BY TypesAre
<1>2. /\ mission' = [mission EXCEPT !.status = "planning"]
      /\ run' = [run EXCEPT !.at = "next", !.count = @ + 1] /\ run.at = "idle"
      /\ steps' = IF steps = <<>> THEN <<"created">> ELSE steps
      /\ history' = Append(history, [event |-> "planning", step |-> mission'.current])
  BY DEF Plan, Running, Recorded
<1>3. mission' \in MissionRecords /\ mission'.status = "planning" /\ mission'.current = mission.current
  BY <1>1, <1>2 DEF MissionRecords
<1>4. run'.at = "next" /\ DOMAIN run' = RunFields
  BY <1>1, <1>2 DEF RunFields
<1>5. /\ steps' \in Seq(Statuses) /\ steps' # <<>>
      /\ \A k \in DOMAIN steps' : steps'[k] = "created" \/ (k \in DOMAIN steps /\ steps'[k] = steps[k])
  <2>1. CASE steps = <<>>
    <3>1. "created" \in Statuses
      BY DEF Statuses
    <3>2. steps' = <<"created">>
      BY <1>2, <2>1
    <3>3. <<"created">> \in Seq(Statuses) /\ <<"created">> # <<>> /\ DOMAIN <<"created">> = {1} /\ <<"created">>[1] = "created"
      BY <3>1
    <3> QED BY <3>2, <3>3
  <2>2. CASE steps # <<>>
    BY <1>1, <1>2, <2>2
  <2> QED BY <2>1, <2>2
<1> QED BY <1>2, <1>3, <1>4, <1>5

LEMMA BeginStepIs ==
  ASSUME MissionTypeInv, BeginStep
  PROVE  /\ run.at = "next" /\ run'.at = "choose" /\ DOMAIN run' = RunFields
         /\ Reached \in DOMAIN steps
         /\ mission' \in MissionRecords /\ mission'.status = "running" /\ mission'.current = Reached
         /\ steps' = [steps EXCEPT ![Reached] = "running"] /\ steps' \in Seq(Statuses)
         /\ history' = Append(history, [event |-> "step_running", step |-> Reached])
<1>1. mission \in MissionRecords /\ DOMAIN run = RunFields /\ steps \in Seq(Statuses)
  BY TypesAre
<1>2. /\ mission' = [mission EXCEPT !.status = "running", !.current = Reached]
      /\ run.at = "next" /\ RunAt("choose") /\ Reached <= Len(steps)
      /\ steps' = [steps EXCEPT ![Reached] = "running"]
      /\ history' = Append(history, [event |-> "step_running", step |-> mission'.current])
  BY DEF BeginStep, Running, Recorded
<1>3. Reached \in Nat \ {0}
  BY <1>1 DEF Reached, MissionRecords
<1>4. mission' \in MissionRecords /\ mission'.status = "running" /\ mission'.current = Reached
  BY <1>1, <1>2, <1>3 DEF MissionRecords
<1>5. Reached \in DOMAIN steps /\ steps' \in Seq(Statuses)
  BY <1>1, <1>2, <1>3 DEF Statuses
<1> QED BY <1>2, <1>4, <1>5, RunAtIs

LEMMA StepGoesOn ==
  ASSUME MissionTypeInv, Choose \/ ShowToPatcher
  PROVE  /\ AtWork /\ AtWork' /\ DOMAIN run' = RunFields /\ UNCHANGED <<mission, steps, history>>
<1>1. DOMAIN run = RunFields
  BY TypesAre
<1>2. CASE Choose
  <2>1. PICK host, agent : run' = [run EXCEPT !.at = "execute", !.host = host, !.agent = agent]
    BY <1>2 DEF Choose
  <2>2. run'.at = "execute" /\ DOMAIN run' = RunFields
    BY <1>1, <2>1 DEF RunFields
  <2> QED BY <1>2, <2>2 DEF Choose, Running, AtWork
<1>3. CASE ShowToPatcher
  <2>1. PICK context : run' = [run EXCEPT !.at = "ask", !.shown = context]
    BY <1>3 DEF ShowToPatcher
  <2>2. run'.at = "ask" /\ DOMAIN run' = RunFields
    BY <1>1, <2>1 DEF RunFields
  <2> QED BY <1>3, <2>2 DEF ShowToPatcher, Running, AtWork
<1> QED BY <1>2, <1>3

LEMMA StepCompletesIs ==
  ASSUME MissionTypeInv, StepCompletes
  PROVE  /\ AtWork /\ run'.at = "next" /\ DOMAIN run' = RunFields /\ mission' = mission
         /\ steps' = [steps EXCEPT ![mission.current] = "completed"]
         /\ history' = Append(history, [event |-> "step_validated", step |-> mission.current])
BY RunAtIs DEF StepCompletes, CanReturn, Recorded, AtWork

LEMMA StepFailsIs ==
  ASSUME MissionTypeInv, StepFails
  PROVE  /\ AtWork /\ run'.at = "idle" /\ DOMAIN run' = RunFields
         /\ mission' \in MissionRecords /\ mission'.status = "failed" /\ mission'.current = mission.current
         /\ steps' = [steps EXCEPT ![mission.current] = "failed"]
         /\ history' = Append(history, [event |-> "step_failed", step |-> mission.current])
<1>1. mission \in MissionRecords
  BY TypesAre
<1>2. mission' = [mission EXCEPT !.status = "failed"] /\ RunAt("idle") /\ CanRaise
  BY DEF StepFails
<1>3. mission' \in MissionRecords /\ mission'.status = "failed" /\ mission'.current = mission.current
  BY <1>1, <1>2 DEF MissionRecords
<1>4. AtWork
  BY <1>2 DEF CanRaise, AtWork
<1> QED BY <1>2, <1>3, <1>4, RunAtIs DEF StepFails, Recorded

LEMMA FinalizeIs ==
  ASSUME MissionTypeInv, Finalize
  PROVE  /\ run.at = "next" /\ run'.at = "idle" /\ DOMAIN run' = RunFields /\ Reached > Len(steps)
         /\ mission' \in MissionRecords /\ mission'.status = "completed" /\ mission'.current = Len(steps)
         /\ steps' = steps
         /\ history' = history \o [k \in 1..3 |-> [event |-> <<"mission_validated", "history_registered",
                                                   "mission_finalized">>[k], step |-> Len(steps)]]
<1>1. mission \in MissionRecords /\ steps \in Seq(Statuses)
  BY TypesAre
<1>2. mission' = [mission EXCEPT !.status = "completed", !.current = Len(steps)] /\ RunAt("idle")
  BY DEF Finalize
<1>3. mission' \in MissionRecords /\ mission'.status = "completed" /\ mission'.current = Len(steps)
  <2>1. Len(steps) \in Nat
    BY <1>1
  <2> QED BY <1>1, <1>2, <2>1 DEF MissionRecords
<1> QED BY <1>2, <1>3, RunAtIs DEF Finalize, Running

-----------------------------------------------------------------------------
(* The mission's account                                                   *)

\* StoryInv as a matter of what it reads.
Told(m, ss, h, at) ==
  /\ \A k \in DOMAIN ss : ss[k] = "running" <=> at \in {"choose", "execute", "ask"} /\ m.current = k
  /\ at = "idle" =>
       \/ m.status = "created" /\ h = <<>>
       \/ /\ m.status = "completed" /\ m.current = Len(ss)
          /\ \A k \in DOMAIN ss : ss[k] = "completed"
          /\ Tells(h, m.current, Len(ss), <<"mission_validated", "history_registered", "mission_finalized">>)
       \/ /\ m.status = "failed" /\ ss[m.current] = "failed"
          /\ \A k \in 1..(m.current - 1) : ss[k] = "completed"
          /\ Tells(h, m.current, m.current - 1, <<"step_running", "step_failed">>)
  /\ at = "next" =>
       /\ ss # <<>>
       /\ \/ m.status = "planning" /\ Tells(h, m.current, 0, <<>>)
          \/ /\ m.status = "running" /\ m.current \in DOMAIN ss
             /\ \A k \in 1..m.current : ss[k] = "completed"
             /\ Tells(h, m.current, m.current, <<>>)
  /\ at \in {"choose", "execute", "ask"} =>
       /\ m.status = "running" /\ m.current \in DOMAIN ss
       /\ \A k \in 1..(m.current - 1) : ss[k] = "completed"
       /\ Tells(h, m.current, m.current - 1, <<"step_running">>)

LEMMA StoryIs == StoryInv <=> Told(mission, steps, history, run.at)
<1>1. /\ MissionTellsTheTruth <=>
         /\ \A k \in DOMAIN steps : steps[k] = "running" <=> AtWork /\ mission.current = k
         /\ run.at = "idle" =>
              \/ mission.status = "created" /\ history = <<>>
              \/ /\ mission.status = "completed" /\ mission.current = Len(steps)
                 /\ \A k \in DOMAIN steps : steps[k] = "completed"
                 /\ LastRun(Len(steps), <<"mission_validated", "history_registered", "mission_finalized">>)
              \/ /\ mission.status = "failed" /\ steps[mission.current] = "failed"
                 /\ \A k \in 1..(mission.current - 1) : steps[k] = "completed"
                 /\ LastRun(mission.current - 1, <<"step_running", "step_failed">>)
  BY DEF MissionTellsTheTruth
<1> QED BY <1>1, LastRunIs DEF StoryInv, Told, AtWork

LEMMA StoryKept ==
  ASSUME MissionTypeInv, StoryInv, [Next]_vars
  PROVE  MissionTypeInv' /\ StoryInv'
<1>1. /\ mission \in MissionRecords /\ steps \in Seq(Statuses) /\ history \in Seq(Lines)
      /\ DOMAIN run = RunFields /\ (run.at \in {"idle", "next"} \/ AtWork)
      /\ mission.current \in Nat
  BY TypesAre DEF MissionRecords
<1>2. Told(mission, steps, history, run.at)
  BY StoryIs
<1>3. /\ MissionTypeInv' <=>
           /\ mission' \in MissionRecords /\ steps' \in Seq(Statuses) /\ history' \in Seq(Lines)
           /\ DOMAIN run' = RunFields /\ (run'.at \in {"idle", "next"} \/ AtWork')
      /\ StoryInv' <=> Told(mission', steps', history', run'.at)
  <2>1. MissionTypeInv' <=>
           /\ mission' \in MissionRecords /\ steps' \in Seq(Statuses) /\ history' \in Seq(Lines)
           /\ DOMAIN run' = RunFields /\ (run'.at \in {"idle", "next"} \/ AtWork')
    BY DEF MissionTypeInv, MissionRecords, Statuses, Lines, RunFields
  <2>2. StoryInv' <=> Told(mission, steps, history, run.at)'
    BY StoryIs, PTL
  <2>3. Told(mission, steps, history, run.at)' <=> Told(mission', steps', history', run'.at)
    BY DEF Told, Tells
  <2> QED BY <2>1, <2>2, <2>3
<1>4. CASE Plan
  <2>1. /\ run.at = "idle" /\ run'.at = "next" /\ DOMAIN run' = RunFields
        /\ mission' \in MissionRecords /\ mission'.status = "planning" /\ mission'.current = mission.current
        /\ steps' \in Seq(Statuses) /\ steps' # <<>>
        /\ \A k \in DOMAIN steps' : steps'[k] = "created" \/ (k \in DOMAIN steps /\ steps'[k] = steps[k])
        /\ history' = Append(history, [event |-> "planning", step |-> mission.current])
    BY <1>4, PlanIs
  <2>2. history' \in Seq(Lines)
    <3>1. [event |-> "planning", step |-> mission.current] \in Lines
      BY <1>1 DEF Lines, Events
    <3> QED BY <1>1, <2>1, <3>1, OneMore
  <2>3. Tells(history', mission'.current, 0, <<>>)
    BY <1>1, <2>1, TellsPlanned
  <2>4. \A k \in DOMAIN steps' : steps'[k] # "running"
    BY <1>2, <2>1 DEF Told
  <2>5. Told(mission', steps', history', run'.at)
    BY <2>1, <2>3, <2>4 DEF Told
  <2> QED BY <1>3, <2>1, <2>2, <2>5
<1>5. CASE BeginStep
  <2>1. /\ run.at = "next" /\ run'.at = "choose" /\ DOMAIN run' = RunFields
        /\ Reached \in DOMAIN steps
        /\ mission' \in MissionRecords /\ mission'.status = "running" /\ mission'.current = Reached
        /\ steps' = [steps EXCEPT ![Reached] = "running"] /\ steps' \in Seq(Statuses)
        /\ history' = Append(history, [event |-> "step_running", step |-> Reached])
    BY <1>5, BeginStepIs
  <2>2. \E n \in Nat : /\ Reached = n + 1 /\ Tells(history, mission.current, n, <<>>)
                      /\ \A k \in 1..n : steps[k] = "completed"
    <3>1. CASE mission.status = "planning" /\ Tells(history, mission.current, 0, <<>>)
      BY <3>1 DEF Reached
    <3>2. CASE mission.status = "running" /\ Tells(history, mission.current, mission.current, <<>>)
               /\ \A k \in 1..mission.current : steps[k] = "completed"
      BY <1>1, <3>2 DEF Reached
    <3> QED BY <1>2, <2>1, <3>1, <3>2 DEF Told
  <2>3. PICK n \in Nat : /\ Reached = n + 1 /\ Tells(history, mission.current, n, <<>>)
                        /\ \A k \in 1..n : steps[k] = "completed"
    BY <2>2
  <2>4. history' \in Seq(Lines)
    <3>1. [event |-> "step_running", step |-> Reached] \in Lines
      BY <2>3 DEF Lines, Events
    <3> QED BY <1>1, <2>1, <3>1, OneMore
  <2>5. Tells(history', mission'.current, mission'.current - 1, <<"step_running">>)
    <3>1. Tells(history', n + 1, n, <<"step_running">>)
      BY <1>1, <2>1, <2>3, TellsBegun
    <3>2. mission'.current = n + 1 /\ mission'.current - 1 = n
      BY <2>1, <2>3
    <3> QED BY <3>1, <3>2
  <2>6. /\ DOMAIN steps' = DOMAIN steps /\ steps'[Reached] = "running"
        /\ \A k \in DOMAIN steps : k # Reached => steps'[k] = steps[k]
    BY <1>1, <2>1
  <2>7. \A k \in DOMAIN steps : steps[k] # "running"
    BY <1>2, <2>1 DEF Told
  <2>8. \A k \in 1..(mission'.current - 1) : steps'[k] = "completed"
    <3>1. \A k \in 1..(mission'.current - 1) : k \in 1..n /\ k # Reached /\ k \in DOMAIN steps
      BY <1>1, <2>1, <2>3
    <3> QED BY <2>3, <2>6, <3>1
  <2>9. Told(mission', steps', history', run'.at)
    BY <2>1, <2>5, <2>6, <2>7, <2>8 DEF Told
  <2> QED BY <1>3, <2>1, <2>4, <2>9 DEF AtWork
<1>6. CASE Choose \/ ShowToPatcher
  <2>1. AtWork /\ AtWork' /\ DOMAIN run' = RunFields /\ UNCHANGED <<mission, steps, history>>
    BY <1>6, StepGoesOn
  <2>2. Told(mission', steps', history', run'.at)
    BY <1>2, <2>1 DEF Told, AtWork
  <2> QED BY <1>1, <1>3, <2>1, <2>2
<1>7. ASSUME AtWork
      PROVE  \E n \in Nat : /\ mission.current = n + 1 /\ n + 1 \in DOMAIN steps /\ mission.status = "running"
                           /\ Tells(history, n + 1, n, <<"step_running">>)
                           /\ \A k \in 1..n : steps[k] = "completed"
  <2> DEFINE n == mission.current - 1
  <2>1. /\ mission.status = "running" /\ mission.current \in DOMAIN steps
        /\ \A k \in 1..n : steps[k] = "completed"
        /\ Tells(history, mission.current, n, <<"step_running">>)
    BY <1>2, <1>7 DEF Told, AtWork
  <2>2. n \in Nat /\ mission.current = n + 1
    BY <1>1, <2>1
  <2> HIDE DEF n
  <2> QED BY <2>1, <2>2
<1>7a. ASSUME AtWork, NEW k \in DOMAIN steps, k # mission.current
       PROVE  steps[k] # "running"
  BY <1>2, <1>7a DEF Told, AtWork
<1>8. CASE StepCompletes
  <2>1. /\ AtWork /\ run'.at = "next" /\ DOMAIN run' = RunFields /\ mission' = mission
        /\ steps' = [steps EXCEPT ![mission.current] = "completed"]
        /\ history' = Append(history, [event |-> "step_validated", step |-> mission.current])
    BY <1>8, StepCompletesIs
  <2>2. PICK n \in Nat : /\ mission.current = n + 1 /\ n + 1 \in DOMAIN steps /\ mission.status = "running"
                        /\ Tells(history, n + 1, n, <<"step_running">>)
                        /\ \A k \in 1..n : steps[k] = "completed"
    BY <1>7, <2>1
  <2>3. history' \in Seq(Lines)
    <3>1. [event |-> "step_validated", step |-> n + 1] \in Lines
      BY DEF Lines, Events
    <3> QED BY <1>1, <2>1, <2>2, <3>1, OneMore
  <2>4. Tells(history', mission'.current, mission'.current, <<>>)
    <3>1. Tells(history', n + 1, n + 1, <<>>)
      BY <1>1, <2>1, <2>2, TellsValidated
    <3> QED BY <2>1, <2>2, <3>1
  <2>5. /\ DOMAIN steps' = DOMAIN steps /\ steps'[n + 1] = "completed" /\ steps' \in Seq(Statuses)
        /\ \A k \in DOMAIN steps : k # n + 1 => steps'[k] = steps[k]
    BY <1>1, <2>1, <2>2 DEF Statuses
  <2>6. \A k \in 1..mission'.current : steps'[k] = "completed"
    <3>1. \A k \in 1..mission'.current : k \in DOMAIN steps /\ (k = n + 1 \/ (k # n + 1 /\ k \in 1..n))
      BY <1>1, <2>1, <2>2
    <3> QED BY <2>2, <2>5, <3>1
  <2>7. ASSUME NEW k \in DOMAIN steps'
        PROVE  steps'[k] # "running"
    <3>1. CASE k = n + 1
      BY <2>5, <3>1
    <3>2. CASE k # n + 1
      <4>1. k \in DOMAIN steps
        BY <2>5
      <4>2. steps'[k] = steps[k]
        BY <2>5, <3>2, <4>1
      <4>3. steps[k] # "running"
        BY <1>7a, <2>1, <2>2, <3>2, <4>1
      <4> QED BY <4>2, <4>3
    <3> QED BY <3>1, <3>2
  <2>8. steps' # <<>>
    BY <2>2, <2>5
  <2>9. Told(mission', steps', history', run'.at)
    BY <2>1, <2>2, <2>4, <2>5, <2>6, <2>7, <2>8 DEF Told
  <2> QED BY <1>1, <1>3, <2>1, <2>3, <2>5, <2>9
<1>9. CASE StepFails
  <2>1. /\ AtWork /\ run'.at = "idle" /\ DOMAIN run' = RunFields
        /\ mission' \in MissionRecords /\ mission'.status = "failed" /\ mission'.current = mission.current
        /\ steps' = [steps EXCEPT ![mission.current] = "failed"]
        /\ history' = Append(history, [event |-> "step_failed", step |-> mission.current])
    BY <1>9, StepFailsIs
  <2>2. PICK n \in Nat : /\ mission.current = n + 1 /\ n + 1 \in DOMAIN steps /\ mission.status = "running"
                        /\ Tells(history, n + 1, n, <<"step_running">>)
                        /\ \A k \in 1..n : steps[k] = "completed"
    BY <1>7, <2>1
  <2>3. history' \in Seq(Lines)
    <3>1. [event |-> "step_failed", step |-> n + 1] \in Lines
      BY DEF Lines, Events
    <3> QED BY <1>1, <2>1, <2>2, <3>1, OneMore
  <2>4. Tells(history', mission'.current, mission'.current - 1, <<"step_running", "step_failed">>)
    <3>1. Tells(history', n + 1, n, <<"step_running", "step_failed">>)
      BY <1>1, <2>1, <2>2, TellsFailed
    <3>2. mission'.current = n + 1 /\ mission'.current - 1 = n
      BY <2>1, <2>2
    <3> QED BY <3>1, <3>2
  <2>5. /\ DOMAIN steps' = DOMAIN steps /\ steps'[n + 1] = "failed" /\ steps' \in Seq(Statuses)
        /\ \A k \in DOMAIN steps : k # n + 1 => steps'[k] = steps[k]
    BY <1>1, <2>1, <2>2 DEF Statuses
  <2>6. \A k \in 1..(mission'.current - 1) : steps'[k] = "completed"
    <3>1. \A k \in 1..(mission'.current - 1) : k \in DOMAIN steps /\ k # n + 1 /\ k \in 1..n
      BY <1>1, <2>1, <2>2
    <3> QED BY <2>2, <2>5, <3>1
  <2>7. ASSUME NEW k \in DOMAIN steps'
        PROVE  steps'[k] # "running"
    <3>1. CASE k = n + 1
      BY <2>5, <3>1
    <3>2. CASE k # n + 1
      <4>1. k \in DOMAIN steps
        BY <2>5
      <4>2. steps'[k] = steps[k]
        BY <2>5, <3>2, <4>1
      <4>3. steps[k] # "running"
        BY <1>7a, <2>1, <2>2, <3>2, <4>1
      <4> QED BY <4>2, <4>3
    <3> QED BY <3>1, <3>2
  <2>8. steps'[mission'.current] = "failed"
    BY <2>1, <2>2, <2>5
  <2>9. Told(mission', steps', history', run'.at)
    BY <2>1, <2>4, <2>6, <2>7, <2>8 DEF Told
  <2> QED BY <1>3, <2>1, <2>3, <2>5, <2>9
<1>10. CASE Finalize
  <2>1. /\ run.at = "next" /\ run'.at = "idle" /\ DOMAIN run' = RunFields /\ Reached > Len(steps)
        /\ mission' \in MissionRecords /\ mission'.status = "completed" /\ mission'.current = Len(steps)
        /\ steps' = steps
        /\ history' = history \o [k \in 1..3 |-> [event |-> <<"mission_validated", "history_registered",
                                                  "mission_finalized">>[k], step |-> Len(steps)]]
    BY <1>10, FinalizeIs
  <2>2. Len(steps) \in Nat /\ DOMAIN steps = 1..Len(steps)
    BY <1>1
  <2>3. /\ mission.status = "running" /\ mission.current = Len(steps)
        /\ \A k \in DOMAIN steps : steps[k] = "completed"
        /\ Tells(history, mission.current, Len(steps), <<>>)
    <3>1. steps # <<>> => Len(steps) >= 1
      BY <1>1
    <3>2. mission.status # "planning"
      BY <1>2, <2>1, <2>2, <3>1 DEF Told, Reached
    <3>3. /\ mission.status = "running" /\ mission.current \in DOMAIN steps
          /\ \A k \in 1..mission.current : steps[k] = "completed"
          /\ Tells(history, mission.current, mission.current, <<>>)
      BY <1>2, <2>1, <3>2 DEF Told
    <3>4. mission.current + 1 > Len(steps)
      BY <2>1, <3>3 DEF Reached
    <3>5. mission.current = Len(steps)
      BY <1>1, <2>2, <3>3, <3>4
    <3> QED BY <2>2, <3>3, <3>5
  <2>4. /\ history' \in Seq(Lines)
        /\ Tells(history', mission'.current, Len(steps'), <<"mission_validated", "history_registered", "mission_finalized">>)
    BY <1>1, <2>1, <2>2, <2>3, TellsFinalized
  <2>5. \A k \in DOMAIN steps' : steps'[k] = "completed" /\ steps'[k] # "running"
    BY <2>1, <2>3
  <2>6. Told(mission', steps', history', run'.at)
    BY <2>1, <2>4, <2>5 DEF Told
  <2> QED BY <1>1, <1>3, <2>1, <2>4, <2>6
<1>11. CASE UNCHANGED missionVars
  <2>1. mission' = mission /\ steps' = steps /\ history' = history /\ run' = run
    BY <1>11 DEF missionVars
  <2>2. Told(mission', steps', history', run'.at)
    BY <1>2, <2>1
  <2> QED BY <1>1, <1>3, <2>1, <2>2 DEF AtWork
<1>12. UNCHANGED vars => UNCHANGED missionVars
  BY DEF vars
<1> QED BY <1>4, <1>5, <1>6, <1>8, <1>9, <1>10, <1>11, <1>12, StepKinds DEF MissionStep

-----------------------------------------------------------------------------
(* What the jobs report                                                    *)

JobFields == {"kind", "at", "round", "team", "patches", "text", "modified", "tested", "shown", "result"}
PassPlaces == {"refuse", "look", "reply", "act", "answered"}
Places == {"idle", "team", "test", "generate", "ask", "apply", "read", "write", "done", "raised",
           "fixed", "given up"} \cup PassPlaces
InRounds == {"test", "generate", "ask", "apply", "read", "write"}
Honest(r) ==
  /\ ~(r.success /\ r.error)
  /\ r.action <=> r.ran # "nothing"
  /\ r.ran \in {"raises", "refuses", "is not there"} => ~r.success
  /\ r.success \/ r.error \/ r.ran \in {"raises", "refuses"}

\* JobInv in parts: the job's kind and place; its rounds; its report.
PlacesOf(kind, at) ==
  /\ kind \in Jobs \cup {"none", "pass"} /\ at \in Places
  /\ kind = "none" <=> at = "idle"
  /\ kind = "pass" <=> at \in PassPlaces
  /\ kind = "preview" => at \in {"team", "generate", "ask", "done", "raised"}
  /\ at = "team" => kind # "fix"
RoundsOf(kind, at, round) ==
  /\ round \in Nat
  /\ kind = "fix" /\ at \in InRounds => round < MaxIterations
  /\ at = "given up" => round = MaxIterations

LEMMA JobIs ==
  JobInv <=>
    /\ DOMAIN job = JobFields /\ PlacesOf(job.kind, job.at) /\ RoundsOf(job.kind, job.at, job.round)
    /\ job.kind \in {"none", "pass", "preview"} => overwritten = {}
    /\ edits \in Nat
    /\ job.at = "fixed" => Tested(job.tested) /\ (texts = job.tested \/ edits > 0)
    /\ job.at = "answered" => Honest(job.result)
<1>1. DOMAIN NoJob = JobFields
  BY DEF NoJob, JobFields
<1> QED BY <1>1 DEF JobInv, PlacesOf, RoundsOf, Places, PassPlaces, InRounds, FixIsTested, PassTellsWhatItDid, Honest

LEMMA JobIsNext ==
  JobInv' <=>
    /\ DOMAIN job' = JobFields /\ PlacesOf(job'.kind, job'.at) /\ RoundsOf(job'.kind, job'.at, job'.round)
    /\ job'.kind \in {"none", "pass", "preview"} => overwritten' = {}
    /\ edits' \in Nat
    /\ job'.at = "fixed" => Tested(job'.tested) /\ (texts' = job'.tested \/ edits' > 0)
    /\ job'.at = "answered" => Honest(job'.result)
<1>1. (DOMAIN NoJob)' = JobFields
  BY DEF NoJob, JobFields
<1>2. Tested(job.tested)' <=> Tested(job'.tested)
  BY DEF Tested
<1> QED BY <1>1, <1>2 DEF JobInv, PlacesOf, RoundsOf, Places, PassPlaces, InRounds, FixIsTested, PassTellsWhatItDid, Honest

\* A step of a job that changes nothing but where it is at, in a round, and what it knows.
Moves(at) ==
  /\ DOMAIN job' = JobFields /\ job'.kind = job.kind /\ job'.round = job.round /\ job'.at = at
  /\ edits' = edits

LEMMA MovesKeep ==
  ASSUME JobInv, NEW at, Moves(at), PlacesOf(job.kind, at),
         RoundsOf(job.kind, at, job.round), at \notin {"fixed", "answered"},
         job.kind \in {"none", "pass", "preview"} => overwritten' = overwritten
  PROVE  JobInv'
BY JobIs, JobIsNext DEF Moves

LEMMA StartsKeep ==
  ASSUME JobInv, (\E kind \in Jobs : StartJob(kind)) \/ (\E asked \in Asked : StartPass(asked))
  PROVE  JobInv'
<1>0. job.kind = "none" /\ overwritten = {} /\ edits \in Nat
  BY JobIs DEF StartJob, StartPass
<1>1. DOMAIN NoJob = JobFields /\ NoJob.round = 0
  BY DEF NoJob, JobFields
<1> DEFINE asked(at) == [NoJob EXCEPT !.kind = "pass", !.at = at]
           begun(kind, at) == [NoJob EXCEPT !.kind = kind, !.at = at]
<1>2. ASSUME NEW kind, NEW at
      PROVE  /\ DOMAIN begun(kind, at) = JobFields /\ begun(kind, at).kind = kind
             /\ begun(kind, at).at = at /\ begun(kind, at).round = 0
  BY <1>1, SMTT(60) DEF JobFields
<1>3. /\ overwritten' = {} /\ edits' = edits
      /\ \E kind \in Jobs \cup {"pass"} : \E at \in {"test", "team", "look", "refuse"} :
           /\ job' = begun(kind, at)
           /\ at = IF kind = "fix" THEN "test" ELSE IF kind = "pass" THEN at ELSE "team"
           /\ kind = "pass" => at \in {"look", "refuse"}
  <2>1. CASE \E kind \in Jobs : StartJob(kind)
    <3>1. PICK kind \in Jobs : StartJob(kind)
      BY <2>1
    <3>2. kind # "pass"
      BY PatchingAssumption
    <3> QED BY <1>0, <3>1, <3>2 DEF StartJob, ProjectUnchanged
  <2>2. CASE \E a \in Asked : StartPass(a)
    BY <1>0, <2>2 DEF StartPass, ProjectUnchanged
  <2> QED BY <2>1, <2>2
<1>4. PICK kind \in Jobs \cup {"pass"}, at \in {"test", "team", "look", "refuse"} :
        /\ job' = begun(kind, at)
        /\ at = IF kind = "fix" THEN "test" ELSE IF kind = "pass" THEN at ELSE "team"
        /\ kind = "pass" => at \in {"look", "refuse"}
  BY <1>3
<1>5. DOMAIN job' = JobFields /\ job'.kind = kind /\ job'.at = at /\ job'.round = 0
  BY <1>2, <1>4
<1> HIDE DEF begun
<1>6. PlacesOf(kind, at)
  BY <1>4, PatchingAssumption DEF PlacesOf, Places, PassPlaces
<1>7. RoundsOf(kind, at, 0)
  <2>1. 0 < MaxIterations /\ 0 \in Nat
    BY PatchingAssumption
  <2>2. at # "given up"
    BY <1>4
  <2> QED BY <2>1, <2>2 DEF RoundsOf
<1> QED BY <1>0, <1>3, <1>5, <1>6, <1>7, JobIsNext

LEMMA PassKeeps ==
  ASSUME JobInv, Refuse \/ Look \/ ModelFails \/ Speaks \/ Acts \/ RunTool
  PROVE  JobInv'
<1>1. /\ DOMAIN job = JobFields /\ PlacesOf(job.kind, job.at) /\ RoundsOf(job.kind, job.at, job.round)
      /\ job.kind = "pass" /\ overwritten = {} /\ overwritten' = {} /\ edits \in Nat /\ edits' = edits
  BY JobIs DEF Refuse, Look, ModelFails, Speaks, Acts, RunTool, PassAt, ProjectUnchanged
<1>2. \A at \in PassPlaces : PlacesOf("pass", at) /\ RoundsOf("pass", at, job.round)
  BY <1>1, PatchingAssumption DEF PlacesOf, RoundsOf, PassPlaces, Places
<1>3. ASSUME NEW at \in {"reply", "act"}, job'.at = at, DOMAIN job' = JobFields,
             job'.kind = job.kind, job'.round = job.round
      PROVE  JobInv'
  <2>1. at \in PassPlaces /\ at \notin {"fixed", "answered"}
    BY DEF PassPlaces
  <2>2. Moves(at)
    BY <1>1, <1>3 DEF Moves
  <2> QED BY <1>1, <1>2, <2>1, <2>2, MovesKeep
<1>4. ASSUME NEW r, Return(r), Honest(r)
      PROVE  JobInv'
  <2>1. /\ DOMAIN job' = JobFields /\ job'.kind = "pass" /\ job'.at = "answered"
        /\ job'.round = job.round /\ job'.result = r
    BY <1>1, <1>4 DEF Return, JobFields
  <2>2. "answered" \in PassPlaces
    BY DEF PassPlaces
  <2> QED BY <1>1, <1>2, <1>4, <2>1, <2>2, JobIsNext
<1>5. Honest(Failed) /\ Honest(Result(TRUE, FALSE, FALSE, "nothing"))
  BY DEF Honest, Result, Failed
<1>6. \A tool \in Tools : \A error \in Errors(tool) : Honest(Result(Worked(tool), error, TRUE, tool))
  <2> SUFFICES ASSUME NEW tool \in Tools, NEW error \in Errors(tool)
               PROVE  Honest(Result(Worked(tool), error, TRUE, tool))
    OBVIOUS
  <2>1. tool \in {"works", "refuses", "raises", "is not there", "fails its own way"}
    BY ToolsAssumption
  <2>2. CASE Worked(tool)
    <3>1. Worked(tool) = TRUE
      BY <2>2, Zenon DEF Worked
    <3>2. error = FALSE
      BY <2>2 DEF Errors
    <3>3. Honest(Result(TRUE, FALSE, TRUE, tool))
      BY <2>1, <2>2 DEF Honest, Result, Worked
    <3> QED BY <3>1, <3>2, <3>3, Zenon
  <2>3. CASE ~Worked(tool)
    <3>0. Worked(tool) \in BOOLEAN
      BY DEF Worked
    <3>1. Worked(tool) = FALSE
      BY <2>3, <3>0
    <3>2. CASE tool = "is not there"
      <4>1. error = TRUE
        BY <2>3, <3>2 DEF Errors
      <4>2. Honest(Result(FALSE, TRUE, TRUE, tool))
        BY <3>2 DEF Honest, Result
      <4> QED BY <3>1, <4>1, <4>2, Zenon
    <3>3. CASE tool \in {"raises", "refuses"}
      <4>1. Honest(Result(FALSE, error, TRUE, tool))
        BY <3>3 DEF Honest, Result
      <4> QED BY <3>1, <4>1, Zenon
    <3>4. tool = "is not there" \/ tool \in {"raises", "refuses"}
      BY <2>1, <2>3 DEF Worked
    <3> QED BY <3>2, <3>3, <3>4
  <2> QED BY <2>2, <2>3
<1>7. CASE Look
  BY <1>1, <1>3, <1>7 DEF Look, JobFields
<1>8. CASE Acts
  BY <1>1, <1>3, <1>8 DEF Acts, JobFields
<1>9. CASE Refuse \/ ModelFails \/ Speaks
  BY <1>4, <1>5, <1>9 DEF Refuse, ModelFails, Speaks
<1>10. CASE RunTool
  BY <1>4, <1>6, <1>10 DEF RunTool
<1> QED BY <1>7, <1>8, <1>9, <1>10

LEMMA PatchersKeep ==
  ASSUME JobInv, \/ AskTeam \/ RunTests \/ ShowProject \/ GenerateFails \/ Generate
                 \/ SkipMissing \/ Backup \/ Operated \/ Write \/ Applied
  PROVE  JobInv'
<1>1. /\ DOMAIN job = JobFields /\ PlacesOf(job.kind, job.at) /\ RoundsOf(job.kind, job.at, job.round)
      /\ job.kind \in {"none", "pass", "preview"} => overwritten = {}
      /\ edits \in Nat /\ MaxIterations \in Nat \ {0} /\ Jobs \subseteq {"fix", "apply", "preview"}
  BY JobIs, PatchingAssumption, SMTT(60)
<1>2. edits' = edits
  BY DEF AskTeam, RunTests, ShowProject, GenerateFails, Generate, SkipMissing, Backup, Operated, Write, Applied,
         ProjectUnchanged
<1>3. ASSUME NEW at, job'.at = at, DOMAIN job' = JobFields, job'.kind = job.kind, job'.round = job.round,
             overwritten' = overwritten, job.at \notin PassPlaces \cup {"idle"},
             at \in {"team", "generate", "ask", "done", "raised"},
             at \in {"done", "raised"} \/ job.kind # "fix" \/ (at # "team" /\ job.at \in InRounds)
      PROVE  JobInv'
  <2>1. PlacesOf(job.kind, at)
    BY <1>1, <1>3 DEF PlacesOf, Places, PassPlaces
  <2>2. RoundsOf(job.kind, at, job.round)
    BY <1>1, <1>3 DEF RoundsOf, InRounds
  <2>3. Moves(at)
    BY <1>2, <1>3 DEF Moves
  <2> QED BY <1>3, <2>1, <2>2, <2>3, MovesKeep
<1>4. ASSUME NEW at, job'.at = at, DOMAIN job' = JobFields, job'.kind = job.kind, job'.round = job.round,
             job.kind \in {"fix", "apply"}, job.at \in InRounds, at \in {"apply", "read", "write"}
      PROVE  JobInv'
  <2>1. PlacesOf(job.kind, at)
    BY <1>1, <1>4 DEF PlacesOf, Places, PassPlaces
  <2>2. RoundsOf(job.kind, at, job.round)
    BY <1>1, <1>4 DEF RoundsOf, InRounds
  <2>3. Moves(at)
    BY <1>2, <1>4 DEF Moves
  <2> QED BY <1>4, <2>1, <2>2, <2>3, MovesKeep
<1>5. job.at \in {"apply", "read", "write"} => job.kind \in {"fix", "apply"} /\ job.at \in InRounds
  BY <1>1 DEF PlacesOf, Places, PassPlaces, InRounds
<1>6. CASE AskTeam
  <2>1. job.at = "team" /\ job.kind # "fix" /\ job.at \notin PassPlaces \cup {"idle"} /\ overwritten' = overwritten
    BY <1>1, <1>6 DEF AskTeam, At, ProjectUnchanged, PlacesOf, PassPlaces
  <2>2. PICK at \in {"team", "generate", "raised"} :
          \/ \E team : job' = [job EXCEPT !.team = team, !.at = at]
          \/ job' = [job EXCEPT !.at = at]
    BY <1>6 DEF AskTeam, Goto
  <2>3. DOMAIN job' = JobFields /\ job'.kind = job.kind /\ job'.round = job.round /\ job'.at = at
    BY <1>1, <2>2 DEF JobFields
  <2> QED BY <1>3, <2>1, <2>3
<1>7. CASE RunTests
  <2>1. /\ job.at = "test" /\ overwritten' = overwritten /\ texts' = texts
        /\ job' = [job EXCEPT !.at = IF Tested(texts) THEN "fixed" ELSE "generate", !.tested = texts]
    BY <1>7 DEF RunTests, At, ProjectUnchanged
  <2>2. /\ DOMAIN job' = JobFields /\ job'.kind = job.kind /\ job'.round = job.round /\ job'.tested = texts
        /\ job'.at = IF Tested(texts) THEN "fixed" ELSE "generate"
    BY <1>1, <2>1 DEF JobFields
  <2>3. job.kind \notin {"none", "pass", "preview"}
    BY <1>1, <2>1 DEF PlacesOf, PassPlaces
  <2>4. PlacesOf(job.kind, "fixed") /\ RoundsOf(job.kind, "fixed", job.round)
    BY <1>1, <2>3 DEF PlacesOf, Places, PassPlaces, RoundsOf, InRounds
  <2>5. CASE Tested(texts)
    <3>1. job'.at = "fixed"
      BY <2>2, <2>5
    <3> QED BY <1>1, <1>2, <2>1, <2>2, <2>3, <2>4, <2>5, <3>1, JobIsNext
  <2>6. CASE ~Tested(texts)
    <3>1. job'.at = "generate" /\ job.at \in InRounds /\ job.at \notin PassPlaces \cup {"idle"}
      BY <2>1, <2>2, <2>6 DEF InRounds, PassPlaces
    <3> QED BY <1>3, <2>1, <2>2, <3>1
  <2> QED BY <2>5, <2>6
<1>8. CASE ShowProject
  BY <1>1, <1>3, <1>8 DEF ShowProject, At, ProjectUnchanged, JobFields, PassPlaces, InRounds
<1>9. CASE GenerateFails
  BY <1>1, <1>3, <1>9 DEF GenerateFails, At, ProjectUnchanged, JobFields, PassPlaces, InRounds
<1>10. CASE Generate
  <2>1. /\ job.at = "ask" /\ overwritten' = overwritten /\ job.at \in InRounds
        /\ job.at \notin PassPlaces \cup {"idle"}
    BY <1>10 DEF Generate, At, ProjectUnchanged, InRounds, PassPlaces
  <2>2. PICK answer \in Answers :
          job' = [job EXCEPT !.patches = answer, !.shown = NoContext, !.modified = <<>>,
                             !.at = IF job.kind = "preview" THEN "done" ELSE "apply"]
    BY <1>10 DEF Generate
  <2>3. /\ DOMAIN job' = JobFields /\ job'.kind = job.kind /\ job'.round = job.round
        /\ job'.at = IF job.kind = "preview" THEN "done" ELSE "apply"
    BY <1>1, <2>2 DEF JobFields
  <2>4. CASE job.kind = "preview"
    BY <1>3, <2>1, <2>3, <2>4
  <2>5. CASE job.kind # "preview"
    <3>1. job.kind \in {"fix", "apply"}
      BY <1>1, <2>1, <2>5 DEF PlacesOf, PassPlaces
    <3> QED BY <1>4, <2>1, <2>3, <2>5, <3>1
  <2> QED BY <2>4, <2>5
<1>11. CASE SkipMissing
  BY <1>1, <1>4, <1>5, <1>11 DEF SkipMissing, At, ProjectUnchanged, JobFields
<1>12. CASE Backup
  BY <1>1, <1>4, <1>5, <1>12 DEF Backup, At, Goto, JobFields
<1>13. CASE Operated
  <2>1. /\ job.at = "read" /\ overwritten' = overwritten /\ job.at \in InRounds /\ job.kind \in {"fix", "apply"}
        /\ job.at \notin PassPlaces \cup {"idle"}
    BY <1>5, <1>13 DEF Operated, At, ProjectUnchanged, PassPlaces
  <2>2. PICK at \in {"raised", "write"} : \/ job' = [job EXCEPT !.at = at]
                                       \/ \E text : job' = [job EXCEPT !.text = text, !.at = at]
    BY <1>13 DEF Operated, Goto
  <2>3. DOMAIN job' = JobFields /\ job'.kind = job.kind /\ job'.round = job.round /\ job'.at = at
    BY <1>1, <2>2 DEF JobFields
  <2> QED BY <1>3, <1>4, <2>1, <2>3
<1>14. CASE Write
  BY <1>1, <1>4, <1>5, <1>14 DEF Write, At, JobFields
<1>15. CASE Applied
  <2>1. /\ job.at = "apply" /\ job.at \in InRounds /\ job.kind \in {"fix", "apply"} /\ overwritten' = overwritten
        /\ job.round \in Nat
    BY <1>1, <1>5, <1>15 DEF Applied, At, ProjectUnchanged, RoundsOf
  <2> DEFINE at == CASE job.kind # "fix" -> "done"
                     [] job.kind = "fix" /\ job.round + 1 < MaxIterations -> "test"
                     [] OTHER -> "given up"
  <2>2. at = IF job.kind # "fix" THEN "done" ELSE IF job.round + 1 < MaxIterations THEN "test" ELSE "given up"
    OBVIOUS
  <2>3. job' = [job EXCEPT !.round = @ + 1, !.at = at]
    BY <1>15 DEF Applied
  <2> HIDE DEF at
  <2>4. DOMAIN job' = JobFields /\ job'.kind = job.kind /\ job'.round = job.round + 1 /\ job'.at = at
    BY <1>1, <2>3 DEF JobFields
  <2>5. PlacesOf(job.kind, at)
    BY <1>1, <2>1, <2>2 DEF PlacesOf, Places, PassPlaces
  <2>6. RoundsOf(job.kind, at, job.round + 1)
    <3>1. job.kind = "fix" => job.round < MaxIterations
      BY <1>1, <2>1 DEF RoundsOf
    <3>2. at = "test" => job.round + 1 < MaxIterations
      BY <2>2
    <3>3. ASSUME at = "given up"
          PROVE  job.round + 1 = MaxIterations
      <4>1. job.kind = "fix" /\ ~(job.round + 1 < MaxIterations)
        BY <2>2, <3>3
      <4>2. job.round < MaxIterations
        BY <3>1, <4>1
      <4> QED BY <1>1, <2>1, <4>1, <4>2
    <3>4. at \in InRounds => at = "test"
      BY <2>2 DEF InRounds
    <3>5. job.round + 1 \in Nat
      BY <2>1
    <3> QED BY <3>2, <3>3, <3>4, <3>5 DEF RoundsOf
  <2>7. at \notin {"fixed", "answered"}
    BY <2>2
  <2> QED BY <1>1, <1>2, <2>1, <2>4, <2>5, <2>6, <2>7, JobIsNext
<1> QED BY <1>6, <1>7, <1>8, <1>9, <1>10, <1>11, <1>12, <1>13, <1>14, <1>15

LEMMA OthersKeep ==
  ASSUME JobInv, Tick \/ Edit
  PROVE  JobInv'
<1>1. /\ DOMAIN job = JobFields /\ PlacesOf(job.kind, job.at) /\ RoundsOf(job.kind, job.at, job.round)
      /\ job.kind \in {"none", "pass", "preview"} => overwritten = {}
      /\ edits \in Nat
      /\ job.at = "fixed" => Tested(job.tested) /\ (texts = job.tested \/ edits > 0)
      /\ job.at = "answered" => Honest(job.result)
  BY JobIs
<1>2. job' = job /\ overwritten' = overwritten
  BY DEF Tick, Edit
<1>3. edits' \in Nat /\ ((texts' = texts /\ edits' = edits) \/ edits' > 0)
  BY <1>1 DEF Tick, Edit
<1>4. job'.at = "fixed" => Tested(job'.tested) /\ (texts' = job'.tested \/ edits' > 0)
  BY <1>1, <1>2, <1>3
<1> QED BY <1>1, <1>2, <1>3, <1>4, JobIsNext

LEMMA JobUnchanged ==
  ASSUME JobInv, UNCHANGED patchVars
  PROVE  JobInv'
<1>1. job' = job /\ overwritten' = overwritten /\ edits' = edits /\ texts' = texts
  BY DEF patchVars
<1> QED BY <1>1, JobIs, JobIsNext

LEMMA JobKept ==
  ASSUME JobInv, [Next]_vars
  PROVE  JobInv'
<1>1. UNCHANGED vars => UNCHANGED patchVars
  BY DEF vars
<1> QED BY <1>1, StepKinds, MissionStepsAlone, StartsKeep, PassKeeps, PatchersKeep, OthersKeep, JobUnchanged
        DEF JobStep, PassStep

-----------------------------------------------------------------------------
(* What is written over can be found again                                 *)

\* path says text in some backup of bs, or somebody else wrote text.
Kept(bs, path, text) == text = Edited \/ \E b \in DOMAIN bs : b[2] = path /\ bs[b] = text
Target == Head(job.patches).path

LEMMA BackupIs ==
  /\ BackupInv <=>
       /\ \A o \in overwritten \ clobbered : Kept(backups, o[1], o[2])
       /\ \A o \in overwritten : o = <<o[1], o[2]>>
       /\ job.kind = "preview" => overwritten = {}
       /\ job.at \in {"read", "write"} => Target \in DOMAIN texts /\ Kept(backups, Target, texts[Target])
  /\ BackupInv' <=>
       /\ \A o \in overwritten' \ clobbered' : Kept(backups', o[1], o[2])
       /\ \A o \in overwritten' : o = <<o[1], o[2]>>
       /\ job'.kind = "preview" => overwritten' = {}
       /\ job'.at \in {"read", "write"} => Target' \in DOMAIN texts' /\ Kept(backups', Target', texts'[Target'])
BY DEF BackupInv, PatchesAreRecoverable, Kept, Target

\* A step of a job that touches neither texts nor backups.
LEMMA QuietKeeps ==
  ASSUME BackupInv, JobInv', UNCHANGED <<texts, backups, overwritten, clobbered>>,
         job'.at \in {"read", "write"} => job.at \in {"read", "write"} /\ job'.patches = job.patches
  PROVE  BackupInv'
<1>1. job'.kind = "preview" => overwritten' = {}
  BY JobIsNext
<1>2. job'.patches = job.patches => Target' = Target
  BY DEF Target
<1> QED BY <1>1, <1>2, BackupIs

\* One that is done with its files, or has not come to them.
LEMMA IdleKeeps ==
  ASSUME JobInv, BackupInv, JobInv',
         \/ (\E kind \in Jobs : StartJob(kind)) \/ AskTeam \/ RunTests \/ ShowProject \/ GenerateFails \/ Generate
         \/ SkipMissing \/ Applied \/ PassStep
  PROVE  BackupInv'
<1>1. DOMAIN job = JobFields
  BY JobIs, SMTT(60)
<1>2. UNCHANGED <<texts, backups, overwritten, clobbered>>
  BY DEF StartJob, AskTeam, RunTests, ShowProject, GenerateFails, Generate, SkipMissing, Applied,
         PassStep, StartPass, Refuse, Look, ModelFails, Speaks, Acts, RunTool, PassAt, ProjectUnchanged
<1>3. job'.at \notin {"read", "write"}
  <2>1. CASE \E kind \in Jobs : StartJob(kind)
    BY <2>1 DEF StartJob, NoJob
  <2>2. CASE AskTeam \/ RunTests \/ ShowProject \/ GenerateFails \/ Generate
    BY <1>1, <2>2 DEF AskTeam, RunTests, ShowProject, GenerateFails, Generate, Goto, JobFields
  <2>3. CASE SkipMissing \/ Applied
    BY <1>1, <2>3 DEF SkipMissing, Applied, At, JobFields
  <2>4. CASE PassStep
    BY <1>1, <2>4 DEF PassStep, StartPass, Refuse, Look, ModelFails, Speaks, Acts, RunTool, PassAt, Return,
                      NoJob, JobFields
  <2> QED BY <2>1, <2>2, <2>3, <2>4
<1> QED BY <1>2, <1>3, QuietKeeps

LEMMA BackupKeeps ==
  ASSUME JobInv, BackupInv, JobInv', Backup
  PROVE  BackupInv'
<1> DEFINE path == Target
           name == <<clock, path>>
<1>1. /\ DOMAIN job = JobFields
      /\ \A o \in overwritten \ clobbered : Kept(backups, o[1], o[2])
      /\ \A o \in overwritten : o = <<o[1], o[2]>>
  BY JobIs, BackupIs
<1>2. /\ path \in DOMAIN texts
      /\ backups' = Saved(backups, name, texts[path])
      /\ clobbered' = IF name \in DOMAIN backups THEN clobbered \cup {<<path, backups[name]>>} ELSE clobbered
      /\ overwritten' = overwritten /\ texts' = texts /\ job' = [job EXCEPT !.at = "read"]
  BY DEF Backup, Target, Goto
<1>3. job'.patches = job.patches /\ Target' = path /\ job'.at = "read"
  BY <1>1, <1>2 DEF JobFields, Target
<1>4. /\ DOMAIN backups' = {name} \cup DOMAIN backups
      /\ backups'[name] = texts[path] /\ name[2] = path
      /\ \A b \in DOMAIN backups : b # name => backups'[b] = backups[b]
  <2>1. name[2] = path
    OBVIOUS
  <2> HIDE DEF name
  <2> QED BY <1>2, <2>1 DEF Saved
<1>5. Kept(backups', Target', texts'[Target'])
  BY <1>2, <1>3, <1>4 DEF Kept
<1> HIDE DEF path, name
<1>6. ASSUME NEW o \in overwritten' \ clobbered'
      PROVE  Kept(backups', o[1], o[2])
  <2>1. o \in overwritten \ clobbered
    BY <1>2
  <2>2. CASE o[2] = Edited
    BY <2>2 DEF Kept
  <2>3. CASE o[2] # Edited
    <3>1. PICK b \in DOMAIN backups : b[2] = o[1] /\ backups[b] = o[2]
      BY <1>1, <2>1, <2>3 DEF Kept
    <3>2. CASE b # name
      BY <1>4, <3>1, <3>2 DEF Kept
    <3>3. CASE b = name
      \* The copy that is replaced is counted as such.
      <4>1. o[1] = path /\ o[2] = backups[name] /\ <<path, backups[name]>> \in clobbered'
        BY <1>2, <1>4, <3>1, <3>3
      <4>2. o = <<o[1], o[2]>>
        BY <1>1, <2>1
      <4> QED BY <4>1, <4>2
    <3> QED BY <3>2, <3>3
  <2> QED BY <2>2, <2>3
<1>7. job'.kind = "preview" => overwritten' = {}
  BY JobIsNext
<1> QED BY <1>1, <1>2, <1>3, <1>5, <1>6, <1>7, BackupIs

LEMMA OperatedKeeps ==
  ASSUME JobInv, BackupInv, JobInv', Operated
  PROVE  BackupInv'
<1>1. DOMAIN job = JobFields /\ job.at = "read" /\ UNCHANGED <<texts, backups, overwritten, clobbered>>
  BY JobIs DEF Operated, At, ProjectUnchanged
<1>2. job'.patches = job.patches
  BY <1>1 DEF Operated, Goto, JobFields
<1> QED BY <1>1, <1>2, QuietKeeps

LEMMA WriteKeeps ==
  ASSUME JobInv, BackupInv, JobInv', Write
  PROVE  BackupInv'
<1>1. /\ DOMAIN job = JobFields /\ job.at = "write"
      /\ overwritten' = overwritten \cup {<<Target, texts[Target]>>} /\ backups' = backups /\ clobbered' = clobbered
      /\ job' = [job EXCEPT !.patches = Tail(@), !.at = "apply", !.modified = Append(@, Target)]
  BY JobIs DEF Write, At, Target
<1>2. job'.at = "apply"
  BY <1>1 DEF JobFields
<1>3. /\ \A o \in overwritten \ clobbered : Kept(backups, o[1], o[2])
      /\ \A o \in overwritten : o = <<o[1], o[2]>>
      /\ Kept(backups, Target, texts[Target])
  BY <1>1, BackupIs
<1>4. \A o \in overwritten' \ clobbered' : Kept(backups', o[1], o[2])
  <2>1. \A o \in overwritten' \ clobbered' : o \in overwritten \ clobbered \/ o = <<Target, texts[Target]>>
    BY <1>1
  <2>2. \A p, t : <<p, t>>[1] = p /\ <<p, t>>[2] = t
    OBVIOUS
  <2> QED BY <1>1, <1>3, <2>1, <2>2
<1>5. \A o \in overwritten' : o = <<o[1], o[2]>>
  BY <1>1, <1>3
<1>6. job'.kind = "preview" => overwritten' = {}
  BY JobIsNext
<1> QED BY <1>2, <1>4, <1>5, <1>6, BackupIs

LEMMA ForeignKeeps ==
  ASSUME BackupInv, JobInv', Tick \/ Edit
  PROVE  BackupInv'
<1>1. job' = job /\ UNCHANGED <<backups, overwritten, clobbered>>
  BY DEF Tick, Edit
<1>2. CASE Tick
  BY <1>1, <1>2, QuietKeeps DEF Tick
<1>3. CASE Edit
  <2>1. PICK path \in Files : texts' = Saved(texts, path, Edited)
    BY <1>3 DEF Edit
  <2>2. DOMAIN texts \subseteq DOMAIN texts' /\ \A p \in DOMAIN texts : texts'[p] \in {texts[p], Edited}
    BY <2>1 DEF Saved
  <2>3. Target' = Target
    BY <1>1 DEF Target
  <2>4. /\ \A o \in overwritten \ clobbered : Kept(backups, o[1], o[2])
        /\ \A o \in overwritten : o = <<o[1], o[2]>>
        /\ job.kind = "preview" => overwritten = {}
        /\ job.at \in {"read", "write"} => Target \in DOMAIN texts /\ Kept(backups, Target, texts[Target])
    BY BackupIs
  <2>5. job'.at \in {"read", "write"} => Target' \in DOMAIN texts' /\ Kept(backups', Target', texts'[Target'])
    BY <1>1, <2>2, <2>3, <2>4 DEF Kept
  <2> QED BY <1>1, <2>4, <2>5, BackupIs
<1> QED BY <1>2, <1>3

LEMMA BackupKept ==
  ASSUME JobInv, BackupInv, [Next]_vars
  PROVE  BackupInv'
<1>1. JobInv'
  BY JobKept
<1>2. CASE UNCHANGED patchVars
  BY <1>1, <1>2, QuietKeeps DEF patchVars
<1>3. UNCHANGED vars => UNCHANGED patchVars
  BY DEF vars
<1> QED BY <1>1, <1>2, <1>3, StepKinds, MissionStepsAlone, IdleKeeps, BackupKeeps, OperatedKeeps, WriteKeeps, ForeignKeeps
        DEF JobStep

-----------------------------------------------------------------------------
(* Going through a list                                                    *)

\* What 0 has and n + 1 has if n has it, every natural number has.
LEMMA Induction ==
  ASSUME NEW S, 0 \in S, \A n \in Nat : n \in S => n + 1 \in S
  PROVE  \A n \in Nat : n \in S
<1> DEFINE C == {n \in Nat : n \notin S}
<1> SUFFICES ASSUME C # {}
             PROVE  FALSE
  OBVIOUS
<1>1. PICK c \in C : \A x \in C : c <= x
  BY Least
<1>2. c - 1 \in Nat /\ c - 1 \notin C
  BY <1>1
<1> QED BY <1>1, <1>2

\* A step for every number up to n, from base.
Steps(n, D) == [1..n -> [D -> D]]
Goes(f, n, D, base, step) ==
  f \in [0..n -> D] /\ f[0] = base /\ \A k \in 1..n : f[k] = step[k][f[k - 1]]
LEMMA Iterates ==
  ASSUME NEW n \in Nat, NEW D, NEW base \in D, NEW step \in Steps(n, D)
  PROVE  \E f : Goes(f, n, D, base, step)
<1> DEFINE Upto(m, f) == f \in [0..m -> D] /\ f[0] = base /\ \A k \in 1..m : f[k] = step[k][f[k - 1]]
           S == {m \in Nat : m <= n => \E f : Upto(m, f)}
<1>1. 0 \in S
  <2>1. Upto(0, [k \in 0..0 |-> base])
    OBVIOUS
  <2> QED BY <2>1
<1>2. ASSUME NEW m \in Nat, m \in S
      PROVE  m + 1 \in S
  <2> SUFFICES ASSUME m + 1 <= n
               PROVE  \E f : Upto(m + 1, f)
    BY SMTT(60)
  <2>1. PICK f : Upto(m, f)
    BY <1>2
  <2> DEFINE g == [k \in 0..(m + 1) |-> IF k = m + 1 THEN step[m + 1][f[m]] ELSE f[k]]
  <2>2. step[m + 1][f[m]] \in D
    <3>1. m + 1 \in 1..n /\ f[m] \in D
      BY <2>1
    <3> QED BY <3>1 DEF Steps
  <2>3. g \in [0..(m + 1) -> D]
    <3>1. \A k \in 0..(m + 1) : k # m + 1 => f[k] \in D
      BY <2>1
    <3> QED BY <2>2, <3>1
  <2>4. g[0] = base
    BY <2>1
  <2>5. ASSUME NEW k \in 1..(m + 1)
        PROVE  g[k] = step[k][g[k - 1]]
    <3>1. k - 1 \in 0..m /\ g[k - 1] = f[k - 1]
      OBVIOUS
    <3>2. CASE k = m + 1
      BY <3>1, <3>2
    <3>3. CASE k # m + 1
      <4>1. k \in 1..m /\ g[k] = f[k]
        BY <3>3
      <4> QED BY <2>1, <3>1, <4>1
    <3> QED BY <3>2, <3>3
  <2>6. Upto(m + 1, g)
    <3> HIDE DEF g
    <3> QED BY <2>3, <2>4, <2>5
  <2> QED BY <2>6
<1>3. \A m \in Nat : m \in S
  <2> HIDE DEF S
  <2> QED BY <1>1, <1>2, Induction
<1>4. PICK f : Upto(n, f)
  BY <1>3
<1> QED BY <1>4 DEF Goes

-----------------------------------------------------------------------------
(* The length of a context                                                 *)

Adds(blocks, f) == f = [k \in 0..Len(blocks) |-> IF k = 0 THEN 0 ELSE f[k - 1] + blocks[k].size]
Sizes(blocks) == CHOOSE f : Adds(blocks, f)
Total(blocks) == Sizes(blocks)[Len(blocks)]

LEMMA LengthIs ==
  ASSUME NEW blocks
  PROVE  ContextLength(blocks) = Total(blocks) + Max({0, Len(blocks) - 1})
BY DEF ContextLength, Total, Sizes, Adds

LEMMA SizesAre ==
  ASSUME NEW B, \A b \in B : b.size \in Nat, NEW blocks \in Seq(B)
  PROVE  Adds(blocks, Sizes(blocks)) /\ \A k \in 0..Len(blocks) : Sizes(blocks)[k] \in Nat
<1> DEFINE n == Len(blocks)
           step == [k \in 1..n |-> [x \in Nat |-> x + blocks[k].size]]
<1>0. n \in Nat /\ \A k \in 1..n : blocks[k].size \in Nat
  OBVIOUS
<1>1. step \in [1..n -> [Nat -> Nat]]
  <2> HIDE DEF n
  <2>1. ASSUME NEW k \in 1..n
        PROVE  [x \in Nat |-> x + blocks[k].size] \in [Nat -> Nat]
    <3>1. blocks[k].size \in Nat
      BY <1>0
    <3> QED BY <3>1
  <2> QED BY <2>1
<1>2. PICK f : Goes(f, n, Nat, 0, step)
  <2>1. step \in Steps(n, Nat)
    BY <1>1 DEF Steps
  <2> HIDE DEF step, n
  <2> QED BY <1>0, <2>1, Iterates
<1>3. /\ f \in [0..n -> Nat] /\ f[0] = 0
      /\ \A k \in 1..n : f[k] = f[k - 1] + blocks[k].size
  <2>1. f \in [0..n -> Nat] /\ f[0] = 0 /\ \A k \in 1..n : f[k] = step[k][f[k - 1]]
    <3> HIDE DEF step
    <3> QED BY <1>2 DEF Goes
  <2>2. ASSUME NEW k \in 1..n
        PROVE  f[k] = f[k - 1] + blocks[k].size
    <3>1. k - 1 \in 0..n
      <4> HIDE DEF n
      <4> QED BY <1>0
    <3>2. f[k - 1] \in Nat
      <4> HIDE DEF n, step
      <4> QED BY <2>1, <3>1
    <3> HIDE DEF n
    <3> QED BY <2>1, <3>2
  <2> QED BY <2>1, <2>2
<1>4. Adds(blocks, f)
  <2> HIDE DEF step
  <2>1. \A k \in 0..n : f[k] = IF k = 0 THEN 0 ELSE f[k - 1] + blocks[k].size
    <3> HIDE DEF n
    <3> QED BY <1>0, <1>3
  <2> QED BY <1>3, <2>1 DEF Adds
<1>5. Adds(blocks, Sizes(blocks))
  BY <1>4 DEF Sizes
<1> DEFINE g == Sizes(blocks)
           S == {k \in Nat : k <= n => g[k] \in Nat}
<1>6. g[0] = 0 /\ \A k \in 1..n : g[k] = g[k - 1] + blocks[k].size
  <2>1. g = [k \in 0..n |-> IF k = 0 THEN 0 ELSE g[k - 1] + blocks[k].size]
    BY <1>5 DEF Adds
  <2> HIDE DEF g, n
  <2> QED BY <1>0, <2>1
<1>7. \A k \in Nat : k \in S
  <2> HIDE DEF g, n, step
  <2>1. 0 \in S
    BY <1>6
  <2>2. ASSUME NEW k \in Nat, k \in S
        PROVE  k + 1 \in S
    <3> SUFFICES ASSUME k + 1 <= n
                 PROVE  g[k + 1] \in Nat
      OBVIOUS
    <3>1. g[k] \in Nat /\ k + 1 \in 1..n /\ (k + 1) - 1 = k
      BY <1>0, <2>2
    <3>2. g[k + 1] = g[k] + blocks[k + 1].size /\ blocks[k + 1].size \in Nat
      BY <1>0, <1>6, <3>1
    <3> QED BY <3>1, <3>2
  <2> HIDE DEF S
  <2> QED BY <2>1, <2>2, Induction
<1> QED BY <1>0, <1>5, <1>7

LEMMA TotalsAdd ==
  ASSUME NEW B, \A b \in B : b.size \in Nat, NEW blocks \in Seq(B), NEW last \in B
  PROVE  Total(blocks) \in Nat /\ Total(Append(blocks, last)) = Total(blocks) + last.size
<1> DEFINE n == Len(blocks)
           more == Append(blocks, last)
           f == Sizes(blocks)
           g == Sizes(more)
           S == {k \in Nat : k <= n => f[k] = g[k]}
<1>0. n \in Nat /\ more \in Seq(B) /\ Len(more) = n + 1 /\ more[n + 1] = last
      /\ \A k \in 1..n : more[k] = blocks[k]
  OBVIOUS
<1>1. f[0] = 0 /\ \A k \in 1..n : f[k] = f[k - 1] + blocks[k].size
  <2>1. Adds(blocks, f)
    BY SizesAre
  <2> HIDE DEF f
  <2> QED BY <1>0, <2>1 DEF Adds
<1>2. g[0] = 0 /\ \A k \in 1..(n + 1) : g[k] = g[k - 1] + more[k].size
  <2>1. Adds(more, g)
    BY <1>0, SizesAre
  <2> HIDE DEF g, more, n
  <2> QED BY <1>0, <2>1 DEF Adds
<1>3. \A k \in Nat : k \in S
  <2> HIDE DEF f, g, n, more
  <2>1. 0 \in S
    BY <1>1, <1>2
  <2>2. ASSUME NEW k \in Nat, k \in S
        PROVE  k + 1 \in S
    <3> SUFFICES ASSUME k + 1 <= n
                 PROVE  f[k + 1] = g[k + 1]
      OBVIOUS
    <3>1. k + 1 \in 1..n /\ k + 1 \in 1..(n + 1) /\ (k + 1) - 1 = k /\ f[k] = g[k]
      BY <1>0, <2>2
    <3> QED BY <1>0, <1>1, <1>2, <3>1
  <2> HIDE DEF S
  <2> QED BY <2>1, <2>2, Induction
<1>4. f[n] = g[n] /\ g[n + 1] = g[n] + last.size
  <2> HIDE DEF f, g, more
  <2> QED BY <1>0, <1>2, <1>3
<1>5. f[n] \in Nat
  BY <1>0, SizesAre
<1> QED BY <1>0, <1>4, <1>5 DEF Total
-----------------------------------------------------------------------------
(* The blocks of a context                                                 *)

LEMMA SmallerOf ==
  ASSUME NEW a \in Int, NEW b \in Int
  PROVE  Min({a, b}) = IF a <= b THEN a ELSE b
<1> DEFINE m == IF a <= b THEN a ELSE b
<1>1. m \in {a, b} /\ \A x \in {a, b} : m <= x
  OBVIOUS
<1>2. \A y \in {a, b} : (\A x \in {a, b} : y <= x) => y = m
  OBVIOUS
<1> QED BY <1>1, <1>2 DEF Min

LEMMA LargerOf ==
  ASSUME NEW a \in Int, NEW b \in Int
  PROVE  Max({a, b}) = IF a >= b THEN a ELSE b
<1> DEFINE m == IF a >= b THEN a ELSE b
<1>1. m \in {a, b} /\ \A x \in {a, b} : m >= x
  OBVIOUS
<1>2. \A y \in {a, b} : (\A x \in {a, b} : y >= x) => y = m
  OBVIOUS
<1> QED BY <1>1, <1>2 DEF Max

Block(P) == [path : P, size : Nat]
Acc(P) == [used : 0..MaxChars, full : BOOLEAN, blocks : Seq(Block(P))]
\* The step of a path of P: it is left out, or it gets its block.
Added(acc, new, p, least, out) ==
  \/ new.blocks = acc.blocks /\ new.used = acc.used /\ (acc.full => new.full)
  \/ /\ ~acc.full /\ p \notin out
     /\ \E size \in Nat : /\ new.blocks = Append(acc.blocks, [path |-> p, size |-> size])
                          /\ new.used = acc.used + size /\ (new.full \/ size >= least)

LEMMA AddBlockIs ==
  ASSUME NEW ts, \A p \in DOMAIN ts : Len(ts[p]) \in Nat,
         NEW acc \in Acc(DOMAIN ts), NEW p \in DOMAIN ts
  PROVE  /\ AddBlock(ts, acc, p) \in Acc(DOMAIN ts)
         /\ Added(acc, AddBlock(ts, acc, p), p, HeaderSize + 1, Binary)
<1> DEFINE P == DOMAIN ts
           remaining == MaxChars - acc.used
           content == ReadText(ts, p, remaining)
           size == HeaderSize + content
           new == AddBlock(ts, acc, p)
<1>1. /\ MaxChars \in Nat /\ HeaderSize \in Nat /\ acc.used \in 0..MaxChars /\ acc.full \in BOOLEAN
      /\ acc.blocks \in Seq(Block(P)) /\ acc = [used |-> acc.used, full |-> acc.full, blocks |-> acc.blocks]
  BY ContextAssumption DEF Acc
<1>2. remaining \in Nat /\ acc.used + remaining = MaxChars
  BY <1>1
<1>3. content \in Nat /\ (content # 0 => p \notin Binary)
  <2>1. Len(ts[p]) \in Int
    OBVIOUS
  <2>2. Min({Len(ts[p]), remaining}) \in Nat
    <3> HIDE DEF remaining
    <3> QED BY <1>2, <2>1, SmallerOf
  <2> QED BY <2>2 DEF ReadText
<1>4. \A x \in Nat : /\ [path |-> p, size |-> x] \in Block(P)
                     /\ Append(acc.blocks, [path |-> p, size |-> x]) \in Seq(Block(P))
  <2>1. \A x \in Nat : [path |-> p, size |-> x] \in Block(P)
    BY DEF Block
  <2> QED BY <1>1, <2>1
<1>5. new = IF acc.full \/ remaining <= 0 THEN [acc EXCEPT !.full = TRUE]
            ELSE IF content = 0 THEN acc
            ELSE IF size > remaining
                 THEN [used |-> MaxChars, full |-> TRUE, blocks |-> Append(acc.blocks, [path |-> p, size |-> remaining])]
                 ELSE [used |-> acc.used + size, full |-> FALSE, blocks |-> Append(acc.blocks, [path |-> p, size |-> size])]
  BY DEF AddBlock
<1> HIDE DEF new, remaining, content
<1>6. CASE acc.full \/ remaining <= 0
  <2>1. new = [used |-> acc.used, full |-> TRUE, blocks |-> acc.blocks]
    BY <1>1, <1>5, <1>6
  <2> QED BY <1>1, <2>1 DEF Acc, Added, new
<1>7. CASE ~(acc.full \/ remaining <= 0) /\ content = 0
  BY <1>5, <1>7 DEF Added, new
<1>8. CASE ~(acc.full \/ remaining <= 0) /\ content # 0 /\ size > remaining
  <2>1. new = [used |-> MaxChars, full |-> TRUE, blocks |-> Append(acc.blocks, [path |-> p, size |-> remaining])]
    BY <1>5, <1>8
  <2> QED BY <1>1, <1>2, <1>3, <1>4, <1>8, <2>1 DEF Acc, Added, new
<1>9. CASE ~(acc.full \/ remaining <= 0) /\ content # 0 /\ ~(size > remaining)
  <2>1. new = [used |-> acc.used + size, full |-> FALSE, blocks |-> Append(acc.blocks, [path |-> p, size |-> size])]
    BY <1>5, <1>9
  <2>2. size \in Nat /\ size >= HeaderSize + 1 /\ acc.used + size \in 0..MaxChars
    BY <1>1, <1>2, <1>3, <1>9
  <2> HIDE DEF size
  <2> QED BY <1>1, <1>2, <1>3, <1>4, <1>9, <2>1, <2>2 DEF Acc, Added, new
<1> QED BY <1>6, <1>7, <1>8, <1>9

LEMMA AddFileIs ==
  ASSUME NEW ts, \A p \in DOMAIN ts : Len(ts[p]) \in Nat,
         NEW acc \in Acc(DOMAIN ts), NEW p \in DOMAIN ts
  PROVE  /\ AddFile(ts, acc, p) \in Acc(DOMAIN ts)
         /\ Added(acc, AddFile(ts, acc, p), p, HeaderSize, {})
<1> DEFINE P == DOMAIN ts
           remaining == MaxChars - acc.used
           whole == HeaderSize + Len(ts[p])
           size == Min({whole, remaining})
           new == AddFile(ts, acc, p)
<1>1. /\ MaxChars \in Nat /\ HeaderSize \in Nat /\ acc.used \in 0..MaxChars /\ acc.full \in BOOLEAN
      /\ acc.blocks \in Seq(Block(P)) /\ acc = [used |-> acc.used, full |-> acc.full, blocks |-> acc.blocks]
  BY ContextAssumption DEF Acc
<1>2. remaining \in Nat /\ acc.used + remaining = MaxChars /\ whole \in Nat /\ whole >= HeaderSize
  BY <1>1
<1>3. new = IF acc.full \/ acc.used >= MaxChars THEN [acc EXCEPT !.full = TRUE]
            ELSE [used |-> acc.used + size, full |-> size < whole,
                  blocks |-> Append(acc.blocks, [path |-> p, size |-> size])]
  BY DEF AddFile
<1>4. size = IF whole <= remaining THEN whole ELSE remaining
  <2> HIDE DEF whole, remaining
  <2> QED BY <1>2, SmallerOf
<1>5. size \in Nat /\ acc.used + size \in 0..MaxChars /\ (size < whole \/ size >= HeaderSize)
  <2> HIDE DEF whole, remaining, size
  <2> QED BY <1>1, <1>2, <1>4
<1> HIDE DEF new, remaining, size, whole
<1>6. Append(acc.blocks, [path |-> p, size |-> size]) \in Seq(Block(P))
  <2>1. [path |-> p, size |-> size] \in Block(P)
    BY <1>5 DEF Block
  <2> QED BY <1>1, <2>1
<1>7. CASE acc.full \/ acc.used >= MaxChars
  <2>1. new = [used |-> acc.used, full |-> TRUE, blocks |-> acc.blocks]
    BY <1>1, <1>3, <1>7
  <2> QED BY <1>1, <2>1 DEF Acc, Added, new
<1>8. CASE ~(acc.full \/ acc.used >= MaxChars)
  <2>1. new = [used |-> acc.used + size, full |-> size < whole,
               blocks |-> Append(acc.blocks, [path |-> p, size |-> size])]
    BY <1>3, <1>8
  <2>2. new \in Acc(P)
    BY <1>5, <1>6, <2>1 DEF Acc
  <2>3. /\ ~acc.full /\ p \notin {} /\ size \in Nat
        /\ new.blocks = Append(acc.blocks, [path |-> p, size |-> size])
        /\ new.used = acc.used + size /\ (new.full \/ size >= HeaderSize)
    BY <1>5, <1>8, <2>1
  <2>4. Added(acc, new, p, HeaderSize, {})
    BY <2>3 DEF Added
  <2> QED BY <2>2, <2>4 DEF new
<1> QED BY <1>7, <1>8

\* What is in the context after k paths.
Taken(acc, paths, k, least, out) ==
  LET n == Len(acc.blocks)
  IN /\ Total(acc.blocks) = acc.used
     /\ n <= k
     /\ \A j \in 1..n : j < n \/ ~acc.full => acc.blocks[j].size >= least
     /\ \E at \in [1..n -> 1..k] :
          \A j \in 1..n : /\ acc.blocks[j].path = paths[at[j]] /\ paths[at[j]] \notin out
                          /\ \A i \in 1..(j - 1) : at[i] < at[j]

LEMMA NothingTaken ==
  ASSUME NEW P, NEW paths, NEW least, NEW out
  PROVE  NoBlocks \in Acc(P) /\ Taken(NoBlocks, paths, 0, least, out)
<1>1. NoBlocks \in Acc(P)
  BY ContextAssumption DEF NoBlocks, Acc
<1>2. Total(<<>>) = 0
  <2> DEFINE e == <<>>
  <2>1. e \in Seq(Block(P)) /\ Len(e) = 0 /\ \A b \in Block(P) : b.size \in Nat
    BY DEF Block
  <2>2. Adds(e, Sizes(e))
    <3> HIDE DEF e
    <3> QED BY <2>1, SizesAre
  <2> HIDE DEF e
  <2>3. Sizes(e)[0] = 0
    BY <2>1, <2>2 DEF Adds
  <2> QED BY <2>1, <2>3 DEF Total, e
<1> DEFINE at == [j \in 1..0 |-> 0]
<1>3. at \in [1..0 -> 1..0] /\ \A j : j \notin 1..0
  OBVIOUS
<1>4. NoBlocks.blocks = <<>> /\ NoBlocks.used = 0 /\ Len(<<>>) = 0
  BY DEF NoBlocks
<1>5. \E f \in [1..0 -> 1..0] :
        \A j \in 1..0 : /\ NoBlocks.blocks[j].path = paths[f[j]] /\ paths[f[j]] \notin out
                        /\ \A i \in 1..(j - 1) : f[i] < f[j]
  <2> HIDE DEF at
  <2> QED BY <1>3
<1>6. Taken(NoBlocks, paths, 0, least, out)
  <2> DEFINE acc == NoBlocks
  <2>1. Len(acc.blocks) = 0 /\ Total(acc.blocks) = acc.used /\ 0 <= 0
    BY <1>2, <1>4
  <2>2. \A j \in 1..0 : j < 0 \/ ~acc.full => acc.blocks[j].size >= least
    BY <1>3
  <2> HIDE DEF acc
  <2>3. \E f \in [1..0 -> 1..0] :
          \A j \in 1..0 : /\ acc.blocks[j].path = paths[f[j]] /\ paths[f[j]] \notin out
                          /\ \A i \in 1..(j - 1) : f[i] < f[j]
    BY <1>5 DEF acc
  <2>4. Taken(acc, paths, 0, least, out)
    BY <2>1, <2>2, <2>3 DEF Taken
  <2> QED BY <2>4 DEF acc
<1> QED BY <1>1, <1>6

LEMMA TakenGoesOn ==
  ASSUME NEW P, NEW paths \in Seq(P), NEW k \in 1..Len(paths), NEW least, NEW out,
         NEW acc \in Acc(P), Taken(acc, paths, k - 1, least, out),
         NEW new \in Acc(P), Added(acc, new, paths[k], least, out)
  PROVE  Taken(new, paths, k, least, out)
<1> DEFINE n == Len(acc.blocks)
           Follow(at, blocks, m) ==
             \A j \in 1..m : /\ blocks[j].path = paths[at[j]] /\ paths[at[j]] \notin out
                             /\ \A i \in 1..(j - 1) : at[i] < at[j]
<1>1. /\ acc.blocks \in Seq(Block(P)) /\ new.blocks \in Seq(Block(P)) /\ n \in Nat /\ k \in Nat
      /\ acc.full \in BOOLEAN /\ new.full \in BOOLEAN /\ \A b \in Block(P) : b.size \in Nat
  BY DEF Acc, Block
<1>2. /\ Total(acc.blocks) = acc.used /\ n <= k - 1
      /\ \A j \in 1..n : j < n \/ ~acc.full => acc.blocks[j].size >= least
  BY DEF Taken
<1>3. PICK at \in [1..n -> 1..(k - 1)] : Follow(at, acc.blocks, n)
  BY DEF Taken
<1>4. CASE new.blocks = acc.blocks /\ new.used = acc.used /\ (acc.full => new.full)
  <2>1. at \in [1..n -> 1..k]
    <3> HIDE DEF n
    <3> QED BY <1>1, <1>3
  <2>2. Follow(at, new.blocks, n)
    BY <1>3, <1>4
  <2>3. Len(new.blocks) = n
    BY <1>4
  <2>4. \A j \in 1..n : j < n \/ ~new.full => new.blocks[j].size >= least
    BY <1>2, <1>4
  <2>5. Total(new.blocks) = new.used /\ n <= k
    BY <1>1, <1>2, <1>4
  <2> HIDE DEF n
  <2> QED BY <2>1, <2>2, <2>3, <2>4, <2>5 DEF Taken
<1>5. ASSUME NEW size \in Nat, ~acc.full, paths[k] \notin out,
             new.blocks = Append(acc.blocks, [path |-> paths[k], size |-> size]),
             new.used = acc.used + size, new.full \/ size >= least
      PROVE  Taken(new, paths, k, least, out)
  <2> DEFINE b == [path |-> paths[k], size |-> size]
             to == [j \in 1..(n + 1) |-> IF j = n + 1 THEN k ELSE at[j]]
  <2>1. b \in Block(P) /\ b.path = paths[k] /\ b.size = size
    BY DEF Block
  <2> HIDE DEF b
  <2>2. new.blocks = Append(acc.blocks, b)
    BY <1>5 DEF b
  <2>3. /\ Len(new.blocks) = n + 1 /\ new.blocks[n + 1] = b
        /\ \A j \in 1..n : new.blocks[j] = acc.blocks[j]
    BY <1>1, <2>1, <2>2
  <2>4. Total(new.blocks) = new.used
    <3>1. Total(new.blocks) = Total(acc.blocks) + b.size
      BY <1>1, <2>1, <2>2, TotalsAdd
    <3> QED BY <1>2, <1>5, <2>1, <3>1
  <2>5. to \in [1..(n + 1) -> 1..k]
    <3> HIDE DEF n
    <3> QED BY <1>1, <1>3
  <2>6. ASSUME NEW j \in 1..(n + 1)
        PROVE  /\ new.blocks[j].path = paths[to[j]] /\ paths[to[j]] \notin out
               /\ \A i \in 1..(j - 1) : to[i] < to[j]
    <3> HIDE DEF n
    <3>1. CASE j = n + 1
      <4>1. to[j] = k /\ new.blocks[j].path = paths[k]
        BY <1>1, <2>1, <2>3, <3>1
      <4>2. ASSUME NEW i \in 1..(j - 1)
            PROVE  to[i] < to[j]
        <5>1. i \in 1..n /\ to[i] = at[i] /\ at[i] \in 1..(k - 1)
          BY <1>1, <1>3, <3>1
        <5> QED BY <1>1, <4>1, <5>1
      <4> QED BY <1>5, <4>1, <4>2
    <3>2. CASE j # n + 1
      <4>1. j \in 1..n /\ to[j] = at[j] /\ \A i \in 1..(j - 1) : to[i] = at[i]
        BY <1>1, <3>2
      <4> QED BY <1>3, <2>3, <4>1
    <3> QED BY <3>1, <3>2
  <2>7. \A j \in 1..(n + 1) : j < n + 1 \/ ~new.full => new.blocks[j].size >= least
    <3> HIDE DEF n
    <3> QED BY <1>1, <1>2, <1>5, <2>1, <2>3, SMTT(60)
  <2>8. n + 1 <= k
    <3> HIDE DEF n
    <3> QED BY <1>1, <1>2
  <2> HIDE DEF to, n
  <2> QED BY <2>3, <2>4, <2>5, <2>6, <2>7, <2>8 DEF Taken
<1> QED BY <1>4, <1>5 DEF Added

\* So it goes through the whole list.
LEMMA AllTaken ==
  ASSUME NEW P, NEW paths \in Seq(P), NEW least, NEW out, NEW after, after[0] = NoBlocks,
         \A k \in 1..Len(paths), acc \in Acc(P) : after[k - 1] = acc =>
            after[k] \in Acc(P) /\ Added(acc, after[k], paths[k], least, out)
  PROVE  after[Len(paths)] \in Acc(P) /\ Taken(after[Len(paths)], paths, Len(paths), least, out)
<1> DEFINE n == Len(paths)
           S == {k \in Nat : k <= n => after[k] \in Acc(P) /\ Taken(after[k], paths, k, least, out)}
<1>0. n \in Nat
  OBVIOUS
<1>1. 0 \in S
  BY NothingTaken
<1>2. ASSUME NEW m \in Nat, m \in S
      PROVE  m + 1 \in S
  <2> SUFFICES ASSUME m + 1 <= n
               PROVE  after[m + 1] \in Acc(P) /\ Taken(after[m + 1], paths, m + 1, least, out)
    OBVIOUS
  <2>1. /\ m + 1 \in 1..n /\ (m + 1) - 1 = m
        /\ after[m] \in Acc(P) /\ Taken(after[m], paths, m, least, out)
    <3> HIDE DEF n
    <3> QED BY <1>0, <1>2
  <2>2. after[m + 1] \in Acc(P) /\ Added(after[m], after[m + 1], paths[m + 1], least, out)
    BY <2>1
  <2> QED BY <2>1, <2>2, TakenGoesOn
<1>3. \A k \in Nat : k \in S
  <2> HIDE DEF S
  <2> QED BY <1>1, <1>2, Induction
<1> QED BY <1>0, <1>3

LEMMA BlocksOfIs ==
  ASSUME NEW ts, \A p \in DOMAIN ts : Len(ts[p]) \in Nat, NEW paths \in Seq(DOMAIN ts)
  PROVE  \E acc \in Acc(DOMAIN ts) :
            acc.blocks = BlocksOf(ts, paths) /\ Taken(acc, paths, Len(paths), HeaderSize + 1, Binary)
<1> DEFINE n == Len(paths)
           P == DOMAIN ts
           step == [k \in 1..n |-> [acc \in Acc(P) |-> AddBlock(ts, acc, paths[k])]]
           Rule(f) == f = [k \in 0..n |-> IF k = 0 THEN NoBlocks ELSE AddBlock(ts, f[k - 1], paths[k])]
           after == CHOOSE f : Rule(f)
<1>0. n \in Nat /\ \A k \in 1..n : paths[k] \in P
  OBVIOUS
<1>1. \A k \in 1..n, acc \in Acc(P) :
        AddBlock(ts, acc, paths[k]) \in Acc(P) /\ Added(acc, AddBlock(ts, acc, paths[k]), paths[k], HeaderSize + 1, Binary)
  <2> HIDE DEF n
  <2> QED BY <1>0, AddBlockIs
<1>2. PICK f : Goes(f, n, Acc(P), NoBlocks, step)
  <2>1. step \in Steps(n, Acc(P))
    <3> HIDE DEF n
    <3> QED BY <1>1 DEF Steps
  <2>2. NoBlocks \in Acc(P)
    BY NothingTaken
  <2> HIDE DEF step, n, P
  <2> QED BY <1>0, <2>1, <2>2, Iterates
<1>3. Rule(f)
  <2>1. f \in [0..n -> Acc(P)] /\ f[0] = NoBlocks /\ \A k \in 1..n : f[k] = step[k][f[k - 1]]
    <3> HIDE DEF step, n, P
    <3> QED BY <1>2 DEF Goes
  <2>2. ASSUME NEW k \in 1..n
        PROVE  f[k] = AddBlock(ts, f[k - 1], paths[k])
    <3>1. k - 1 \in 0..n
      <4> HIDE DEF n
      <4> QED BY <1>0
    <3>2. f[k - 1] \in Acc(P)
      <4> HIDE DEF n, step, P
      <4> QED BY <2>1, <3>1
    <3> HIDE DEF n, P
    <3> QED BY <2>1, <3>2
  <2>3. \A k \in 0..n : f[k] = IF k = 0 THEN NoBlocks ELSE AddBlock(ts, f[k - 1], paths[k])
    <3> HIDE DEF n, step
    <3> QED BY <1>0, <2>1, <2>2
  <2> HIDE DEF step
  <2> QED BY <2>1, <2>3
<1>4. Rule(after)
  <2> HIDE DEF Rule
  <2> QED BY <1>3
<1>5. BlocksOf(ts, paths) = after[n].blocks
  BY DEF BlocksOf
<1> HIDE DEF after
<1>6. after[0] = NoBlocks /\ \A k \in 1..n : after[k] = AddBlock(ts, after[k - 1], paths[k])
  <2>1. \A k \in 0..n : after[k] = IF k = 0 THEN NoBlocks ELSE AddBlock(ts, after[k - 1], paths[k])
    <3> HIDE DEF n
    <3> QED BY <1>4, Zenon
  <2>2. 0 \in 0..n /\ \A k \in 1..n : k \in 0..n /\ k # 0
    <3> HIDE DEF n
    <3> QED BY <1>0
  <2> HIDE DEF n
  <2> QED BY <2>1, <2>2
<1>7. after[n] \in Acc(P) /\ Taken(after[n], paths, n, HeaderSize + 1, Binary)
  <2>1. \A k \in 1..Len(paths), acc \in Acc(P) : after[k - 1] = acc =>
            after[k] \in Acc(P) /\ Added(acc, after[k], paths[k], HeaderSize + 1, Binary)
    BY <1>1, <1>6
  <2> QED BY <1>6, <2>1, AllTaken
<1> QED BY <1>5, <1>7

LEMMA WholeFilesIs ==
  ASSUME NEW ts, \A p \in DOMAIN ts : Len(ts[p]) \in Nat, NEW paths \in Seq(DOMAIN ts)
  PROVE  \E acc \in Acc(DOMAIN ts) :
            acc.blocks = WholeFiles(ts, paths) /\ Taken(acc, paths, Len(paths), HeaderSize, {})
<1> DEFINE n == Len(paths)
           P == DOMAIN ts
           step == [k \in 1..n |-> [acc \in Acc(P) |-> AddFile(ts, acc, paths[k])]]
           Rule(f) == f = [k \in 0..n |-> IF k = 0 THEN NoBlocks ELSE AddFile(ts, f[k - 1], paths[k])]
           after == CHOOSE f : Rule(f)
<1>0. n \in Nat /\ \A k \in 1..n : paths[k] \in P
  OBVIOUS
<1>1. \A k \in 1..n, acc \in Acc(P) :
        AddFile(ts, acc, paths[k]) \in Acc(P) /\ Added(acc, AddFile(ts, acc, paths[k]), paths[k], HeaderSize, {})
  <2> HIDE DEF n
  <2> QED BY <1>0, AddFileIs
<1>2. PICK f : Goes(f, n, Acc(P), NoBlocks, step)
  <2>1. step \in Steps(n, Acc(P))
    <3> HIDE DEF n
    <3> QED BY <1>1 DEF Steps
  <2>2. NoBlocks \in Acc(P)
    BY NothingTaken
  <2> HIDE DEF step, n, P
  <2> QED BY <1>0, <2>1, <2>2, Iterates
<1>3. Rule(f)
  <2>1. f \in [0..n -> Acc(P)] /\ f[0] = NoBlocks /\ \A k \in 1..n : f[k] = step[k][f[k - 1]]
    <3> HIDE DEF step, n, P
    <3> QED BY <1>2 DEF Goes
  <2>2. ASSUME NEW k \in 1..n
        PROVE  f[k] = AddFile(ts, f[k - 1], paths[k])
    <3>1. k - 1 \in 0..n
      <4> HIDE DEF n
      <4> QED BY <1>0
    <3>2. f[k - 1] \in Acc(P)
      <4> HIDE DEF n, step, P
      <4> QED BY <2>1, <3>1
    <3> HIDE DEF n, P
    <3> QED BY <2>1, <3>2
  <2>3. \A k \in 0..n : f[k] = IF k = 0 THEN NoBlocks ELSE AddFile(ts, f[k - 1], paths[k])
    <3> HIDE DEF n, step
    <3> QED BY <1>0, <2>1, <2>2
  <2> HIDE DEF step
  <2> QED BY <2>1, <2>3
<1>4. Rule(after)
  <2> HIDE DEF Rule
  <2> QED BY <1>3
<1>5. WholeFiles(ts, paths) = after[n].blocks
  BY DEF WholeFiles
<1> HIDE DEF after
<1>6. after[0] = NoBlocks /\ \A k \in 1..n : after[k] = AddFile(ts, after[k - 1], paths[k])
  <2>1. \A k \in 0..n : after[k] = IF k = 0 THEN NoBlocks ELSE AddFile(ts, after[k - 1], paths[k])
    <3> HIDE DEF n
    <3> QED BY <1>4, Zenon
  <2>2. 0 \in 0..n /\ \A k \in 1..n : k \in 0..n /\ k # 0
    <3> HIDE DEF n
    <3> QED BY <1>0
  <2> HIDE DEF n
  <2> QED BY <2>1, <2>2
<1>7. after[n] \in Acc(P) /\ Taken(after[n], paths, n, HeaderSize, {})
  <2>1. \A k \in 1..Len(paths), acc \in Acc(P) : after[k - 1] = acc =>
            after[k] \in Acc(P) /\ Added(acc, after[k], paths[k], HeaderSize, {})
    BY <1>1, <1>6
  <2> QED BY <1>6, <2>1, AllTaken
<1> QED BY <1>5, <1>7
-----------------------------------------------------------------------------
(* Paths in order                                                          *)

\* A finite set in order: every member at one more than the number of those that are earlier.
LEMMA InOrderIs ==
  ASSUME NEW S, IsFiniteSet(S), NEW earlier \in [S -> SUBSET S],
         \A x \in S : x \notin earlier[x],
         \A x, y \in S : x \in earlier[y] => earlier[x] \subseteq earlier[y],
         \A x, y \in S : x # y => x \in earlier[y] \/ y \in earlier[x]
  PROVE  /\ Cardinality(S) \in Nat
         /\ InOrder(S, earlier) \in Seq(S) /\ Len(InOrder(S, earlier)) = Cardinality(S)
         /\ \A x \in S : /\ Cardinality(earlier[x]) + 1 \in 1..Cardinality(S)
                         /\ InOrder(S, earlier)[Cardinality(earlier[x]) + 1] = x
         /\ \A i \in 1..Cardinality(S) :
               InOrder(S, earlier)[i] \in S /\ Cardinality(earlier[InOrder(S, earlier)[i]]) + 1 = i
         /\ \A x, y \in S : x \in earlier[y] => Cardinality(earlier[x]) < Cardinality(earlier[y])
<1> DEFINE n == Cardinality(S)
           P == [x \in S |-> Cardinality(earlier[x]) + 1]
<1>1. n \in Nat
  BY FS_CardinalityType
<1>2. ASSUME NEW x \in S
      PROVE  /\ IsFiniteSet(earlier[x]) /\ Cardinality(earlier[x]) \in Nat
             /\ Cardinality(earlier[x]) < n
  <2>1. earlier[x] \in SUBSET S /\ x \notin earlier[x] /\ earlier[x] # S
    OBVIOUS
  <2>2. /\ IsFiniteSet(earlier[x]) /\ Cardinality(earlier[x]) <= Cardinality(S)
        /\ Cardinality(S) # Cardinality(earlier[x])
    BY <2>1, FS_Subset
  <2>3. Cardinality(earlier[x]) \in Nat
    BY <2>2, FS_CardinalityType
  <2> QED BY <1>1, <2>2, <2>3
<1>3. ASSUME NEW x \in S, NEW y \in S, x \in earlier[y]
      PROVE  Cardinality(earlier[x]) < Cardinality(earlier[y])
  <2>1. earlier[x] \in SUBSET earlier[y] /\ earlier[x] # earlier[y]
    BY <1>3
  <2>2. IsFiniteSet(earlier[y])
    BY <1>2
  <2>3. /\ Cardinality(earlier[x]) <= Cardinality(earlier[y])
        /\ Cardinality(earlier[x]) # Cardinality(earlier[y])
    BY <2>1, <2>2, FS_Subset
  <2> QED BY <1>2, <2>3
<1>4. \A x \in S : P[x] \in 1..n
  <2> HIDE DEF n
  <2> QED BY <1>1, <1>2
<1>5. \A x, y \in S : P[x] = P[y] => x = y
  BY <1>2, <1>3
<1>6. \A i \in 1..n : \E x \in S : Cardinality(earlier[x]) = i - 1
  <2>1. P \in Injection(S, 1..n)
    BY <1>4, <1>5 DEF Injection, IsInjective
  <2>2. IsFiniteSet(1..n) /\ Cardinality(1..n) = n
    BY <1>1, FS_Interval
  <2>3. P \in Surjection(S, 1..n)
    <3> HIDE DEF P
    <3> QED BY <2>1, <2>2, FS_Injection
  <2>4. ASSUME NEW i \in 1..n
        PROVE  \E x \in S : Cardinality(earlier[x]) = i - 1
    <3>1. PICK x \in S : P[x] = i
      BY <2>3 DEF Surjection
    <3>2. Cardinality(earlier[x]) + 1 = i /\ Cardinality(earlier[x]) \in Nat
      BY <1>2, <3>1
    <3> HIDE DEF n
    <3> QED BY <1>1, <3>2
  <2> QED BY <2>4
<1> DEFINE L == InOrder(S, earlier)
<1>7. L = [i \in 1..n |-> CHOOSE x \in S : Cardinality(earlier[x]) = i - 1]
  BY DEF InOrder
<1>8. \A i \in 1..n : L[i] \in S /\ Cardinality(earlier[L[i]]) = i - 1
  BY <1>6, <1>7
<1>9. L \in [1..n -> S]
  BY <1>7, <1>8
<1>10. L \in Seq(S) /\ Len(L) = n
  <2> HIDE DEF L, n
  <2> QED BY <1>1, <1>9
<1>11. \A i \in 1..n : L[i] \in S /\ Cardinality(earlier[L[i]]) + 1 = i
  <2> HIDE DEF L, n
  <2> QED BY <1>1, <1>8
<1>12. ASSUME NEW x \in S
       PROVE  Cardinality(earlier[x]) + 1 \in 1..n /\ L[Cardinality(earlier[x]) + 1] = x
  <2>1. P[x] \in 1..n
    BY <1>4
  <2>2. L[P[x]] \in S /\ P[L[P[x]]] = P[x]
    BY <1>11, <2>1
  <2>3. L[P[x]] = x
    <3> HIDE DEF L, P
    <3> QED BY <1>5, <2>2
  <2> QED BY <2>1, <2>3
<1> QED BY <1>1, <1>3, <1>10, <1>11, <1>12

LEMMA PlacesAre ==
  ASSUME NEW ps \in SUBSET ToSet(PathOrder)
  PROVE  /\ IsFiniteSet(ps) /\ \A p \in ps : Place(p) \in Nat
         /\ \A p, q \in ps : Place(p) = Place(q) => p = q
<1> DEFINE n == Len(PathOrder)
           f == [p \in ps |-> Place(p)]
<1>1. n \in Nat /\ DOMAIN PathOrder = 1..n
  BY ContextAssumption
<1>2. ASSUME NEW p \in ps
      PROVE  Place(p) \in 1..n /\ PathOrder[Place(p)] = p
  <2>1. \E k \in DOMAIN PathOrder : PathOrder[k] = p
    BY DEF ToSet
  <2> QED BY <1>1, <2>1 DEF Place
<1>3. f \in Injection(ps, 1..n)
  <2>1. f \in [ps -> 1..n]
    BY <1>2
  <2>2. \A p, q \in ps : f[p] = f[q] => p = q
    BY <1>2
  <2> QED BY <2>1, <2>2 DEF Injection, IsInjective
<1>4. IsFiniteSet(1..n)
  BY <1>1, FS_Interval
<1>5. IsFiniteSet(ps)
  <2> HIDE DEF f, n
  <2> QED BY <1>3, <1>4, FS_Injection
<1> QED BY <1>1, <1>2, <1>5

\* The last of some places.
LEMMA Latest ==
  ASSUME NEW n \in Nat, NEW S \in SUBSET (1..n), S # {}
  PROVE  Max(S) \in S /\ \A x \in S : x <= Max(S)
<1> DEFINE C == {m \in Nat : \A x \in S : x <= m}
<1>1. n \in C
  OBVIOUS
<1>2. Min(C) \in C /\ \A m \in C : Min(C) <= m
  <2> HIDE DEF C
  <2>1. C \in SUBSET Nat
    BY DEF C
  <2> QED BY <1>1, <2>1, Least
<1> DEFINE m == Min(C)
<1>3. m \in S
  <2> SUFFICES ASSUME m \notin S
               PROVE  FALSE
    OBVIOUS
  <2>1. m \in Nat /\ \A x \in S : x <= m
    BY <1>2
  <2> HIDE DEF m
  <2>2. \A x \in S : x <= m - 1 /\ x >= 1
    BY <2>1
  <2>3. m - 1 \in C
    <3>1. PICK x \in S : x \in 1..n
      OBVIOUS
    <3>2. m - 1 \in Nat
      BY <2>1, <2>2, <3>1
    <3> QED BY <2>2, <3>2
  <2>4. m <= m - 1
    BY <1>2, <2>3 DEF m
  <2> QED BY <2>1, <2>4
<1>4. \A x \in S : m >= x
  <2>1. m \in Nat /\ \A x \in S : x <= m
    BY <1>2
  <2> HIDE DEF m
  <2> QED BY <2>1
<1>5. \A y \in S : (\A x \in S : y >= x) => y = m
  <2>1. m \in Nat
    BY <1>2
  <2> HIDE DEF m
  <2> QED BY <1>3, <1>4, <2>1
<1>6. Max(S) = m
  <2> HIDE DEF m
  <2> QED BY <1>3, <1>4, <1>5 DEF Max
<1> HIDE DEF m
<1> QED BY <1>3, <1>4, <1>6

LEMMA ScoresAreNumbers ==
  ASSUME NEW objective, IsFiniteSet(objective), NEW p
  PROVE  ScorePath(objective, p) \in Int /\ ScoreFor(objective, p) \in Int
<1>1. Cardinality({w \in objective : InPath(w, Absolute(p))}) \in Nat
  <2>1. {w \in objective : InPath(w, Absolute(p))} \in SUBSET objective
    OBVIOUS
  <2>2. IsFiniteSet({w \in objective : InPath(w, Absolute(p))})
    BY <2>1, FS_Subset
  <2> QED BY <2>2, FS_CardinalityType
<1>2. /\ DocumentTopic.boost = 8 /\ GitTopic.boost = 7
      /\ GameTopic.boost = 7 /\ PatchTopic.boost = 6
  BY DEF DocumentTopic, GitTopic, GameTopic, PatchTopic
<1>3. /\ Boost(DocumentTopic, objective, p) \in Int /\ Boost(GitTopic, objective, p) \in Int
      /\ Boost(GameTopic, objective, p) \in Int /\ Boost(PatchTopic, objective, p) \in Int
  BY <1>2 DEF Boost
<1>4. /\ (IF Last(p) \in {"readme.md", "main.py"} THEN 2 ELSE 0) \in Int
      /\ (IF Last(p) \in Sources THEN 1 ELSE 0) \in Int
  OBVIOUS
<1> QED BY <1>1, <1>3, <1>4 DEF ScorePath, ScoreFor

\* The project's own path changes no order: it gives the same to every file.
LEMMA AbsoluteIs ==
  ASSUME NEW p \in Seq(STRING), NEW w
  PROVE  InPath(w, Absolute(p)) <=> InPath(w, ProjectRoot) \/ InPath(w, p)
<1> DEFINE q == Absolute(p)
           m == Len(ProjectRoot)
           n == Len(p)
<1>1. /\ ProjectRoot \in Seq(STRING) /\ m \in Nat /\ n \in Nat /\ DOMAIN q = 1..(m + n)
      /\ DOMAIN ProjectRoot = 1..m /\ DOMAIN p = 1..n
      /\ \A k \in 1..(m + n) : q[k] = IF k <= m THEN ProjectRoot[k] ELSE p[k - m]
  BY ContextAssumption DEF Absolute
<1> HIDE DEF q, m, n
<1>2. ASSUME NEW k \in DOMAIN q, In(w, q[k])
      PROVE  InPath(w, ProjectRoot) \/ InPath(w, p)
  <2>1. CASE k <= m
    <3>1. k \in DOMAIN ProjectRoot /\ q[k] = ProjectRoot[k]
      BY <1>1, <2>1
    <3> QED BY <1>2, <3>1 DEF InPath
  <2>2. CASE ~(k <= m)
    <3>1. k - m \in DOMAIN p /\ q[k] = p[k - m]
      BY <1>1, <2>2
    <3> QED BY <1>2, <3>1 DEF InPath
  <2> QED BY <2>1, <2>2
<1>3. ASSUME NEW k \in DOMAIN ProjectRoot, In(w, ProjectRoot[k])
      PROVE  InPath(w, q)
  <2>1. k \in DOMAIN q /\ q[k] = ProjectRoot[k]
    BY <1>1
  <2> QED BY <1>3, <2>1 DEF InPath
<1>4. ASSUME NEW k \in DOMAIN p, In(w, p[k])
      PROVE  InPath(w, q)
  <2>1. k + m \in DOMAIN q /\ q[k + m] = p[k]
    BY <1>1
  <2> QED BY <1>4, <2>1 DEF InPath
<1>5. InPath(w, q) <=> InPath(w, ProjectRoot) \/ InPath(w, p)
  BY <1>2, <1>3, <1>4 DEF InPath
<1> QED BY <1>5 DEF q

\* What the project's own path is worth.
GivenBy(t, objective) == IF Detected(t, objective) /\ AnyIn(t.words, ProjectRoot) THEN t.boost ELSE 0
LEMMA BoostIs ==
  ASSUME NEW t, t.boost \in Nat, NEW objective, NEW p \in Seq(STRING)
  PROVE  /\ GivenBy(t, objective) \in Nat /\ Gain(t, objective, p) \in Nat
         /\ Boost(t, objective, p) = GivenBy(t, objective) + Gain(t, objective, p)
<1>1. AnyIn(t.words, Absolute(p)) <=> AnyIn(t.words, ProjectRoot) \/ AnyIn(t.words, p)
  BY AbsoluteIs DEF AnyIn
<1> QED BY <1>1 DEF GivenBy, Gain, Boost

LEMMA WordsAre ==
  ASSUME NEW objective, IsFiniteSet(objective), NEW p \in Seq(STRING)
  PROVE  LET own == Cardinality({w \in objective : InPath(w, ProjectRoot)})
             more == Cardinality({w \in objective : ~InPath(w, ProjectRoot) /\ InPath(w, p)})
         IN /\ own \in Nat /\ more \in Nat
            /\ Cardinality({w \in objective : InPath(w, Absolute(p))}) = own + more
<1> DEFINE A == {w \in objective : InPath(w, ProjectRoot)}
           B == {w \in objective : ~InPath(w, ProjectRoot) /\ InPath(w, p)}
<1>1. {w \in objective : InPath(w, Absolute(p))} = A \cup B
  BY AbsoluteIs
<1>2. A \cap B = {} /\ A \subseteq objective /\ B \subseteq objective
  OBVIOUS
<1> HIDE DEF A, B
<1>3. IsFiniteSet(A) /\ IsFiniteSet(B)
  BY <1>2, FS_Subset
<1>4. Cardinality(A) \in Nat /\ Cardinality(B) \in Nat /\ Cardinality(A \cap B) = 0
  BY <1>2, <1>3, FS_CardinalityType, FS_EmptySet
<1>5. Cardinality(A \cup B) = Cardinality(A) + Cardinality(B) - Cardinality(A \cap B)
  BY <1>3, FS_Union
<1>6. Cardinality(A \cup B) = Cardinality(A) + Cardinality(B)
  BY <1>4, <1>5
<1> QED BY <1>1, <1>4, <1>6 DEF A, B

LEMMA RootTellsNothing ==
  ASSUME NEW objective, IsFiniteSet(objective), NEW p \in Seq(STRING), NEW q \in Seq(STRING),
         ScorePath(objective, p) >= ScorePath(objective, q)
  PROVE  Relevance(objective, p) >= Relevance(objective, q)
<1> DEFINE given == GivenBy(DocumentTopic, objective) + GivenBy(GitTopic, objective)
                    + GivenBy(GameTopic, objective) + GivenBy(PatchTopic, objective)
           own == Cardinality({w \in objective : InPath(w, ProjectRoot)})
           core(o) == IF Last(o) \in {"readme.md", "main.py"} THEN 2 ELSE 0
<1>1. /\ DocumentTopic.boost \in Nat /\ GitTopic.boost \in Nat
      /\ GameTopic.boost \in Nat /\ PatchTopic.boost \in Nat
  BY DEF DocumentTopic, GitTopic, GameTopic, PatchTopic
<1>2. ASSUME NEW o \in Seq(STRING)
      PROVE  /\ given + 5 * own + 1 \in Nat /\ Relevance(objective, o) \in Nat
             /\ ScorePath(objective, o) = (given + 5 * own + 1) + Relevance(objective, o)
  <2> DEFINE a == GivenBy(DocumentTopic, objective)  b == GivenBy(GitTopic, objective)
             c == GivenBy(GameTopic, objective)  d == GivenBy(PatchTopic, objective)
             e == Gain(DocumentTopic, objective, o)  f == Gain(GitTopic, objective, o)
             g == Gain(GameTopic, objective, o)  h == Gain(PatchTopic, objective, o)
             more == Cardinality({w \in objective : ~InPath(w, ProjectRoot) /\ InPath(w, o)})
             all == Cardinality({w \in objective : InPath(w, Absolute(o))})
             z == core(o)
  <2>1. /\ a \in Nat /\ e \in Nat /\ Boost(DocumentTopic, objective, o) = a + e
        /\ b \in Nat /\ f \in Nat /\ Boost(GitTopic, objective, o) = b + f
        /\ c \in Nat /\ g \in Nat /\ Boost(GameTopic, objective, o) = c + g
        /\ d \in Nat /\ h \in Nat /\ Boost(PatchTopic, objective, o) = d + h
    BY <1>1, BoostIs
  <2>2. own \in Nat /\ more \in Nat /\ all = own + more
    BY WordsAre
  <2>3. z \in Nat
    OBVIOUS
  <2>4. ScorePath(objective, o) = Boost(DocumentTopic, objective, o) + Boost(GitTopic, objective, o)
          + Boost(GameTopic, objective, o) + Boost(PatchTopic, objective, o) + 5 * all + 1 + z
    BY DEF ScorePath
  <2>5. Relevance(objective, o) = e + f + g + h + 5 * more + z
    BY DEF Relevance
  <2>6. given = a + b + c + d
    OBVIOUS
  <2> HIDE DEF a, b, c, d, e, f, g, h, more, all, z, own, given
  <2>7. ScorePath(objective, o) = (a + e) + (b + f) + (c + g) + (d + h) + 5 * (own + more) + 1 + z
    BY <2>1, <2>2, <2>4
  <2> QED BY <2>1, <2>2, <2>3, <2>5, <2>6, <2>7
<1> HIDE DEF given, own
<1>3. /\ given + 5 * own + 1 \in Nat /\ Relevance(objective, p) \in Nat /\ Relevance(objective, q) \in Nat
      /\ ScorePath(objective, p) = (given + 5 * own + 1) + Relevance(objective, p)
      /\ ScorePath(objective, q) = (given + 5 * own + 1) + Relevance(objective, q)
  BY <1>2
<1> QED BY <1>3

\* The ranking of the builder: no path twice, none before one that scores higher.
LEMMA CandidatesAre ==
  ASSUME NEW ps \in SUBSET ToSet(PathOrder), NEW objective, IsFiniteSet(objective)
  PROVE  LET L == rank_candidates(objective, ps)
         IN /\ L \in Seq(ps)
            /\ \A i, j \in 1..Len(L) : i < j =>
                 L[i] # L[j] /\ ScorePath(objective, L[i]) >= ScorePath(objective, L[j])
<1> DEFINE E == [p \in ps |-> {q \in ps : Better(objective, q, p)}]
           L == InOrder(ps, E)
<1>1. rank_candidates(objective, ps) = L
  BY DEF rank_candidates
<1>2. /\ IsFiniteSet(ps) /\ \A p \in ps : Place(p) \in Nat /\ ScorePath(objective, p) \in Int
      /\ \A p, q \in ps : Place(p) = Place(q) => p = q
  BY PlacesAre, ScoresAreNumbers
<1>3. \A p, q \in ps : p \in E[q] <=> Better(objective, p, q)
  OBVIOUS
<1>4. E \in [ps -> SUBSET ps]
  OBVIOUS
<1>5. \A p \in ps : p \notin E[p]
  BY <1>2, <1>3 DEF Better
<1>6. \A p, q \in ps : p # q => p \in E[q] \/ q \in E[p]
  BY <1>2, <1>3 DEF Better
<1>7. \A p, q, o \in ps : Better(objective, p, q) /\ Better(objective, o, p) => Better(objective, o, q)
  BY <1>2 DEF Better
<1>8. \A p, q \in ps : p \in E[q] => E[p] \subseteq E[q]
  <2> HIDE DEF E
  <2> QED BY <1>3, <1>4, <1>7
<1> HIDE DEF E
<1>9. /\ Cardinality(ps) \in Nat /\ L \in Seq(ps) /\ Len(L) = Cardinality(ps)
      /\ \A i \in 1..Cardinality(ps) : L[i] \in ps /\ Cardinality(E[L[i]]) + 1 = i
      /\ \A p, q \in ps : p \in E[q] => Cardinality(E[p]) < Cardinality(E[q])
  BY <1>2, <1>4, <1>5, <1>6, <1>8, InOrderIs
<1> HIDE DEF L
<1>10. ASSUME NEW i \in 1..Len(L), NEW j \in 1..Len(L), i < j
       PROVE  L[i] # L[j] /\ ScorePath(objective, L[i]) >= ScorePath(objective, L[j])
  <2> DEFINE p == L[i]
             q == L[j]
  <2>1. p \in ps /\ q \in ps /\ Cardinality(E[p]) + 1 = i /\ Cardinality(E[q]) + 1 = j
    BY <1>9
  <2> HIDE DEF p, q
  <2>2. p # q
    BY <1>10, <2>1
  <2>3. ASSUME ~(ScorePath(objective, p) >= ScorePath(objective, q))
        PROVE  FALSE
    <3>1. Better(objective, q, p)
      BY <1>2, <2>1, <2>3 DEF Better
    <3>2. Cardinality(E[q]) < Cardinality(E[p])
      BY <1>3, <1>9, <2>1, <3>1
    <3>3. Cardinality(E[p]) \in Int /\ Cardinality(E[q]) \in Int
      <4>1. IsFiniteSet(E[p]) /\ IsFiniteSet(E[q])
        BY <1>2, <1>4, <2>1, FS_Subset
      <4> QED BY <4>1, FS_CardinalityType
    <3> QED BY <1>10, <2>1, <3>2, <3>3
  <2> QED BY <2>2, <2>3 DEF p, q
<1> QED BY <1>1, <1>9, <1>10

LEMMA FilesInRow ==
  ASSUME NEW ps \in SUBSET ToSet(PathOrder), NEW objective, IsFiniteSet(objective)
  PROVE  LET L == InOrder(ps, [p \in ps |-> {q \in ps : Above(objective, q, p)}])
         IN L \in Seq(ps) /\ \A i, j \in 1..Len(L) : i < j => L[i] # L[j]
<1> DEFINE E == [p \in ps |-> {q \in ps : Above(objective, q, p)}]
           L == InOrder(ps, E)
<1>1. /\ IsFiniteSet(ps) /\ \A p \in ps : Place(p) \in Nat /\ ScoreFor(objective, p) \in Int
      /\ \A p, q \in ps : Place(p) = Place(q) => p = q
  BY PlacesAre, ScoresAreNumbers
<1>2. \A p, q \in ps : p \in E[q] <=> Above(objective, p, q)
  OBVIOUS
<1>3. E \in [ps -> SUBSET ps]
  OBVIOUS
<1>4. \A p \in ps : p \notin E[p]
  BY <1>1, <1>2 DEF Above
<1>5. \A p, q \in ps : p # q => p \in E[q] \/ q \in E[p]
  BY <1>1, <1>2 DEF Above
<1>6. \A p, q, o \in ps : Above(objective, p, q) /\ Above(objective, o, p) => Above(objective, o, q)
  BY <1>1 DEF Above
<1>7. \A p, q \in ps : p \in E[q] => E[p] \subseteq E[q]
  <2> HIDE DEF E
  <2> QED BY <1>2, <1>3, <1>6
<1> HIDE DEF E
<1>8. /\ Cardinality(ps) \in Nat /\ L \in Seq(ps) /\ Len(L) = Cardinality(ps)
      /\ \A i \in 1..Cardinality(ps) : L[i] \in ps /\ Cardinality(E[L[i]]) + 1 = i
  BY <1>1, <1>3, <1>4, <1>5, <1>7, InOrderIs
<1> HIDE DEF L
<1>9. \A i, j \in 1..Len(L) : i < j => L[i] # L[j]
  BY <1>8
<1> QED BY <1>8, <1>9 DEF L, E

LEMMA BestAre ==
  ASSUME NEW S, NEW L \in Seq(S)
  PROVE  /\ Best(L) \in Seq(S) /\ Len(Best(L)) <= MaxFiles /\ Len(Best(L)) <= Len(L)
         /\ \A i \in 1..Len(Best(L)) : Best(L)[i] = L[i]
<1> DEFINE m == Min({MaxFiles, Len(L)})
<1>1. MaxFiles \in Nat /\ Len(L) \in Nat
  BY ContextAssumption
<1>2. m \in Nat /\ m <= MaxFiles /\ m <= Len(L)
  BY <1>1, SmallerOf
<1> HIDE DEF m
<1>3. /\ SubSeq(L, 1, m) \in Seq(S) /\ Len(SubSeq(L, 1, m)) = m
      /\ \A i \in 1..m : SubSeq(L, 1, m)[i] = L[i]
  BY <1>1, <1>2
<1> QED BY <1>2, <1>3 DEF Best, m
-----------------------------------------------------------------------------
(* What is shown                                                           *)

LEMMA TakenFits ==
  ASSUME NEW P, NEW paths \in Seq(P), Len(paths) <= MaxFiles, NEW dirs, NEW about, NEW out,
         \A i, j \in 1..Len(paths) : i < j => paths[i] # paths[j],
         \A i \in 1..Len(paths) : ToSet(paths[i]) \cap dirs # {},
         NEW least \in Nat, least >= HeaderSize,
         NEW acc \in Acc(P), Taken(acc, paths, Len(paths), least, out)
  PROVE  Fits([about |-> about, dirs |-> dirs, blocks |-> acc.blocks])
<1> DEFINE blocks == acc.blocks
           n == Len(blocks)
           shown == [about |-> about, dirs |-> dirs, blocks |-> blocks]
<1>1. /\ blocks \in Seq(Block(P)) /\ n \in Nat /\ acc.used \in 0..MaxChars /\ MaxChars \in Nat
      /\ HeaderSize \in Nat /\ MaxFiles \in Nat /\ Len(paths) \in Nat
      /\ \A k \in 1..n : blocks[k].size \in Nat
  <2>1. blocks \in Seq(Block(P)) /\ acc.used \in 0..MaxChars
    BY DEF Acc
  <2>2. \A b \in Block(P) : b.size \in Nat
    BY DEF Block
  <2> HIDE DEF blocks
  <2> QED BY <2>1, <2>2, ContextAssumption
<1>2. /\ Total(blocks) = acc.used /\ n <= Len(paths)
      /\ \A j \in 1..n : j < n => blocks[j].size >= least
  BY DEF Taken
<1>3. PICK at \in [1..n -> 1..Len(paths)] :
        \A j \in 1..n : /\ blocks[j].path = paths[at[j]]
                        /\ \A i \in 1..(j - 1) : at[i] < at[j]
  BY DEF Taken
<1> HIDE DEF n, blocks
<1>4. ContextLength(blocks) <= Max({0, MaxChars + n - 1})
  <2>1. ContextLength(blocks) = acc.used + Max({0, n - 1})
    BY <1>2, LengthIs DEF n
  <2>2. /\ Max({0, n - 1}) = IF 0 >= n - 1 THEN 0 ELSE n - 1
        /\ Max({0, MaxChars + n - 1}) = IF 0 >= MaxChars + n - 1 THEN 0 ELSE MaxChars + n - 1
    BY <1>1, LargerOf
  <2>3. CASE n = 0
    <3>1. Total(blocks) = 0
      <4>1. Adds(blocks, Sizes(blocks))
        <5>1. \A b \in Block(P) : b.size \in Nat
          BY DEF Block
        <5> QED BY <1>1, <5>1, SizesAre
      <4> QED BY <2>3, <4>1 DEF Total, Adds, n
    <3> QED BY <1>1, <1>2, <2>1, <2>2, <2>3, <3>1
  <2>4. CASE n # 0
    BY <1>1, <2>1, <2>2, <2>4
  <2> QED BY <2>3, <2>4
<1>5. n <= MaxFiles
  BY <1>1, <1>2
<1>6. ASSUME NEW k \in 1..n, NEW l \in 1..n, k # l
      PROVE  blocks[k].path # blocks[l].path
  <2>1. at[k] \in 1..Len(paths) /\ at[l] \in 1..Len(paths)
    BY <1>3
  <2>2. at[k] < at[l] \/ at[l] < at[k]
    <3>1. k < l \/ l < k
      BY <1>1, <1>6
    <3>2. k < l => k \in 1..(l - 1)
      BY <1>1
    <3>3. l < k => l \in 1..(k - 1)
      BY <1>1
    <3> QED BY <1>3, <3>1, <3>2, <3>3
  <2>3. paths[at[k]] # paths[at[l]]
    BY <2>1, <2>2
  <2> QED BY <1>3, <2>3
<1>7. \A k \in 1..n : ToSet(blocks[k].path) \cap dirs # {}
  BY <1>3
<1>8. \A k \in 1..n : k < n => blocks[k].size >= HeaderSize
  BY <1>1, <1>2
<1> HIDE DEF shown
<1>9. shown.blocks = blocks /\ shown.dirs = dirs
  BY DEF shown
<1> QED BY <1>4, <1>5, <1>6, <1>7, <1>8, <1>9 DEF Fits, shown, n, blocks

\* A path that may be told a patcher.
Tellable(p) ==
  /\ ~Internal(p) /\ Last(p) \notin Hidden
  /\ \A i \in DOMAIN Gitignore :
       Gitignore[i].kind # "dir" /\ Matches(Gitignore[i], p, FALSE) =>
         \E j \in i..Len(Gitignore) : Gitignore[j].negated

LEMMA ListedAreTellable ==
  ASSUME NEW ts, NEW p \in list_files(ts)
  PROVE  p \in DOMAIN ts /\ Tellable(p)
<1> DEFINE n == Len(Gitignore)
           hits == {i \in DOMAIN Gitignore : Matches(Gitignore[i], p, FALSE)}
<1>1. n \in Nat /\ DOMAIN Gitignore = 1..n
  BY ContextAssumption
<1>2. /\ p \in DOMAIN ts /\ Last(p) \notin Hidden /\ ~Internal(p)
      /\ (hits # {} => Gitignore[Max(hits)].negated)
  BY ContextAssumption DEF list_files, is_ignored
<1>3. ASSUME NEW i \in DOMAIN Gitignore, Matches(Gitignore[i], p, FALSE)
      PROVE  \E j \in i..n : Gitignore[j].negated
  <2>1. i \in hits /\ hits \in SUBSET (1..n)
    BY <1>1, <1>3
  <2> HIDE DEF hits, n
  <2>2. Max(hits) \in hits /\ i <= Max(hits)
    BY <1>1, <2>1, Latest
  <2>3. Max(hits) \in i..n
    BY <1>1, <2>1, <2>2
  <2> QED BY <1>2, <2>1, <2>3
<1> QED BY <1>2, <1>3 DEF Tellable

LEMMA TakenIsRelevant ==
  ASSUME NEW P, NEW paths \in Seq(P), NEW dirs, NEW about, IsFiniteSet(about),
         \A i, j \in 1..Len(paths) : i < j => ScorePath(about, paths[i]) >= ScorePath(about, paths[j]),
         \A i \in 1..Len(paths) : Tellable(paths[i]) /\ paths[i] \in Seq(STRING),
         NEW acc \in Acc(P), Taken(acc, paths, Len(paths), HeaderSize + 1, Binary)
  PROVE  Relevant([about |-> about, dirs |-> dirs, blocks |-> acc.blocks])
<1> DEFINE blocks == acc.blocks
           n == Len(blocks)
           shown == [about |-> about, dirs |-> dirs, blocks |-> blocks]
<1>1. n \in Nat /\ HeaderSize \in Nat /\ \A k \in 1..n : blocks[k].size \in Nat
  <2>1. blocks \in Seq(Block(P))
    BY DEF Acc
  <2>2. \A b \in Block(P) : b.size \in Nat
    BY DEF Block
  <2> HIDE DEF blocks
  <2> QED BY <2>1, <2>2, ContextAssumption
<1>2. \A j \in 1..n : j < n => blocks[j].size >= HeaderSize + 1
  BY DEF Taken
<1>3. PICK at \in [1..n -> 1..Len(paths)] :
        \A j \in 1..n : /\ blocks[j].path = paths[at[j]] /\ paths[at[j]] \notin Binary
                        /\ \A i \in 1..(j - 1) : at[i] < at[j]
  BY DEF Taken
<1> HIDE DEF n, blocks
<1>4. ASSUME NEW k \in 1..n, NEW l \in k..n
      PROVE  Relevance(about, blocks[k].path) >= Relevance(about, blocks[l].path)
  <2>1. l \in 1..n /\ at[k] \in 1..Len(paths) /\ at[l] \in 1..Len(paths)
    BY <1>1, <1>3
  <2>2. paths[at[k]] \in Seq(STRING) /\ paths[at[l]] \in Seq(STRING)
    BY <2>1
  <2>3. ScorePath(about, paths[at[k]]) >= ScorePath(about, paths[at[l]])
    <3>1. CASE k = l
      BY <3>1, ScoresAreNumbers
    <3>2. CASE k # l
      <4>1. k \in 1..(l - 1)
        BY <1>1, <3>2
      <4>2. at[k] < at[l]
        BY <1>3, <2>1, <4>1
      <4> QED BY <2>1, <4>2
    <3> QED BY <3>1, <3>2
  <2>4. blocks[k].path = paths[at[k]] /\ blocks[l].path = paths[at[l]]
    BY <1>3, <2>1
  <2> QED BY <2>2, <2>3, <2>4, RootTellsNothing
<1>5. \A k \in 1..n : blocks[k].path \notin Binary /\ Tellable(blocks[k].path)
  BY <1>3
<1>6. \A k \in 1..n : k < n => blocks[k].size > HeaderSize
  BY <1>1, <1>2
<1> HIDE DEF shown
<1>7. shown.blocks = blocks /\ shown.about = about
  BY DEF shown
<1>8. Relevant(shown)
  BY <1>4, <1>5, <1>6, <1>7 DEF Relevant, Tellable, n
<1> QED BY <1>8 DEF shown, blocks

Text(ts) == ts \in [DOMAIN ts -> Seq(STRING)] /\ DOMAIN ts \subseteq ToSet(PathOrder)

LEMMA ContextsFit ==
  ASSUME Text(texts), NEW objective, IsFiniteSet(objective), NEW shown \in Contexts(objective)
  PROVE  Fits(shown) /\ Relevant(shown)
<1>1. PICK dirs : shown = [about |-> objective, dirs |-> dirs, blocks |-> build(texts, objective, dirs)]
  BY DEF Contexts
<1> DEFINE P == DOMAIN texts
           ps == FilesIn(texts, dirs)
           L == rank_candidates(objective, ps)
           paths == Best(L)
<1>2. \A p \in ps : p \in P /\ Tellable(p) /\ ToSet(p) \cap dirs # {}
  BY ListedAreTellable DEF FilesIn
<1>3. ps \in SUBSET ToSet(PathOrder) /\ \A p \in P : Len(texts[p]) \in Nat
  BY <1>2 DEF Text
<1> HIDE DEF P, ps
<1>4. L \in Seq(ps) /\ \A i, j \in 1..Len(L) : i < j =>
         L[i] # L[j] /\ ScorePath(objective, L[i]) >= ScorePath(objective, L[j])
  BY <1>3, CandidatesAre
<1> HIDE DEF L
<1>5. /\ paths \in Seq(ps) /\ Len(paths) <= MaxFiles /\ Len(paths) <= Len(L)
      /\ \A i \in 1..Len(paths) : paths[i] = L[i]
  BY <1>4, BestAre
<1> HIDE DEF paths
<1>6. /\ Len(paths) \in Nat /\ Len(L) \in Nat /\ \A i \in 1..Len(paths) : i \in 1..Len(L) /\ paths[i] \in ps
  <2>1. Len(paths) \in Nat /\ Len(L) \in Nat
    BY <1>4, <1>5
  <2> QED BY <1>5, <2>1
<1>7. paths \in Seq(P)
  <2>1. ps \subseteq P
    BY <1>2
  <2> QED BY <1>5, <1>6, <2>1
<1>8. PICK acc \in Acc(P) :
        acc.blocks = BlocksOf(texts, paths) /\ Taken(acc, paths, Len(paths), HeaderSize + 1, Binary)
  BY <1>3, <1>7, BlocksOfIs DEF P
<1>9. shown = [about |-> objective, dirs |-> dirs, blocks |-> acc.blocks]
  BY <1>1, <1>8 DEF build, paths, L, ps
<1>10. HeaderSize + 1 \in Nat /\ HeaderSize + 1 >= HeaderSize
  BY ContextAssumption
<1>11. Fits([about |-> objective, dirs |-> dirs, blocks |-> acc.blocks])
  <2>1. \A i, j \in 1..Len(paths) : i < j => paths[i] # paths[j]
    BY <1>4, <1>5, <1>6
  <2>2. \A i \in 1..Len(paths) : ToSet(paths[i]) \cap dirs # {}
    BY <1>2, <1>6
  <2> QED BY <1>5, <1>7, <1>8, <1>10, <2>1, <2>2, TakenFits
<1>12. Relevant([about |-> objective, dirs |-> dirs, blocks |-> acc.blocks])
  <2>1. \A i, j \in 1..Len(paths) : i < j => ScorePath(objective, paths[i]) >= ScorePath(objective, paths[j])
    BY <1>4, <1>5, <1>6
  <2>2. \A i \in 1..Len(paths) : Tellable(paths[i]) /\ paths[i] \in Seq(STRING)
    <3>1. ps \subseteq Seq(STRING)
      BY <1>3, ContextAssumption DEF ToSet
    <3> QED BY <1>2, <1>6, <3>1
  <2> QED BY <1>7, <1>8, <2>1, <2>2, TakenIsRelevant
<1> QED BY <1>9, <1>11, <1>12

LEMMA PassFits ==
  ASSUME Text(texts), NEW objective, IsFiniteSet(objective)
  PROVE  Fits([about |-> objective, dirs |-> FoldersFor(texts, objective),
               blocks |-> incremental_build(texts, objective)])
<1> DEFINE P == DOMAIN texts
           dirs == FoldersFor(texts, objective)
           ps == FilesUnder(texts, dirs)
           L == InOrder(ps, [p \in ps |-> {q \in ps : Above(objective, q, p)}])
           paths == Best(L)
<1>1. incremental_build(texts, objective) = WholeFiles(texts, paths)
  BY DEF incremental_build
<1> HIDE DEF dirs
<1>2. \A p \in ps : p \in P /\ ToSet(p) \cap dirs # {}
  <2>1. ASSUME NEW p \in ps
        PROVE  p \in P /\ ToSet(p) \cap dirs # {}
    <3>1. p \in P /\ Len(p) > 1 /\ Head(p) \in dirs
      BY DEF FilesUnder
    <3>2. p \in Seq(STRING)
      BY <3>1, ContextAssumption DEF Text, ToSet
    <3>3. 1 \in DOMAIN p /\ Head(p) = p[1]
      BY <3>1, <3>2
    <3> QED BY <3>1, <3>3 DEF ToSet
  <2> QED BY <2>1
<1>3. ps \in SUBSET ToSet(PathOrder) /\ \A p \in P : Len(texts[p]) \in Nat
  BY <1>2 DEF Text
<1> HIDE DEF P, ps
<1>4. L \in Seq(ps) /\ \A i, j \in 1..Len(L) : i < j => L[i] # L[j]
  BY <1>3, FilesInRow
<1> HIDE DEF L
<1>5. /\ paths \in Seq(ps) /\ Len(paths) <= MaxFiles /\ Len(paths) <= Len(L)
      /\ \A i \in 1..Len(paths) : paths[i] = L[i]
  BY <1>4, BestAre
<1> HIDE DEF paths
<1>6. /\ Len(paths) \in Nat /\ Len(L) \in Nat /\ \A i \in 1..Len(paths) : i \in 1..Len(L) /\ paths[i] \in ps
  <2>1. Len(paths) \in Nat /\ Len(L) \in Nat
    BY <1>4, <1>5
  <2> QED BY <1>5, <2>1
<1>7. paths \in Seq(P)
  <2>1. ps \subseteq P
    BY <1>2
  <2> QED BY <1>5, <1>6, <2>1
<1>8. PICK acc \in Acc(P) :
        acc.blocks = WholeFiles(texts, paths) /\ Taken(acc, paths, Len(paths), HeaderSize, {})
  BY <1>3, <1>7, WholeFilesIs DEF P
<1>9. HeaderSize \in Nat /\ HeaderSize >= HeaderSize
  BY ContextAssumption
<1>10. Fits([about |-> objective, dirs |-> dirs, blocks |-> acc.blocks])
  <2>1. \A i, j \in 1..Len(paths) : i < j => paths[i] # paths[j]
    BY <1>4, <1>5, <1>6
  <2>2. \A i \in 1..Len(paths) : ToSet(paths[i]) \cap dirs # {}
    BY <1>2, <1>6
  <2> QED BY <1>5, <1>7, <1>8, <1>9, <2>1, <2>2, TakenFits
<1> QED BY <1>1, <1>8, <1>10 DEF dirs

LEMMA NothingFits == Fits(NoContext) /\ Relevant(NoContext)
<1> DEFINE e == <<>>
<1>1. NoContext.blocks = e /\ Len(e) = 0 /\ e \in Seq(Block({})) /\ \A b \in Block({}) : b.size \in Nat
  BY DEF NoContext, Block
<1> HIDE DEF e
<1>2. Total(e) = 0
  <2>1. Adds(e, Sizes(e))
    BY <1>1, SizesAre
  <2> QED BY <1>1, <2>1 DEF Adds, Total
<1>3. ContextLength(e) <= Max({0, MaxChars + 0 - 1}) /\ 0 <= MaxFiles
  <2>1. MaxChars \in Nat /\ MaxFiles \in Nat
    BY ContextAssumption
  <2>2. Max({0, MaxChars + 0 - 1}) >= 0 /\ Max({0, 0 - 1}) = 0
    BY <2>1, LargerOf
  <2> QED BY <1>1, <1>2, <2>1, <2>2, LengthIs
<1>4. \A k : k \notin 1..0
  OBVIOUS
<1> QED BY <1>1, <1>3, <1>4 DEF Fits, Relevant

-----------------------------------------------------------------------------
(* Patched texts are texts                                                 *)

LEMMA ReplacedIsText ==
  ASSUME NEW W, NEW text \in Seq(W), NEW search, NEW by \in Seq(W)
  PROVE  ReplaceFirst(text, search, by) \in Seq(W)
<1> DEFINE I == {i \in 1..Len(text) : text[i] = search}
           at == IF I # {} THEN Min(I) ELSE 0
<1>1. SelectInSeq(text, LAMBDA w : w = search) = at
  BY DEF SelectInSeq
<1>2. at \in 0..Len(text)
  <2>1. Len(text) \in Nat /\ \A i \in I : i \in 1..Len(text)
    OBVIOUS
  <2> HIDE DEF I
  <2>2. I \in SUBSET Nat
    BY <2>1
  <2>3. I # {} => Min(I) \in I
    BY <2>2, Least
  <2>4. CASE I # {}
    <3>1. Min(I) \in 1..Len(text)
      BY <2>1, <2>3, <2>4
    <3> QED BY <2>1, <2>4, <3>1
  <2> QED BY <2>1, <2>4
<1> HIDE DEF at
<1>3. ASSUME at # 0
      PROVE  SubSeq(text, 1, at - 1) \o by \o SubSeq(text, at + 1, Len(text)) \in Seq(W)
  <2>1. SubSeq(text, 1, at - 1) \in Seq(W)
    BY <1>2, <1>3
  <2>2. SubSeq(text, at + 1, Len(text)) \in Seq(W)
    BY <1>2, <1>3
  <2> QED BY <2>1, <2>2
<1>4. by \o text \in Seq(W)
  OBVIOUS
<1> QED BY <1>1, <1>3, <1>4 DEF ReplaceFirst

Operation == [type : STRING, search : STRING, text : STRING]
LEMMA OperatedIsText ==
  ASSUME NEW text \in Seq(STRING), NEW op \in Operation
  PROVE  Operate(text, op) \in Seq(STRING)
<1>1. op.search \in STRING /\ op.text \in STRING
  BY DEF Operation
<1>2. <<op.text>> \in Seq(STRING) /\ Self(op) \in Seq(STRING) /\ <<>> \in Seq(STRING)
  <2>1. ASSUME NEW W, NEW w \in W
        PROVE  <<w>> \in Seq(W) /\ <<>> \in Seq(W)
    OBVIOUS
  <2> DEFINE W == STRING
  <2>2. op.search \in W /\ op.text \in W
    BY <1>1
  <2> HIDE DEF W
  <2>3. <<op.text>> \in Seq(W) /\ <<op.search>> \in Seq(W) /\ <<>> \in Seq(W)
    BY <2>1, <2>2
  <2>4. Self(op) \in Seq(W)
    BY <2>3 DEF Self
  <2> QED BY <2>3, <2>4 DEF W
<1> DEFINE t == <<op.text>>
           s == Self(op)
           e == <<>>
<1>3. t \o s \in Seq(STRING) /\ s \o t \in Seq(STRING)
  <2>1. t \in Seq(STRING) /\ s \in Seq(STRING)
    BY <1>2
  <2> HIDE DEF t, s
  <2> QED BY <2>1
<1>4. /\ ReplaceFirst(text, op.search, t) \in Seq(STRING) /\ ReplaceFirst(text, op.search, t \o s) \in Seq(STRING)
      /\ ReplaceFirst(text, op.search, s \o t) \in Seq(STRING) /\ ReplaceFirst(text, op.search, e) \in Seq(STRING)
  <2>1. t \in Seq(STRING) /\ e \in Seq(STRING)
    BY <1>2
  <2> HIDE DEF t, s, e
  <2> QED BY <1>1, <1>3, <2>1, ReplacedIsText
<1>5. Operate(text, op) =
        CASE op.type = "replace" -> ReplaceFirst(text, op.search, t)
          [] op.type = "insert_before" -> ReplaceFirst(text, op.search, t \o s)
          [] op.type = "insert_after" -> ReplaceFirst(text, op.search, s \o t)
          [] op.type = "delete" -> ReplaceFirst(text, op.search, e)
          [] OTHER -> text
  BY DEF Operate
<1> HIDE DEF t, s, e
<1> QED BY <1>4, <1>5

LEMMA PatchedIsText ==
  ASSUME NEW text \in Seq(STRING), NEW ops \in Seq(Operation)
  PROVE  Patched(text, ops) \in Seq(STRING)
<1> DEFINE n == Len(ops)
           D == Seq(STRING)
           step == [k \in 1..n |-> [t \in D |-> Operate(t, ops[k])]]
           Rule(f) == f = [k \in 0..n |-> IF k = 0 THEN text ELSE Operate(f[k - 1], ops[k])]
           after == CHOOSE f : Rule(f)
<1>0. n \in Nat /\ text \in D /\ \A k \in 1..n : ops[k] \in Operation
  OBVIOUS
<1>1. \A k \in 1..n, t \in D : Operate(t, ops[k]) \in D
  BY <1>0, OperatedIsText
<1> HIDE DEF D
<1>2. PICK f : Goes(f, n, D, text, step)
  <2>1. step \in Steps(n, D)
    <3> HIDE DEF n
    <3> QED BY <1>1 DEF Steps
  <2> HIDE DEF step, n
  <2> QED BY <1>0, <2>1, Iterates
<1>3. Rule(f)
  <2>1. f \in [0..n -> D] /\ f[0] = text /\ \A k \in 1..n : f[k] = step[k][f[k - 1]]
    <3> HIDE DEF step, n
    <3> QED BY <1>2 DEF Goes
  <2>2. ASSUME NEW k \in 1..n
        PROVE  f[k] = Operate(f[k - 1], ops[k])
    <3>1. k - 1 \in 0..n
      <4> HIDE DEF n
      <4> QED BY <1>0
    <3>2. f[k - 1] \in D
      <4> HIDE DEF n, step
      <4> QED BY <2>1, <3>1
    <3> HIDE DEF n
    <3> QED BY <2>1, <3>2
  <2>3. \A k \in 0..n : f[k] = IF k = 0 THEN text ELSE Operate(f[k - 1], ops[k])
    <3> HIDE DEF n, step
    <3> QED BY <1>0, <2>1, <2>2
  <2> HIDE DEF step
  <2> QED BY <2>1, <2>3
<1>4. Rule(after)
  <2> HIDE DEF Rule
  <2> QED BY <1>3
<1>5. Patched(text, ops) = after[n]
  BY DEF Patched
<1> HIDE DEF after
<1>6. after[0] = text /\ \A k \in 1..n : after[k] = Operate(after[k - 1], ops[k])
  <2>1. \A k \in 0..n : after[k] = IF k = 0 THEN text ELSE Operate(after[k - 1], ops[k])
    <3> HIDE DEF n
    <3> QED BY <1>4, Zenon
  <2>2. 0 \in 0..n /\ \A k \in 1..n : k \in 0..n /\ k # 0
    <3> HIDE DEF n
    <3> QED BY <1>0
  <2> HIDE DEF n
  <2> QED BY <2>1, <2>2
<1> DEFINE S == {k \in Nat : k <= n => after[k] \in D}
<1>7. \A k \in Nat : k \in S
  <2>1. 0 \in S
    BY <1>0, <1>6
  <2>2. ASSUME NEW k \in Nat, k \in S
        PROVE  k + 1 \in S
    <3> SUFFICES ASSUME k + 1 <= n
                 PROVE  after[k + 1] \in D
      OBVIOUS
    <3>1. after[k] \in D /\ k + 1 \in 1..n /\ (k + 1) - 1 = k
      <4> HIDE DEF n
      <4> QED BY <1>0, <2>2
    <3>2. after[k + 1] = Operate(after[k], ops[k + 1])
      BY <1>6, <3>1
    <3> HIDE DEF n
    <3> QED BY <1>1, <3>1, <3>2
  <2> HIDE DEF S
  <2> QED BY <2>1, <2>2, Induction
<1> QED BY <1>0, <1>5, <1>7 DEF D

-----------------------------------------------------------------------------
(* What was shown fits                                                     *)

\* ShownInv in parts: what is written, and what is shown.
Written(ts, j) ==
  /\ Text(ts) /\ j.patches \in Seq(Patch) /\ j.text \in Seq(STRING)
  /\ j.at \in {"read", "write"} => j.patches # <<>>
AllFit(j, r) ==
  /\ Fits(j.shown) /\ (j.kind # "pass" => Relevant(j.shown))
  /\ Fits(r.shown) /\ Relevant(r.shown)

LEMMA ShownIs ==
  /\ ShownInv <=> Written(texts, job) /\ AllFit(job, run)
  /\ ShownInv' <=> Written(texts', job') /\ AllFit(job', run')
BY DEF ShownInv, ContextFits, Written, AllFit, Text

\* A step of a mission shows what the builder makes of the project, or nothing.
LEMMA MissionShows ==
  ASSUME MissionTypeInv, ShownInv, MissionStep
  PROVE  ShownInv'
<1>1. texts' = texts /\ job' = job
  BY MissionStepsAlone DEF patchVars
<1>2. DOMAIN run = {"at", "count", "agent", "host", "shown"} /\ mission.of \in Missions
  BY DEF MissionTypeInv
<1>3. Written(texts, job) /\ AllFit(job, run)
  BY ShownIs
<1>4. IsFiniteSet(mission.of.objective)
  BY <1>2, MissionsAssumption
<1>5. Fits(run'.shown) /\ Relevant(run'.shown)
  <2>1. CASE Plan \/ Choose
    <3>1. run'.shown = run.shown
      BY <1>2, <2>1 DEF Plan, Choose
    <3> QED BY <1>3, <3>1 DEF AllFit
  <2>2. CASE ShowToPatcher
    <3>1. PICK context \in Contexts(mission.of.objective) : run' = [run EXCEPT !.at = "ask", !.shown = context]
      BY <2>2 DEF ShowToPatcher
    <3>2. run'.shown = context
      BY <1>2, <3>1
    <3> QED BY <1>3, <1>4, <3>2, ContextsFit DEF Written
  <2>3. CASE \E place : RunAt(place)
    <3>1. PICK place : RunAt(place)
      BY <2>3
    <3>2. run' = [run EXCEPT !.at = place, !.agent = NoAgent, !.host = NoHost, !.shown = NoContext]
      BY <3>1 DEF RunAt
    <3>3. run'.shown = NoContext
      BY <1>2, <3>2
    <3> QED BY <3>3, NothingFits
  <2> QED BY <2>1, <2>2, <2>3 DEF MissionStep, BeginStep, StepCompletes, StepFails, Finalize
<1> QED BY <1>1, <1>3, <1>5, ShownIs DEF AllFit

\* A step of a job that writes no file.
LEMMA JobShows ==
  ASSUME ShownInv, texts' = texts, run' = run,
         job'.patches \in Seq(Patch), job'.text \in Seq(STRING),
         job'.at \in {"read", "write"} => job'.patches # <<>>,
         Fits(job'.shown), job'.kind # "pass" => Relevant(job'.shown)
  PROVE  ShownInv'
BY ShownIs DEF Written, AllFit

\* One that shows nothing new and keeps its patches.
LEMMA QuietShows ==
  ASSUME ShownInv, texts' = texts, run' = run,
         job'.patches = job.patches, job'.text = job.text, job'.kind = job.kind,
         job'.shown \in {job.shown, NoContext},
         job'.at \in {"read", "write"} => job'.patches # <<>>
  PROVE  ShownInv'
BY JobShows, ShownIs, NothingFits DEF Written, AllFit

LEMMA StartsShow ==
  ASSUME ShownInv, run' = run, (\E kind \in Jobs : StartJob(kind)) \/ (\E asked \in Asked : StartPass(asked))
  PROVE  ShownInv'
<1>1. /\ NoJob.patches = <<>> /\ NoJob.text = <<>> /\ NoJob.shown = NoContext
      /\ DOMAIN NoJob = JobFields
  BY DEF NoJob, JobFields
<1>2. /\ texts' = texts /\ job'.patches = <<>> /\ job'.text = <<>> /\ job'.shown = NoContext
      /\ job'.at \notin {"read", "write"}
  <2>1. texts' = texts
    BY ZenonT(60) DEF StartJob, StartPass, ProjectUnchanged
  <2>2. \E kind : \E at \in {"test", "team", "look", "refuse"} : job' = [NoJob EXCEPT !.kind = kind, !.at = at]
    BY DEF StartJob, StartPass
  <2>3. PICK kind : \E at \in {"test", "team", "look", "refuse"} : job' = [NoJob EXCEPT !.kind = kind, !.at = at]
    BY <2>2
  <2>4. PICK at \in {"test", "team", "look", "refuse"} : job' = [NoJob EXCEPT !.kind = kind, !.at = at]
    BY <2>3
  <2> QED BY <1>1, <2>1, <2>4 DEF JobFields
<1>3. <<>> \in Seq(Patch) /\ <<>> \in Seq(STRING)
  OBVIOUS
<1> QED BY <1>2, <1>3, NothingFits, JobShows

LEMMA PassShows ==
  ASSUME JobInv, ShownInv, run' = run, PassStep, ~\E asked \in Asked : StartPass(asked)
  PROVE  ShownInv'
<1>1. DOMAIN job = JobFields
  BY JobIs
<1>2. Written(texts, job) /\ AllFit(job, run)
  BY ShownIs
<1>3. CASE Look
  <2>1. PICK objective \in Objectives :
          job' = [job EXCEPT !.at = "reply",
                             !.shown = [about |-> objective, dirs |-> FoldersFor(texts, objective),
                                        blocks |-> incremental_build(texts, objective)]]
    BY <1>3 DEF Look
  <2>2. /\ job'.patches = job.patches /\ job'.text = job.text /\ job'.kind = job.kind /\ job'.at = "reply"
        /\ job'.shown = [about |-> objective, dirs |-> FoldersFor(texts, objective),
                         blocks |-> incremental_build(texts, objective)]
    BY <1>1, <2>1 DEF JobFields
  <2>3. job.kind = "pass" /\ texts' = texts
    BY <1>3 DEF Look, PassAt, ProjectUnchanged
  <2>4. Fits(job'.shown)
    BY <1>2, <2>2, PatchingAssumption, PassFits DEF Written
  <2> QED BY <1>2, <2>2, <2>3, <2>4, JobShows DEF Written
<1>4. CASE ~Look
  <2>1. texts' = texts
    BY <1>4 DEF PassStep, Refuse, ModelFails, Speaks, Acts, RunTool, PassAt, ProjectUnchanged
  <2>2. \/ \E result : job' = [job EXCEPT !.at = "answered", !.shown = NoContext, !.result = result]
        \/ job' = [job EXCEPT !.at = "act", !.shown = NoContext]
    BY <1>4 DEF PassStep, Refuse, ModelFails, Speaks, Acts, RunTool, Return
  <2>3. /\ job'.patches = job.patches /\ job'.text = job.text /\ job'.kind = job.kind
        /\ job'.shown = NoContext /\ job'.at \in {"answered", "act"}
    BY <1>1, <2>2 DEF JobFields
  <2> QED BY <2>1, <2>3, QuietShows
<1> QED BY <1>3, <1>4

LEMMA PatchersShow ==
  ASSUME JobInv, BackupInv, ShownInv, run' = run, JobStep, ~\E kind \in Jobs : StartJob(kind)
  PROVE  ShownInv'
<1>1. DOMAIN job = JobFields
  BY JobIs
<1>2. Written(texts, job) /\ AllFit(job, run)
  BY ShownIs
<1>3. job.patches # <<>> => Head(job.patches) \in Patch /\ Tail(job.patches) \in Seq(Patch)
  BY <1>2 DEF Written
<1>4. CASE AskTeam
  <2>1. texts' = texts /\ \E team, at :
          job' = [job EXCEPT !.team = team, !.at = at] /\ at \in {"generate", "team", "raised"}
    <3>1. texts' = texts
      BY <1>4 DEF AskTeam, ProjectUnchanged
    <3>2. CASE Goto("raised")
      <4>1. job' = [job EXCEPT !.team = job.team, !.at = "raised"]
        BY <1>1, <3>2 DEF Goto, JobFields
      <4> QED BY <3>1, <4>1
    <3>3. CASE ~Goto("raised")
      BY <1>4, <3>1, <3>3 DEF AskTeam
    <3> QED BY <3>2, <3>3
  <2>2. /\ job'.patches = job.patches /\ job'.text = job.text /\ job'.kind = job.kind
        /\ job'.shown = job.shown /\ job'.at \notin {"read", "write"}
    BY <1>1, <2>1 DEF JobFields
  <2> QED BY <2>1, <2>2, QuietShows
<1>5. CASE RunTests
  <2>1. /\ texts' = texts /\ job'.patches = job.patches /\ job'.text = job.text /\ job'.kind = job.kind
        /\ job'.shown = job.shown /\ job'.at \notin {"read", "write"}
    BY <1>1, <1>5 DEF RunTests, ProjectUnchanged, JobFields
  <2> QED BY <2>1, QuietShows
<1>6. CASE ShowProject
  <2>0. PICK objective \in Objectives : \E context \in Contexts(objective) :
          job' = [job EXCEPT !.at = "ask", !.shown = context]
    BY <1>6 DEF ShowProject
  <2>1. PICK context \in Contexts(objective) : job' = [job EXCEPT !.at = "ask", !.shown = context]
    BY <2>0
  <2>2. /\ job'.patches = job.patches /\ job'.text = job.text /\ job'.at = "ask" /\ job'.shown = context
        /\ texts' = texts
    BY <1>1, <1>6, <2>1 DEF ShowProject, ProjectUnchanged, JobFields
  <2>3. Fits(context) /\ Relevant(context)
    BY <1>2, PatchingAssumption, ContextsFit DEF Written
  <2> QED BY <1>2, <2>2, <2>3, JobShows DEF Written
<1>7. CASE GenerateFails
  <2>1. /\ texts' = texts /\ job'.patches = job.patches /\ job'.text = job.text /\ job'.kind = job.kind
        /\ job'.shown = NoContext /\ job'.at = "raised"
    BY <1>1, <1>7 DEF GenerateFails, ProjectUnchanged, JobFields
  <2> QED BY <2>1, QuietShows
<1>8. CASE Generate
  <2>1. PICK answer \in Answers :
          job' = [job EXCEPT !.patches = answer, !.shown = NoContext, !.modified = <<>>,
                             !.at = IF job.kind = "preview" THEN "done" ELSE "apply"]
    BY <1>8 DEF Generate
  <2>2. /\ texts' = texts /\ job'.patches = answer /\ job'.text = job.text
        /\ job'.shown = NoContext /\ job'.at \notin {"read", "write"}
    BY <1>1, <1>8, <2>1 DEF Generate, ProjectUnchanged, JobFields
  <2>3. answer \in Seq(Patch)
    BY PatchingAssumption
  <2> QED BY <1>2, <2>2, <2>3, NothingFits, JobShows DEF Written
<1>9. CASE SkipMissing
  <2>1. /\ texts' = texts /\ job'.patches = Tail(job.patches) /\ job'.text = job.text /\ job'.kind = job.kind
        /\ job'.shown = job.shown /\ job'.at = "apply" /\ job.patches # <<>>
    BY <1>1, <1>9 DEF SkipMissing, ProjectUnchanged, JobFields, At
  <2> QED BY <1>2, <1>3, <2>1, JobShows DEF Written, AllFit
<1>10. CASE Backup
  <2>1. /\ texts' = texts /\ job'.patches = job.patches /\ job'.text = job.text /\ job'.kind = job.kind
        /\ job'.shown = job.shown /\ job.patches # <<>>
    BY <1>1, <1>10 DEF Backup, Goto, JobFields
  <2> QED BY <2>1, QuietShows
<1>11. CASE Operated
  <2>1. At("read") /\ texts' = texts
    BY <1>11 DEF Operated, ProjectUnchanged
  <2>2. job.patches # <<>>
    BY <1>2, <2>1 DEF Written, At
  <2> DEFINE patch == Head(job.patches)
             text == Patched(texts[patch.path], patch.ops)
  <2>3. Goto("raised") \/ job' = [job EXCEPT !.text = text, !.at = "write"]
    BY <1>11 DEF Operated
  <2>4. CASE Goto("raised")
    <3>1. /\ job'.patches = job.patches /\ job'.text = job.text /\ job'.kind = job.kind
          /\ job'.shown = job.shown /\ job'.at = "raised"
      BY <1>1, <2>4 DEF Goto, JobFields
    <3> QED BY <2>1, <3>1, QuietShows
  <2>5. CASE job' = [job EXCEPT !.text = text, !.at = "write"]
    <3>1. /\ job'.patches = job.patches /\ job'.text = text /\ job'.kind = job.kind
          /\ job'.shown = job.shown
      BY <1>1, <2>5 DEF JobFields
    <3>2. patch.path \in DOMAIN texts /\ patch.ops \in Seq(Operation)
      <4>1. patch.path \in DOMAIN texts
        BY <2>1, BackupIs DEF At, Target
      <4>2. patch \in Patch
        BY <1>3, <2>2
      <4> QED BY <4>1, <4>2 DEF Patch, Operation
    <3>3. text \in Seq(STRING)
      <4>1. texts[patch.path] \in Seq(STRING)
        BY <1>2, <3>2 DEF Written, Text
      <4> QED BY <3>2, <4>1, PatchedIsText
    <3> QED BY <1>2, <2>1, <2>2, <3>1, <3>3, JobShows DEF Written, AllFit
  <2> QED BY <2>3, <2>4, <2>5
<1>12. CASE Write
  <2>1. At("write") /\ job.patches # <<>>
    BY <1>2, <1>12 DEF Write, Written, At
  <2> DEFINE path == Head(job.patches).path
  <2>2. /\ texts' = Saved(texts, path, job.text)
        /\ job'.patches = Tail(job.patches) /\ job'.text = job.text /\ job'.kind = job.kind
        /\ job'.shown = job.shown /\ job'.at = "apply"
    BY <1>1, <1>12 DEF Write, JobFields
  <2>3. path \in DOMAIN texts
    BY <2>1, BackupIs DEF At, Target
  <2>4. Text(texts')
    <3> HIDE DEF path
    <3> QED BY <1>2, <2>2, <2>3 DEF Written, Text, Saved
  <2> QED BY <1>2, <1>3, <2>1, <2>2, <2>4, ShownIs DEF Written, AllFit
<1>13. CASE Applied
  <2>1. texts' = texts /\ \E round, at :
          job' = [job EXCEPT !.round = round, !.at = at] /\ at \in {"done", "test", "given up"}
    BY <1>13 DEF Applied, ProjectUnchanged
  <2>2. /\ job'.patches = job.patches /\ job'.text = job.text /\ job'.kind = job.kind
        /\ job'.shown = job.shown /\ job'.at \notin {"read", "write"}
    BY <1>1, <2>1 DEF JobFields
  <2> QED BY <2>1, <2>2, QuietShows
<1> QED BY <1>4, <1>5, <1>6, <1>7, <1>8, <1>9, <1>10, <1>11, <1>12, <1>13 DEF JobStep

LEMMA OthersShow ==
  ASSUME ShownInv, run' = run, Tick \/ Edit
  PROVE  ShownInv'
<1>1. Written(texts, job) /\ AllFit(job, run) /\ job' = job
  BY ShownIs DEF Tick, Edit
<1>2. Text(texts')
  <2>1. CASE Tick
    BY <1>1, <2>1 DEF Tick, Written
  <2>2. CASE Edit
    <3>1. PICK path \in Files : texts' = Saved(texts, path, Edited)
      BY <2>2 DEF Edit
    <3>2. path \in ToSet(PathOrder) /\ Edited \in Seq(STRING)
      BY PatchingAssumption
    <3> QED BY <1>1, <3>1, <3>2 DEF Written, Text, Saved
  <2> QED BY <2>1, <2>2
<1> QED BY <1>1, <1>2, ShownIs DEF Written, AllFit

LEMMA ShownKept ==
  ASSUME MissionTypeInv, JobInv, BackupInv, ShownInv, [Next]_vars
  PROVE  ShownInv'
<1>1. UNCHANGED missionVars => run' = run
  BY DEF missionVars
<1>2. CASE UNCHANGED vars
  <2>1. texts' = texts /\ job' = job /\ run' = run
    BY <1>2 DEF vars, patchVars, missionVars
  <2> QED BY <2>1, ShownIs
<1>3. CASE JobStep /\ UNCHANGED missionVars
  BY <1>1, <1>3, StartsShow, PatchersShow
<1>4. CASE PassStep /\ UNCHANGED missionVars
  BY <1>1, <1>4, StartsShow, PassShows
<1> QED BY <1>1, <1>2, <1>3, <1>4, StepKinds, MissionShows, OthersShow

-----------------------------------------------------------------------------
(* The theorems                                                            *)

LEMMA InitHolds == Init => IInv
<1> SUFFICES ASSUME Init
             PROVE  IInv
  OBVIOUS
<1>1. PICK m \in Missions, r \in Registries : mission = [of |-> m, agents |-> r, status |-> "created", current |-> 1]
  BY DEF Init
<1>2. /\ steps = [k \in 1..mission.of.steps |-> "created"] /\ history = <<>>
      /\ run = [at |-> "idle", count |-> 0, agent |-> NoAgent, host |-> NoHost, shown |-> NoContext]
      /\ job = NoJob /\ overwritten = {} /\ clobbered = {} /\ edits = 0
  BY DEF Init, PatchInit
<1>3. m.steps \in Nat
  BY MissionsAssumption
<1>4. MissionTypeInv
  <2>1. mission \in MissionRecords
    BY <1>1 DEF MissionRecords
  <2>2. steps \in Seq(Statuses)
    <3>1. "created" \in Statuses /\ mission.of = m
      BY <1>1 DEF Statuses
    <3>2. steps = [k \in 1..m.steps |-> "created"]
      BY <1>2, <3>1
    <3> QED BY <1>3, <3>1, <3>2
  <2>3. history \in Seq(Lines) /\ DOMAIN run = RunFields /\ run.at = "idle"
    BY <1>2 DEF RunFields
  <2> QED BY <2>1, <2>2, <2>3, TypesAre
<1>5. StoryInv
  <2>1. mission.status = "created" /\ run.at = "idle" /\ history = <<>>
    BY <1>1, <1>2
  <2>2. \A k \in DOMAIN steps : steps[k] # "running"
    BY <1>2
  <2> QED BY <2>1, <2>2, StoryIs DEF Told
<1>6. JobInv
  <2>1. NoJob.kind = "none" /\ NoJob.at = "idle" /\ NoJob.round = 0 /\ DOMAIN NoJob = JobFields
    BY DEF NoJob, JobFields
  <2>2. PlacesOf("none", "idle")
    BY PatchingAssumption DEF PlacesOf, Places, PassPlaces
  <2>3. RoundsOf("none", "idle", 0)
    BY DEF RoundsOf
  <2> QED BY <1>2, <2>1, <2>2, <2>3, JobIs
<1>7. BackupInv
  BY <1>2, BackupIs DEF NoJob
<1>8. RoutingIsJustified
  BY <1>2, JustifiedIs
<1>9. ShownInv
  <2>1. NoJob.patches = <<>> /\ NoJob.text = <<>> /\ NoJob.shown = NoContext /\ NoJob.at = "idle"
    BY DEF NoJob
  <2>2. <<>> \in Seq(Patch) /\ <<>> \in Seq(STRING)
    OBVIOUS
  <2>3. texts = Start /\ run.shown = NoContext
    BY <1>2 DEF Init, PatchInit
  <2>4. Written(texts, job)
    BY <1>2, <2>1, <2>2, <2>3, MissionsAssumption DEF Written, Text
  <2> QED BY <1>2, <2>1, <2>3, <2>4, NothingFits, ShownIs DEF AllFit
<1> QED BY <1>4, <1>5, <1>6, <1>7, <1>8, <1>9 DEF IInv

LEMMA Inductive == IInv /\ [Next]_vars => IInv'
BY StoryKept, JobKept, BackupKept, RoutingKept, ShownKept DEF IInv

\* The inductive invariant of missions and jobs, whatever the model answers, the machine is at
\* and others write.
THEOREM Invariant == Spec => []IInv
  BY InitHolds, Inductive, PTL DEF Spec

\* The dispatcher gives a step to an agent that takes missions, and to no less urgent and no
\* dearer one than the state of the machine accounts for, for every registry, host and mission.
THEOREM Routed == Spec => []RoutingIsJustified
<1>1. IInv => RoutingIsJustified
  BY DEF IInv
<1> QED BY <1>1, Invariant, PTL

\* What the builder shows an agent is no longer than it may be but for the newlines between
\* blocks, is of the directories chosen, has no file twice and cuts the last one only; what it
\* shows a patcher is ranked by the objective and leaves out what is to be left out, whatever
\* the project, its patterns and the objective are.
THEOREM Shown == Spec => []ContextFits
<1>1. IInv => ContextFits
  BY DEF IInv, ShownInv
<1> QED BY <1>1, Invariant, PTL

\* What PatchApplier writes over is in a backup, unless somebody else wrote it after the copy
\* or a copy of the same second took its place; a preview writes nothing over.
THEOREM Recoverable == Spec => []PatchesAreRecoverable
<1>1. IInv => PatchesAreRecoverable
  BY DEF IInv, BackupInv
<1> QED BY <1>1, Invariant, PTL

\* A mission's status, steps and history tell one story; a fix that says it succeeded was
\* tested; a pass says what it did.
THEOREM Reported == Spec => []ReportsAreTrue
<1>1. IInv => ReportsAreTrue
  BY DEF IInv, StoryInv, JobInv, ReportsAreTrue
<1> QED BY <1>1, Invariant, PTL
=============================================================================
