----------------------- MODULE EvolutionEngine_proofs -----------------------
(***************************************************************************)
(* Proofs about the evolution engine: its inductive invariant IInv, and    *)
(* with it that the backlog file is true of the queue, that an enabled     *)
(* engine is attended, and how much of the queue it may keep active, for   *)
(* every set of objectives, findings and request threads.                  *)
(***************************************************************************)
EXTENDS EvolutionEngine, FiniteSetTheorems, TLAPS

-----------------------------------------------------------------------------
(* The queue                                                               *)

\* An entry changes its status.
LEMMA StatusOfOne ==
  ASSUME NEW q \in Seq(Entry), NEW k \in DOMAIN q,
         NEW st \in {"queued", "running", "orphaned", "done", "failed"}
  PROVE  LET r == [q EXCEPT ![k].status = st] IN
         /\ r \in Seq(Entry) /\ DOMAIN r = DOMAIN q
         /\ \A j \in DOMAIN q : /\ r[j].objective = q[j].objective
                                /\ r[j].status = IF j = k THEN st ELSE q[j].status
<1> DEFINE e == [q[k] EXCEPT !.status = st]
<1>1. e \in Entry /\ e.objective = q[k].objective /\ e.status = st
  <2>1. q[k] \in Entry
    OBVIOUS
  <2> QED BY <2>1 DEF Entry
<1>2. [q EXCEPT ![k].status = st] = [q EXCEPT ![k] = e]
  OBVIOUS
<1> HIDE DEF e
<1> DEFINE r == [q EXCEPT ![k] = e]
<1>3. r \in Seq(Entry) /\ DOMAIN r = DOMAIN q
  BY <1>1
<1>4. \A j \in DOMAIN q : r[j] = IF j = k THEN e ELSE q[j]
  OBVIOUS
<1>5. \A j \in DOMAIN q : r[j].objective = q[j].objective
                         /\ r[j].status = IF j = k THEN st ELSE q[j].status
  BY <1>1, <1>4
<1> HIDE DEF r
<1>6. /\ r \in Seq(Entry) /\ DOMAIN r = DOMAIN q
      /\ \A j \in DOMAIN q : /\ r[j].objective = q[j].objective
                             /\ r[j].status = IF j = k THEN st ELSE q[j].status
  BY <1>3, <1>5
<1>7. [q EXCEPT ![k].status = st] = r
  BY <1>2 DEF r
<1> QED BY <1>6, <1>7

\* A restart: what runs is orphaned.
Orphaned(q) == [k \in DOMAIN q |-> IF q[k].status = "running"
                                  THEN [q[k] EXCEPT !.status = "orphaned"]
                                  ELSE q[k]]

LEMMA StatusOfOrphans ==
  ASSUME NEW q \in Seq(Entry)
  PROVE  /\ Orphaned(q) \in Seq(Entry) /\ DOMAIN Orphaned(q) = DOMAIN q
         /\ \A j \in DOMAIN q : /\ Orphaned(q)[j].objective = q[j].objective
                                /\ Says(Orphaned(q)[j]) = Says(q[j])
<1>1. ASSUME NEW j \in DOMAIN q
      PROVE  /\ Orphaned(q)[j] \in Entry
             /\ Orphaned(q)[j].objective = q[j].objective
             /\ Says(Orphaned(q)[j]) = Says(q[j])
  <2>1. q[j] \in Entry
    OBVIOUS
  <2>2. CASE q[j].status = "running"
    <3>1. Orphaned(q)[j] = [q[j] EXCEPT !.status = "orphaned"]
      BY <2>2 DEF Orphaned
    <3>2. /\ Orphaned(q)[j] \in Entry /\ Orphaned(q)[j].objective = q[j].objective
          /\ Orphaned(q)[j].status = "orphaned"
      BY <2>1, <3>1 DEF Entry
    <3> QED BY <2>2, <3>2 DEF Says
  <2>3. CASE q[j].status # "running"
    <3>1. Orphaned(q)[j] = q[j]
      BY <2>3 DEF Orphaned
    <3> QED BY <2>1, <3>1
  <2> QED BY <2>2, <2>3
<1>2. DOMAIN Orphaned(q) = DOMAIN q
  BY DEF Orphaned
<1>3. Orphaned(q) \in Seq(Entry)
  <2>1. Len(q) \in Nat /\ DOMAIN q = 1..Len(q)
    OBVIOUS
  <2>2. Orphaned(q) \in [1..Len(q) -> Entry]
    BY <1>1, <2>1 DEF Orphaned
  <2> QED BY <2>1, <2>2
<1> QED BY <1>1, <1>2, <1>3

\* An enqueue.
LEMMA EntryAppended ==
  ASSUME NEW q \in Seq(Entry), NEW o \in Objectives
  PROVE  LET r == Append(q, [objective |-> o, status |-> "queued"]) IN
         /\ r \in Seq(Entry) /\ DOMAIN r = (DOMAIN q) \cup {Len(q) + 1}
         /\ Len(q) + 1 \notin DOMAIN q
         /\ r[Len(q) + 1].objective = o /\ r[Len(q) + 1].status = "queued"
         /\ \A j \in DOMAIN q : r[j] = q[j]
<1>1. [objective |-> o, status |-> "queued"] \in Entry
  BY DEF Entry
<1> DEFINE e == [objective |-> o, status |-> "queued"]
<1>2. e \in Entry /\ e.objective = o /\ e.status = "queued"
  BY <1>1
<1> HIDE DEF e
<1>3. /\ Append(q, e) \in Seq(Entry) /\ DOMAIN Append(q, e) = (DOMAIN q) \cup {Len(q) + 1}
      /\ Len(q) + 1 \notin DOMAIN q
      /\ Append(q, e)[Len(q) + 1] = e
      /\ \A j \in DOMAIN q : Append(q, e)[j] = q[j]
  BY <1>2
<1> QED BY <1>2, <1>3 DEF e

\* Of some entries of a sequence one is the last.
LEMMA LastExists ==
  ASSUME NEW n \in Nat, NEW E \in SUBSET (1..n), E # {}
  PROVE  \E k \in E : \A j \in E : j =< k
<1> DEFINE D == {n - k : k \in E}
           R == OpToRel(<, Nat)
<1>1. D \subseteq Nat /\ D # {}
  <2>1. \A k \in E : n - k \in Nat
    <3> TAKE k \in E
    <3>1. k \in 1..n
      OBVIOUS
    <3> QED BY <3>1
  <2> QED BY <2>1
<1>2. IsWellFoundedOn(R, Nat)
  BY NatLessThanWellFounded
<1>3. \A i, j \in Nat : i < j => <<i, j>> \in R
  BY DEF OpToRel
<1>4. PICK d \in D : \A e \in D : ~(<<e, d>> \in R)
  <2> HIDE DEF D, R
  <2> QED BY <1>1, <1>2, WFMin
<1> HIDE DEF R
<1>5. \A e \in D : e \in Nat /\ d \in Nat /\ d =< e
  <2> HIDE DEF D
  <2>1. \A e \in D : e \in Nat /\ d \in Nat /\ (e < d \/ d =< e)
    BY <1>1
  <2> QED BY <1>3, <1>4, <2>1
<1>6. PICK k \in E : d = n - k
  OBVIOUS
<1>7. ASSUME NEW j \in E
      PROVE  j =< k
  <2>1. n - j \in D
    OBVIOUS
  <2>2. j \in 1..n /\ k \in 1..n
    OBVIOUS
  <2>3. n - k =< n - j
    <3> HIDE DEF D
    <3> QED BY <1>5, <1>6, <2>1
  <2> QED BY <2>2, <2>3
<1> QED BY <1>7

\* An item synced with the queue keeps its status or takes one the queue gives its objective.
LEMMA SyncedItem ==
  ASSUME NEW items \in Backlog, NEW q \in Seq(Entry), NEW o \in Objectives
  PROVE  \/ Synced(items, q)[o] = items[o]
         \/ /\ Synced(items, q)[o] \in Status
            /\ \E k \in DOMAIN q : q[k].objective = o
<1> DEFINE entries == {k \in DOMAIN q : q[k].objective = o}
           last == CHOOSE k \in entries : \A j \in entries : j =< k
<1>1. CASE items[o] = Absent \/ entries = {}
  BY <1>1 DEF Synced
<1>2. CASE ~(items[o] = Absent \/ entries = {})
  <2>1. entries \in SUBSET (1..Len(q)) /\ Len(q) \in Nat
    OBVIOUS
  <2>2. \E k \in entries : \A j \in entries : j =< k
    <3> HIDE DEF entries
    <3> QED BY <1>2, <2>1, LastExists
  <2>3. last \in entries
    <3> HIDE DEF entries
    <3> QED BY <2>2
  <2>4. Synced(items, q)[o] = Says(q[last])
    BY <1>2 DEF Synced
  <2> HIDE DEF last
  <2>5. last \in DOMAIN q /\ q[last] \in Entry /\ q[last].objective = o
    BY <2>3
  <2>6. Says(q[last]) \in Status
    BY <2>5 DEF Says, Entry, Status
  <2> QED BY <2>4, <2>5, <2>6
<1> QED BY <1>1, <1>2

\* What is synced is in the queue if it says pending no longer, and pending only if it is not.
LEMMA SyncedBacklog ==
  ASSUME NEW items \in Backlog, NEW q \in Seq(Entry)
  PROVE  /\ Synced(items, q) \in Backlog
         /\ \A o \in Objectives :
              Synced(items, q)[o] = "pending" => \A k \in DOMAIN q : q[k].objective # o
<1>1. \A o \in Objectives : Synced(items, q)[o] \in Status \cup {Absent}
  BY SyncedItem DEF Backlog
<1>2. Synced(items, q) \in Backlog
  BY <1>1 DEF Synced, Backlog
<1>3. ASSUME NEW o \in Objectives, Synced(items, q)[o] = "pending", NEW k \in DOMAIN q,
             q[k].objective = o
      PROVE  FALSE
  <2> DEFINE entries == {j \in DOMAIN q : q[j].objective = o}
             last == CHOOSE j \in entries : \A i \in entries : i =< j
  <2>1. entries \in SUBSET (1..Len(q)) /\ Len(q) \in Nat /\ entries # {}
    BY <1>3
  <2>2. \E j \in entries : \A i \in entries : i =< j
    <3> HIDE DEF entries
    <3> QED BY <2>1, LastExists
  <2>3. last \in entries
    <3> HIDE DEF entries
    <3> QED BY <2>2
  <2>4. Synced(items, q)[o] = IF items[o] = Absent THEN items[o] ELSE Says(q[last])
    BY <2>1 DEF Synced
  <2> HIDE DEF last
  <2>5. q[last] \in Entry
    BY <2>3
  <2>6. Says(q[last]) # "pending"
    BY <2>5 DEF Says, Entry
  <2> QED BY <1>3, <2>4, <2>6 DEF Absent
<1> QED BY <1>2, <1>3

\* A read of the queue sees it, or nothing if it met the file half written.
LEMMA SeenQueue ==
  ASSUME TypeOK, NEW q \in Seen
  PROVE  /\ q \in Seq(Entry)
         /\ q = queue \/ q = <<>>
         /\ MaxFaults = 0 => q = queue
<1>1. queue \in Seq(Entry) /\ faults \in 0..MaxFaults
  BY DEF TypeOK
<1>2. <<>> \in Seq(Entry)
  OBVIOUS
<1>3. q = queue \/ (q = <<>> /\ faults < MaxFaults)
  BY DEF Seen
<1>4. MaxFaults = 0 => q = queue
  BY <1>1, <1>3
<1> QED BY <1>1, <1>2, <1>3, <1>4

-----------------------------------------------------------------------------
(* Types                                                                   *)

\* What the analysis may come to propose are objectives.
LEMMA CandidatesAreObjectives ==
  ASSUME NEW q \in Seq(Entry), NEW candidates \in Analyses(q)
  PROVE  candidates \subseteq Objectives
<1>1. PICK found \in Repositories, advice \in Advices : candidates = Proposed(found, advice, q)
  BY DEF Analyses
<1> DEFINE reasons == Lacks \cup found \cup advice \cup (IF q = <<>> THEN {Tests} ELSE {})
<1>2. reasons \subseteq Objectives
  BY ConstantsAssumption
<1>3. CASE reasons = {}
  <2>1. Lacks = {} /\ found = {} /\ advice = {}
    BY <1>3
  <2>2. Observability \in Objectives
    BY <2>1, ConstantsAssumption
  <2> QED BY <1>1, <1>3, <2>2 DEF Proposed
<1>4. CASE reasons # {}
  BY <1>1, <1>2, <1>4 DEF Proposed
<1> QED BY <1>3, <1>4

\* What a read of the backlog file makes of it is a backlog.
LEMMA KnownBacklog ==
  ASSUME TypeOK, NEW known \in Known
  PROVE  known \in Backlog /\ (known = backlog \/ known = Empty)
  BY DEF TypeOK, Known, Empty, Backlog

\* At rest a thread has no state of its own.
LEMMA RestTypes ==
  ASSUME TypeOK, NEW t \in Threads, Rest(t)
  PROVE  /\ pc' \in [Threads -> {"idle", "looping", "analyzing", "syncing", "saving", "checking",
                         "enqueuing", "saving again", "replacing", "resting"}]
         /\ mine' \in [Threads -> Backlog]
         /\ pick' \in [Threads -> Objectives \cup {Absent}]
         /\ \A u \in Threads : pc'[u] \in {"enqueuing", "saving again"} => pick'[u] \in Objectives
<1>1. Empty \in Backlog
  BY DEF Empty, Backlog
<1> QED BY <1>1 DEF TypeOK, Rest, Goto

\* A read that misses what is there is counted, and within the bound.
LEMMA TornTypes ==
  ASSUME TypeOK, NEW q \in Seen, NEW known \in Known,
         Torn(<<q, known>> # <<queue, backlog>>)
  PROVE  faults' \in 0..MaxFaults /\ torn' \in BOOLEAN
<1>1. faults \in 0..MaxFaults /\ torn \in BOOLEAN /\ MaxFaults \in Nat
  BY ConstantsAssumption DEF TypeOK
<1>2. torn' \in BOOLEAN
  BY DEF Torn
<1>3. CASE q = queue /\ known = backlog
  BY <1>1, <1>3 DEF Torn
<1>4. CASE q # queue \/ known # backlog
  <2>1. faults < MaxFaults
    BY <1>4 DEF Seen, Known
  <2> QED BY <1>1, <1>4, <2>1 DEF Torn
<1> QED BY <1>2, <1>3, <1>4

LEMMA TornQueueTypes ==
  ASSUME TypeOK, NEW q \in Seen, Torn(q # queue)
  PROVE  faults' \in 0..MaxFaults /\ torn' \in BOOLEAN
<1>1. faults \in 0..MaxFaults /\ torn \in BOOLEAN /\ MaxFaults \in Nat
  BY ConstantsAssumption DEF TypeOK
<1>2. q # queue => faults < MaxFaults
  BY DEF Seen
<1> QED BY <1>1, <1>2 DEF Torn

LEMMA TornQueuesTypes ==
  ASSUME TypeOK, NEW q \in Seen, NEW r \in Seen, Torn(<<q, r>> # <<queue, queue>>)
  PROVE  faults' \in 0..MaxFaults /\ torn' \in BOOLEAN
<1>1. faults \in 0..MaxFaults /\ torn \in BOOLEAN /\ MaxFaults \in Nat
  BY ConstantsAssumption DEF TypeOK
<1>2. <<q, r>> # <<queue, queue>> => faults < MaxFaults
  BY DEF Seen
<1> QED BY <1>1, <1>2 DEF Torn

LEMMA TypesKept == TypeOK /\ [Next]_vars => TypeOK'
<1> SUFFICES ASSUME TypeOK, [Next]_vars
             PROVE  TypeOK'
  OBVIOUS
<1>a. Engine \in Threads /\ Requests \subseteq Threads
  BY DEF Threads
<1>b. Empty \in Backlog
  BY DEF Empty, Backlog
<1>c. queue \in Seq(Entry) /\ backlog \in Backlog /\ mine \in [Threads -> Backlog]
  BY DEF TypeOK
<1>d. faults \in 0..MaxFaults /\ MaxFaults \in Nat /\ crashes \in 0..MaxCrashes /\ MaxCrashes \in Nat
  BY ConstantsAssumption DEF TypeOK
<1>1. ASSUME NEW t \in Threads, Merge(t)
      PROVE  TypeOK'
  <2>1. PICK q \in Seen, known \in Known : \E candidates \in Analyses(q) :
          /\ mine' = [mine EXCEPT ![t] = [o \in Objectives |->
                        IF known[o] # Absent THEN known[o]
                        ELSE IF o \in candidates THEN "pending" ELSE Absent]]
          /\ Torn(<<q, known>> # <<queue, backlog>>)
    BY <1>1 DEF Merge
  <2>2. known \in Backlog
    BY KnownBacklog
  <2>3. mine' \in [Threads -> Backlog]
    <3>1. ASSUME NEW candidates \in Analyses(q)
          PROVE  [o \in Objectives |-> IF known[o] # Absent THEN known[o]
                        ELSE IF o \in candidates THEN "pending" ELSE Absent] \in Backlog
      BY <2>2 DEF Backlog, Status
    <3> QED BY <2>1, <3>1 DEF TypeOK
  <2>4. faults' \in 0..MaxFaults /\ torn' \in BOOLEAN
    BY <2>1, TornTypes
  <2> QED BY <1>1, <2>3, <2>4 DEF Merge, Goto, TypeOK, engine
<1>2. ASSUME NEW t \in Threads, CycleRaises(t)
      PROVE  TypeOK'
  BY <1>2, RestTypes DEF CycleRaises, TypeOK, engine
<1>3. ASSUME NEW t \in Threads, WriteRaises(t)
      PROVE  TypeOK'
  <2>1. faults' \in 0..MaxFaults
    BY <1>3, <1>d DEF WriteRaises
  <2>2. lost' \in BOOLEAN
    BY <1>3 DEF WriteRaises, TypeOK
  <2>3. backlog' \in Backlog /\ queue' \in Seq(Entry)
    <3>1. backlog' \in {backlog, Empty} /\ queue' \in {queue, <<>>}
      BY <1>3 DEF WriteRaises
    <3>2. <<>> \in Seq(Entry)
      OBVIOUS
    <3> QED BY <1>b, <1>c, <3>1, <3>2
  <2> QED BY <1>3, <2>1, <2>2, <2>3, RestTypes DEF WriteRaises, TypeOK, engine
<1>4. ASSUME NEW t \in Threads, Sync(t)
      PROVE  TypeOK'
  <2>1. PICK q \in Seen : mine' = [mine EXCEPT ![t] = Synced(mine[t], q)] /\ Torn(q # queue)
    BY <1>4 DEF Sync
  <2>2. Synced(mine[t], q) \in Backlog
    BY SeenQueue, SyncedBacklog DEF TypeOK
  <2>3. faults' \in 0..MaxFaults /\ torn' \in BOOLEAN
    BY <2>1, TornQueueTypes
  <2> QED BY <1>4, <2>1, <2>2, <2>3 DEF Sync, Goto, TypeOK, engine
<1>5. ASSUME NEW t \in Threads, Save(t)
      PROVE  TypeOK'
  BY <1>5 DEF Save, Goto, TypeOK, engine
<1>6. ASSUME NEW t \in Threads, QueueNothing(t)
      PROVE  TypeOK'
  BY <1>6, RestTypes DEF QueueNothing, TypeOK, engine
<1>7. ASSUME NEW t \in Threads, ChooseItem(t)
      PROVE  TypeOK'
  <2>1. faults' \in 0..MaxFaults /\ torn' \in BOOLEAN
    BY <1>7, TornQueueTypes DEF ChooseItem
  <2> QED BY <1>7, <2>1 DEF ChooseItem, Pending, Goto, TypeOK, engine
<1>8. ASSUME NEW t \in Threads, EnqueueItem(t)
      PROVE  TypeOK'
  <2>1. pick[t] \in Objectives
    BY <1>8 DEF EnqueueItem, TypeOK
  <2>2. queue' \in Seq(Entry) /\ {served'} \subseteq BOOLEAN
    <3>1. queue' = Append(queue, [objective |-> pick[t], status |-> "queued"])
      BY <1>8 DEF EnqueueItem, Enqueue
    <3>2. queue' \in Seq(Entry)
      BY <1>c, <2>1, <3>1, EntryAppended
    <3>3. served' \in BOOLEAN
      BY <1>8 DEF EnqueueItem, Enqueue
    <3> QED BY <3>2, <3>3
  <2>3. mine' \in [Threads -> Backlog]
    BY <1>8, <2>1 DEF EnqueueItem, TypeOK, Backlog, Status
  <2> QED BY <1>8, <2>2, <2>3 DEF EnqueueItem, Goto, TypeOK, engine
<1>9. ASSUME NEW t \in Threads, SaveQueued(t)
      PROVE  TypeOK'
  BY <1>9, RestTypes DEF SaveQueued, TypeOK, engine
<1>10. ASSUME NEW t \in Requests, RequestCycle(t)
       PROVE  TypeOK'
  BY <1>10, <1>a DEF RequestCycle, Goto, TypeOK, engine
<1>11. ASSUME NEW t \in Requests, Rebuild(t)
       PROVE  TypeOK'
  <2>1. PICK q \in Seen, r \in Seen : \E candidates \in Analyses(q) :
          /\ mine' = [mine EXCEPT ![t] =
               Synced([o \in Objectives |-> IF o \in candidates THEN "pending" ELSE Absent], r)]
          /\ Torn(<<q, r>> # <<queue, queue>>)
    BY <1>11 DEF Rebuild
  <2>2. mine' \in [Threads -> Backlog]
    <3>1. ASSUME NEW candidates \in Analyses(q)
          PROVE  [o \in Objectives |-> IF o \in candidates THEN "pending" ELSE Absent] \in Backlog
      BY DEF Backlog, Status
    <3>2. r \in Seq(Entry)
      BY SeenQueue
    <3>3. ASSUME NEW items \in Backlog
          PROVE  Synced(items, r) \in Backlog
      BY <3>2, SyncedBacklog
    <3>4. PICK candidates \in Analyses(q) : mine' = [mine EXCEPT ![t] =
               Synced([o \in Objectives |-> IF o \in candidates THEN "pending" ELSE Absent], r)]
      BY <2>1
    <3> QED BY <3>1, <3>3, <3>4, <1>a, <1>c
  <2>3. faults' \in 0..MaxFaults /\ torn' \in BOOLEAN
    BY <2>1, TornQueuesTypes
  <2> QED BY <1>11, <1>a, <2>2, <2>3 DEF Rebuild, Goto, TypeOK, engine
<1>12. ASSUME NEW t \in Requests, Replace(t)
       PROVE  TypeOK'
  BY <1>12, <1>a, RestTypes DEF Replace, TypeOK, engine
<1>13. ASSUME NEW t \in Requests, RequestEnds(t)
       PROVE  TypeOK'
  BY <1>13, <1>a DEF RequestEnds, Goto, TypeOK, engine
<1>14. ASSUME Start \/ Stop \/ EngineCycles \/ EngineWaits \/ EngineExits
       PROVE  TypeOK'
  BY <1>14, <1>a DEF Start, Stop, EngineCycles, EngineWaits, EngineExits, Goto, TypeOK, engine
<1>15. ASSUME Crash
       PROVE  TypeOK'
  <2>1. queue' \in Seq(Entry)
    <3>1. queue' \in {Orphaned(queue), <<>>}
      BY <1>15 DEF Crash, Orphaned
    <3>2. <<>> \in Seq(Entry)
      OBVIOUS
    <3> QED BY <1>c, <3>1, <3>2, StatusOfOrphans
  <2>2. backlog' \in Backlog /\ lost' \in BOOLEAN
    <3>1. lost \in BOOLEAN
      BY DEF TypeOK
    <3> QED BY <1>15, <1>b, <1>c, <3>1 DEF Crash
  <2>3. crashes' \in 0..MaxCrashes
    BY <1>15, <1>d DEF Crash
  <2> QED BY <1>15, <1>b, <2>1, <2>2, <2>3 DEF Crash, TypeOK
<1>16. ASSUME QueueStart \/ QueueFinish
       PROVE  TypeOK'
  <2>1. queue' \in Seq(Entry)
    <3>1. PICK k \in DOMAIN queue, st \in {"running", "done", "failed"} :
            queue' = [queue EXCEPT ![k].status = st]
      BY <1>16 DEF QueueStart, QueueFinish
    <3> QED BY <1>c, <3>1, StatusOfOne
  <2> QED BY <1>16, <2>1 DEF QueueStart, QueueFinish, TypeOK, engine
<1>17. ASSUME UNCHANGED vars
       PROVE  TypeOK'
  BY <1>17 DEF TypeOK, vars, engine
<1> QED BY <1>a, <1>1, <1>2, <1>3, <1>4, <1>5, <1>6, <1>7, <1>8, <1>9, <1>10, <1>11, <1>12,
           <1>13, <1>14, <1>15, <1>16, <1>17 DEF Next, EngineStep, RequestStep, RunOnce

-----------------------------------------------------------------------------
(* Who is in a cycle, and who attends to an enabled engine                 *)

LEMMA CyclersKept == TypeOK /\ CyclersInv /\ [Next]_vars => CyclersInv'
<1> SUFFICES ASSUME TypeOK, CyclersInv, [Next]_vars
             PROVE  CyclersInv'
  OBVIOUS
<1>a. DOMAIN pc = Threads
  BY DEF TypeOK
<1>b. Engine \in Threads /\ Requests \subseteq Threads /\ Engine \in Cyclers
  BY DEF Threads, Cyclers
<1>1. ASSUME NEW t \in Threads, RunOnce(t)
      PROVE  CyclersInv'
  <2>1. CASE Merge(t) \/ Sync(t) \/ Save(t) \/ ChooseItem(t) \/ EnqueueItem(t)
    BY <1>a, <1>b, <2>1 DEF Merge, Sync, Save, ChooseItem, EnqueueItem, Goto, CyclersInv
  <2>2. CASE CycleRaises(t) \/ WriteRaises(t) \/ QueueNothing(t) \/ SaveQueued(t)
    BY <1>a, <1>b, <2>2 DEF CycleRaises, WriteRaises, QueueNothing, SaveQueued, Rest, Goto, CyclersInv
  <2> QED BY <1>1, <2>1, <2>2 DEF RunOnce
<1>2. ASSUME NEW t \in Requests, Replace(t) \/ RequestEnds(t) \/ RequestCycle(t) \/ Rebuild(t)
      PROVE  CyclersInv'
  BY <1>2, <1>a, <1>b DEF Replace, RequestEnds, RequestCycle, Rebuild, Rest, Goto, CyclersInv, Cyclers
<1>3. ASSUME Start \/ EngineCycles \/ EngineWaits \/ EngineExits
      PROVE  CyclersInv'
  BY <1>3, <1>a, <1>b DEF Start, EngineCycles, EngineWaits, EngineExits, Goto, CyclersInv
<1>4. ASSUME Stop \/ QueueStart \/ QueueFinish \/ UNCHANGED vars
      PROVE  CyclersInv'
  BY <1>4 DEF Stop, QueueStart, QueueFinish, vars, CyclersInv
<1>5. ASSUME Crash
      PROVE  CyclersInv'
  BY <1>5 DEF Crash, CyclersInv
<1> QED BY <1>b, <1>1, <1>2, <1>3, <1>4, <1>5 DEF Next, EngineStep, RequestStep

LEMMA AttendedKept == TypeOK /\ AttendedInv /\ [Next]_vars => AttendedInv'
<1> SUFFICES ASSUME TypeOK, AttendedInv, [Next]_vars
             PROVE  AttendedInv'
  OBVIOUS
<1>1. ASSUME UNCHANGED engine
      PROVE  AttendedInv'
  BY <1>1 DEF AttendedInv, engine
<1>2. ASSUME NEW t \in Threads, RunOnce(t)
      PROVE  UNCHANGED engine
  BY <1>2 DEF RunOnce, Merge, CycleRaises, WriteRaises, Sync, Save, QueueNothing, ChooseItem,
              EnqueueItem, SaveQueued
<1>3. ASSUME NEW t \in Requests, Replace(t) \/ RequestEnds(t) \/ RequestCycle(t) \/ Rebuild(t)
      PROVE  UNCHANGED engine
  BY <1>3 DEF Replace, RequestEnds, RequestCycle, Rebuild
<1>4. ASSUME EngineCycles \/ EngineWaits \/ QueueStart \/ QueueFinish \/ UNCHANGED vars
      PROVE  UNCHANGED engine
  BY <1>4 DEF EngineCycles, EngineWaits, QueueStart, QueueFinish, vars
<1>5. ASSUME Start
      PROVE  AttendedInv'
  BY <1>5 DEF Start, AttendedInv
<1>6. ASSUME Stop
      PROVE  AttendedInv'
  BY <1>6 DEF Stop, AttendedInv
\* A thread leaves because the engine was stopped or told it to.
<1>7. ASSUME EngineExits
      PROVE  AttendedInv'
  BY <1>7 DEF EngineExits, AttendedInv
<1>8. ASSUME Crash
      PROVE  AttendedInv'
  BY <1>8 DEF Crash, AttendedInv
<1>9. Engine \in Threads /\ Requests \subseteq Threads
  BY DEF Threads
<1> QED BY <1>1, <1>2, <1>3, <1>4, <1>5, <1>6, <1>7, <1>8, <1>9 DEF Next, EngineStep, RequestStep

-----------------------------------------------------------------------------
(* What is said to be queued is                                            *)

QueuedIn(q) == {q[k].objective : k \in DOMAIN q}
Backed(q, items) == \A o \in Objectives : items[o] \notin {Absent, "pending"} => o \in QueuedIn(q)

LEMMA BackedIs ==
  /\ BackedInv <=> (~lost => Backed(queue, backlog) /\ \A t \in Threads : Backed(queue, mine[t]))
  /\ BackedInv' <=> (~lost' => Backed(queue', backlog') /\ \A t \in Threads : Backed(queue', mine'[t]))
  BY DEF BackedInv, BacklogBacked, Backed, QueuedIn, QueuedObjectives

\* No step of the queue's own takes an objective out of it.
LEMMA QueueSteps ==
  ASSUME TypeOK, QueueStart \/ QueueFinish
  PROVE  /\ DOMAIN queue' = DOMAIN queue
         /\ \A k \in DOMAIN queue : queue'[k].objective = queue[k].objective
         /\ QueuedIn(queue') = QueuedIn(queue)
<1>1. PICK k \in DOMAIN queue, st \in {"running", "done", "failed"} :
        queue' = [queue EXCEPT ![k].status = st]
  BY DEF QueueStart, QueueFinish
<1>2. queue \in Seq(Entry)
  BY DEF TypeOK
<1>3. /\ DOMAIN queue' = DOMAIN queue
      /\ \A j \in DOMAIN queue : queue'[j].objective = queue[j].objective
  BY <1>1, <1>2, StatusOfOne
<1> QED BY <1>3 DEF QueuedIn

\* An enqueue puts the objective behind what is there.
LEMMA EnqueueStep ==
  ASSUME TypeOK, NEW t \in Threads, EnqueueItem(t)
  PROVE  /\ pick[t] \in Objectives
         /\ DOMAIN queue' = (DOMAIN queue) \cup {Len(queue) + 1}
         /\ Len(queue) + 1 \notin DOMAIN queue
         /\ queue'[Len(queue) + 1].objective = pick[t]
         /\ queue'[Len(queue) + 1].status = "queued"
         /\ \A j \in DOMAIN queue : queue'[j] = queue[j]
         /\ QueuedIn(queue') = QueuedIn(queue) \cup {pick[t]}
<1>1. pick[t] \in Objectives /\ queue \in Seq(Entry)
  BY DEF EnqueueItem, TypeOK
<1>2. queue' = Append(queue, [objective |-> pick[t], status |-> "queued"])
  BY DEF EnqueueItem, Enqueue
<1>3. /\ DOMAIN queue' = (DOMAIN queue) \cup {Len(queue) + 1}
      /\ Len(queue) + 1 \notin DOMAIN queue
      /\ queue'[Len(queue) + 1].objective = pick[t]
      /\ queue'[Len(queue) + 1].status = "queued"
      /\ \A j \in DOMAIN queue : queue'[j] = queue[j]
  BY <1>1, <1>2, EntryAppended
<1>4. QueuedIn(queue') = QueuedIn(queue) \cup {pick[t]}
  BY <1>3 DEF QueuedIn
<1> QED BY <1>1, <1>3, <1>4

\* Syncing with the queue, or with the nothing a torn read sees, invents no enqueue.
LEMMA SyncedIsBacked ==
  ASSUME TypeOK, NEW q \in Seen, NEW items \in Backlog, Backed(queue, items)
  PROVE  Backed(queue, Synced(items, q))
<1>1. q \in Seq(Entry) /\ (q = queue \/ q = <<>>)
  BY SeenQueue
<1>2. QueuedIn(q) \subseteq QueuedIn(queue)
  BY <1>1 DEF QueuedIn
<1>3. ASSUME NEW o \in Objectives, Synced(items, q)[o] \notin {Absent, "pending"}
      PROVE  o \in QueuedIn(queue)
  <2>1. CASE Synced(items, q)[o] = items[o]
    BY <1>3, <2>1 DEF Backed
  <2>2. CASE \E k \in DOMAIN q : q[k].objective = o
    BY <1>2, <2>2 DEF QueuedIn
  <2> QED BY <1>1, <2>1, <2>2, SyncedItem
<1> QED BY <1>3 DEF Backed

\* A thread takes up items that are backed; the queue and the file stay.
LEMMA MineBacked ==
  ASSUME TypeOK, BackedInv, NEW t \in Threads, NEW items,
         mine' = [mine EXCEPT ![t] = items], UNCHANGED <<backlog, queue, lost>>,
         ~lost => Backed(queue, items)
  PROVE  BackedInv'
<1>1. DOMAIN mine = Threads
  BY DEF TypeOK
<1>2. \A u \in Threads : mine'[u] = IF u = t THEN items ELSE mine[u]
  BY <1>1
<1> QED BY <1>2, BackedIs

\* A thread comes to rest; the file may take what some thread had, or lose all.
LEMMA RestBacked ==
  ASSUME TypeOK, BackedInv, NEW t \in Threads, Rest(t), UNCHANGED <<queue, lost>>,
         backlog' \in {backlog, Empty} \cup {mine[u] : u \in Threads}
  PROVE  BackedInv'
<1>1. DOMAIN mine = Threads
  BY DEF TypeOK
<1>2. \A u \in Threads : mine'[u] = IF u = t THEN Empty ELSE mine[u]
  BY <1>1 DEF Rest
<1>3. Backed(queue, Empty)
  BY DEF Backed, Empty
<1> QED BY <1>2, <1>3, BackedIs

LEMMA BackedKept == TypeOK /\ BackedInv /\ [Next]_vars => BackedInv'
<1> SUFFICES ASSUME TypeOK, BackedInv, [Next]_vars
             PROVE  BackedInv'
  OBVIOUS
<1>a. Engine \in Threads /\ Requests \subseteq Threads
  BY DEF Threads
<1>b. queue \in Seq(Entry) /\ mine \in [Threads -> Backlog]
  BY DEF TypeOK
<1>c. Backed(queue, Empty)
  BY DEF Backed, Empty
<1>1. ASSUME UNCHANGED <<backlog, queue, mine, lost>>
      PROVE  BackedInv'
  BY <1>1, BackedIs
<1>2. ASSUME NEW t \in Threads, Merge(t)
      PROVE  BackedInv'
  <2>0. PICK known \in Known : \E candidates :
          mine' = [mine EXCEPT ![t] = [o \in Objectives |->
                    IF known[o] # Absent THEN known[o]
                    ELSE IF o \in candidates THEN "pending" ELSE Absent]]
    BY <1>2 DEF Merge
  <2>1. PICK candidates :
          mine' = [mine EXCEPT ![t] = [o \in Objectives |->
                    IF known[o] # Absent THEN known[o]
                    ELSE IF o \in candidates THEN "pending" ELSE Absent]]
    BY <2>0
  <2>2. known = backlog \/ known = Empty
    BY KnownBacklog
  <2>3. ~lost => Backed(queue, known)
    BY <1>c, <2>2, BackedIs
  <2>4. ~lost => Backed(queue, [o \in Objectives |->
                    IF known[o] # Absent THEN known[o]
                    ELSE IF o \in candidates THEN "pending" ELSE Absent])
    BY <2>3 DEF Backed
  <2> QED BY <1>2, <2>1, <2>4, MineBacked DEF Merge
<1>3. ASSUME NEW t \in Threads, CycleRaises(t) \/ QueueNothing(t) \/ SaveQueued(t) \/ Replace(t)
      PROVE  BackedInv'
  BY <1>3, RestBacked DEF CycleRaises, QueueNothing, SaveQueued, Replace
<1>4. ASSUME NEW t \in Threads, WriteRaises(t)
      PROVE  BackedInv'
  <2>1. CASE backlog' \in {backlog, Empty} /\ UNCHANGED <<queue, lost>>
    BY <1>4, <2>1, RestBacked DEF WriteRaises
  <2>2. CASE UNCHANGED backlog /\ queue' = queue /\ lost' = (lost \/ queue' # queue)
    <3>1. lost' <=> lost
      BY <2>2
    <3>2. DOMAIN mine = Threads
      BY <1>b
    <3>3. \A u \in Threads : mine'[u] = IF u = t THEN Empty ELSE mine[u]
      BY <1>4, <3>2 DEF WriteRaises, Rest
    <3> QED BY <1>c, <2>2, <3>1, <3>3, BackedIs
  <2>3. CASE queue' # queue /\ lost' = (lost \/ queue' # queue)
    BY <2>3, BackedIs
  <2> QED BY <1>4, <2>1, <2>2, <2>3 DEF WriteRaises
<1>5. ASSUME NEW t \in Threads, Sync(t)
      PROVE  BackedInv'
  <2>1. PICK q \in Seen : mine' = [mine EXCEPT ![t] = Synced(mine[t], q)]
    BY <1>5 DEF Sync
  <2>2. ~lost => Backed(queue, mine[t])
    BY BackedIs
  <2>3. ~lost => Backed(queue, Synced(mine[t], q))
    BY <1>b, <2>2, SyncedIsBacked
  <2> QED BY <1>5, <2>1, <2>3, MineBacked DEF Sync
<1>6. ASSUME NEW t \in Threads, Save(t)
      PROVE  BackedInv'
  BY <1>6, BackedIs DEF Save
<1>7. ASSUME NEW t \in Threads, ChooseItem(t)
      PROVE  BackedInv'
  BY <1>7, <1>1 DEF ChooseItem
<1>8. ASSUME NEW t \in Threads, EnqueueItem(t)
      PROVE  BackedInv'
  <2>1. QueuedIn(queue') = QueuedIn(queue) \cup {pick[t]}
    BY <1>8, EnqueueStep
  <2>2. \A items : Backed(queue, items) => Backed(queue', items)
    BY <2>1 DEF Backed
  <2>3. ~lost => Backed(queue', [mine[t] EXCEPT ![pick[t]] = "queued"])
    <3>1. ~lost => Backed(queue, mine[t])
      BY BackedIs
    <3>2. DOMAIN mine[t] = Objectives
      BY <1>b DEF Backlog
    <3> QED BY <2>1, <3>1, <3>2 DEF Backed
  <2>4. \A u \in Threads : mine'[u] = IF u = t THEN [mine[t] EXCEPT ![pick[t]] = "queued"] ELSE mine[u]
    BY <1>8, <1>b DEF EnqueueItem
  <2>5. backlog' = backlog /\ lost' = lost
    BY <1>8 DEF EnqueueItem
  <2> QED BY <2>2, <2>3, <2>4, <2>5, BackedIs
<1>9. ASSUME NEW t \in Threads, Rebuild(t)
      PROVE  BackedInv'
  <2>0. PICK r \in Seen : \E candidates :
          mine' = [mine EXCEPT ![t] =
            Synced([o \in Objectives |-> IF o \in candidates THEN "pending" ELSE Absent], r)]
    BY <1>9 DEF Rebuild
  <2>1. PICK candidates :
          mine' = [mine EXCEPT ![t] =
            Synced([o \in Objectives |-> IF o \in candidates THEN "pending" ELSE Absent], r)]
    BY <2>0
  <2> DEFINE items == [o \in Objectives |-> IF o \in candidates THEN "pending" ELSE Absent]
  <2>2. items \in Backlog
    BY DEF Backlog, Status
  <2>3. Backed(queue, items)
    BY DEF Backed
  <2>4. Backed(queue, Synced(items, r))
    BY <2>2, <2>3, SyncedIsBacked
  <2> QED BY <1>9, <2>1, <2>4, MineBacked DEF Rebuild
<1>10. ASSUME Crash
       PROVE  BackedInv'
  <2>1. CASE UNCHANGED lost /\ queue' = Orphaned(queue)
    <3>1. QueuedIn(queue') = QueuedIn(queue)
      BY <1>b, <2>1, StatusOfOrphans DEF QueuedIn
    <3>2. backlog' \in {backlog, Empty} /\ \A t \in Threads : mine'[t] = Empty
      BY <1>10 DEF Crash
    <3>3. \A items : Backed(queue, items) => Backed(queue', items)
      BY <3>1 DEF Backed
    <3> QED BY <1>c, <2>1, <3>2, <3>3, BackedIs
  <2>2. CASE lost'
    BY <2>2, BackedIs
  <2> QED BY <1>10, <2>1, <2>2 DEF Crash, Orphaned
<1>11. ASSUME QueueStart \/ QueueFinish
       PROVE  BackedInv'
  <2>1. QueuedIn(queue') = QueuedIn(queue)
    BY <1>11, QueueSteps
  <2>2. \A items : Backed(queue, items) => Backed(queue', items)
    BY <2>1 DEF Backed
  <2>3. UNCHANGED <<backlog, mine, lost>>
    BY <1>11 DEF QueueStart, QueueFinish
  <2> QED BY <2>2, <2>3, BackedIs
<1>12. ASSUME NEW t \in Threads, RequestCycle(t) \/ RequestEnds(t)
       PROVE  BackedInv'
  BY <1>12, <1>1 DEF RequestCycle, RequestEnds
<1>13. ASSUME Start \/ Stop \/ EngineCycles \/ EngineWaits \/ EngineExits \/ UNCHANGED vars
       PROVE  BackedInv'
  BY <1>13, <1>1 DEF Start, Stop, EngineCycles, EngineWaits, EngineExits, vars
<1> QED BY <1>a, <1>2, <1>3, <1>4, <1>5, <1>6, <1>7, <1>8, <1>9, <1>10, <1>11, <1>12, <1>13
        DEF Next, EngineStep, RequestStep, RunOnce

-----------------------------------------------------------------------------
(* How much of the queue is active                                         *)

Enqueuing(where) == {t \in Threads : where[t] = "enqueuing"}

LEMMA SlotsIs ==
  /\ SlotsInv <=> (~torn => Cardinality(Active(queue)) + Cardinality(Enqueuing(pc)) =< Cardinality(Cyclers))
  /\ SlotsInv' <=> (~torn' => Cardinality(Active(queue')) + Cardinality(Enqueuing(pc')) =< Cardinality(Cyclers))
  BY DEF SlotsInv, AboutToEnqueue, Enqueuing, Active, Says

\* The sets that are counted are finite.
LEMMA Finite ==
  ASSUME TypeOK, CyclersInv
  PROVE  /\ IsFiniteSet(Active(queue)) /\ IsFiniteSet(Enqueuing(pc)) /\ IsFiniteSet(Cyclers)
         /\ Cardinality(Active(queue)) \in Nat /\ Cardinality(Enqueuing(pc)) \in Nat
         /\ Cardinality(Cyclers) \in Nat
         /\ Enqueuing(pc) \subseteq Cyclers
<1>1. IsFiniteSet(Cyclers)
  <2>1. IsFiniteSet(RunOnceRequests)
    BY ConstantsAssumption, FS_Subset
  <2>2. Cyclers = RunOnceRequests \cup {Engine}
    BY DEF Cyclers
  <2> QED BY <2>1, <2>2, FS_AddElement
<1>2. Enqueuing(pc) \subseteq Cyclers
  BY DEF CyclersInv, Enqueuing
<1>3. IsFiniteSet(Active(queue))
  <2>1. queue \in Seq(Entry)
    BY DEF TypeOK
  <2>2. Active(queue) \subseteq 1..Len(queue) /\ Len(queue) \in Nat
    BY <2>1 DEF Active
  <2>3. IsFiniteSet(1..Len(queue))
    BY <2>2, FS_Interval
  <2> QED BY <2>2, <2>3, FS_Subset
<1>4. IsFiniteSet(Enqueuing(pc))
  BY <1>1, <1>2, FS_Subset
<1> QED BY <1>1, <1>2, <1>3, <1>4, FS_CardinalityType

\* A step that adds neither to what is active nor to who is about to enqueue.
LEMMA SlotsShrink ==
  ASSUME TypeOK, CyclersInv, SlotsInv, torn => torn',
         Active(queue') \subseteq Active(queue), Enqueuing(pc') \subseteq Enqueuing(pc)
  PROVE  SlotsInv'
<1>1. /\ Cardinality(Active(queue')) \in Nat /\ Cardinality(Enqueuing(pc')) \in Nat
      /\ Cardinality(Active(queue')) =< Cardinality(Active(queue))
      /\ Cardinality(Enqueuing(pc')) =< Cardinality(Enqueuing(pc))
  BY Finite, FS_Subset, FS_CardinalityType
<1>2. ~torn' =>
        Cardinality(Active(queue)) + Cardinality(Enqueuing(pc)) =< Cardinality(Cyclers)
  BY SlotsIs
<1> QED BY <1>1, <1>2, Finite, SlotsIs

LEMMA SlotsKept == TypeOK /\ CyclersInv /\ SlotsInv /\ [Next]_vars => SlotsInv'
<1> SUFFICES ASSUME TypeOK, CyclersInv, SlotsInv, [Next]_vars
             PROVE  SlotsInv'
  OBVIOUS
<1>a. Engine \in Threads /\ Requests \subseteq Threads
  BY DEF Threads
<1>b. queue \in Seq(Entry)
  BY DEF TypeOK
<1>c. DOMAIN pc = Threads
  BY DEF TypeOK
<1>d. \A q : q = queue \/ q = <<>> => Active(q) \subseteq Active(queue)
  BY DEF Active
<1>1. ASSUME NEW t \in Threads, Merge(t) \/ Sync(t) \/ Save(t) \/ Rebuild(t)
      PROVE  SlotsInv'
  <2>1. queue' = queue
    BY <1>1 DEF Merge, Sync, Save, Rebuild
  <2>2. torn => torn'
    <3>1. torn' = torn \/ \E misread : Torn(misread)
      BY <1>1 DEF Merge, Sync, Save, Rebuild
    <3> QED BY <3>1 DEF Torn
  <2>3. Enqueuing(pc') \subseteq Enqueuing(pc)
    BY <1>1, <1>c DEF Merge, Sync, Save, Rebuild, Goto, Enqueuing
  <2> QED BY <2>1, <2>2, <2>3, SlotsShrink
<1>2. ASSUME NEW t \in Threads,
             CycleRaises(t) \/ WriteRaises(t) \/ QueueNothing(t) \/ SaveQueued(t) \/ Replace(t)
      PROVE  SlotsInv'
  <2>1. (queue' = queue \/ queue' = <<>>) /\ torn' = torn
    BY <1>2 DEF CycleRaises, WriteRaises, QueueNothing, SaveQueued, Replace
  <2>2. Enqueuing(pc') \subseteq Enqueuing(pc)
    BY <1>2, <1>c DEF CycleRaises, WriteRaises, QueueNothing, SaveQueued, Replace, Rest, Goto, Enqueuing
  <2> QED BY <1>d, <2>1, <2>2, SlotsShrink
\* The queue was seen to be idle: there is room for all the cycles there can be.
<1>3. ASSUME NEW t \in Threads, ChooseItem(t)
      PROVE  SlotsInv'
  <2>1. PICK q \in Seen : ~Busy(q) /\ Torn(q # queue)
    BY <1>3 DEF ChooseItem
  <2>2. queue' = queue
    BY <1>3 DEF ChooseItem
  <2>3. ~torn' => Active(queue') = {}
    BY <2>1, <2>2 DEF Torn, Busy
  <2>4. Enqueuing(pc') \subseteq Enqueuing(pc) \cup {t} /\ t \in Cyclers
    BY <1>3, <1>c DEF ChooseItem, Goto, Enqueuing, CyclersInv
  <2>5. Enqueuing(pc') \subseteq Cyclers
    BY <2>4, Finite
  <2>6. /\ Cardinality(Enqueuing(pc')) =< Cardinality(Cyclers)
        /\ Cardinality(Enqueuing(pc')) \in Nat
    BY <2>5, Finite, FS_Subset, FS_CardinalityType
  <2>7. ~torn' => Cardinality(Active(queue')) = 0
    BY <2>3, FS_EmptySet
  <2> QED BY <2>6, <2>7, Finite, SlotsIs
\* The place that was reserved is taken.
<1>4. ASSUME NEW t \in Threads, EnqueueItem(t)
      PROVE  SlotsInv'
  <2>1. Active(queue') = Active(queue) \cup {Len(queue) + 1} /\ Len(queue) + 1 \notin Active(queue)
    BY <1>4, EnqueueStep DEF Active, Says
  <2>2. Cardinality(Active(queue')) = Cardinality(Active(queue)) + 1
    BY <2>1, Finite, FS_AddElement
  <2>3. Enqueuing(pc') = Enqueuing(pc) \ {t} /\ t \in Enqueuing(pc)
    BY <1>4, <1>c DEF EnqueueItem, Goto, Enqueuing
  <2>4. Cardinality(Enqueuing(pc')) = Cardinality(Enqueuing(pc)) - 1
    BY <2>3, Finite, FS_RemoveElement
  <2>5. torn' = torn
    BY <1>4 DEF EnqueueItem
  <2> QED BY <2>2, <2>4, <2>5, Finite, SlotsIs
<1>5. ASSUME NEW t \in Threads, RequestCycle(t) \/ RequestEnds(t)
      PROVE  SlotsInv'
  <2>1. queue' = queue /\ torn' = torn
    BY <1>5 DEF RequestCycle, RequestEnds
  <2>2. Enqueuing(pc') \subseteq Enqueuing(pc)
    BY <1>5, <1>c DEF RequestCycle, RequestEnds, Goto, Enqueuing
  <2> QED BY <2>1, <2>2, SlotsShrink
<1>6. ASSUME Start \/ Stop \/ EngineCycles \/ EngineWaits \/ EngineExits \/ UNCHANGED vars
      PROVE  SlotsInv'
  <2>1. queue' = queue /\ torn' = torn
    BY <1>6 DEF Start, Stop, EngineCycles, EngineWaits, EngineExits, vars
  <2>2. pc' = pc \/ \E l \in {"idle", "looping", "analyzing"} : pc' = [pc EXCEPT ![Engine] = l]
    BY <1>6 DEF Start, Stop, EngineCycles, EngineWaits, EngineExits, vars, Goto
  <2>3. Enqueuing(pc') \subseteq Enqueuing(pc)
    BY <2>2, <1>a, <1>c DEF Enqueuing
  <2> QED BY <2>1, <2>3, SlotsShrink
<1>7. ASSUME Crash
      PROVE  SlotsInv'
  <2>1. torn' = torn /\ queue' \in {Orphaned(queue), <<>>}
    BY <1>7 DEF Crash, Orphaned
  <2>2. Active(queue') \subseteq Active(queue)
    BY <1>b, <2>1, StatusOfOrphans DEF Active
  <2>3. Enqueuing(pc') \subseteq Enqueuing(pc)
    BY <1>7 DEF Crash, Enqueuing
  <2> QED BY <2>1, <2>2, <2>3, SlotsShrink
<1>8. ASSUME QueueStart \/ QueueFinish
      PROVE  SlotsInv'
  <2>1. pc' = pc /\ torn' = torn
    BY <1>8 DEF QueueStart, QueueFinish
  <2>2. PICK k \in DOMAIN queue, st \in {"running", "done", "failed"} :
          /\ queue' = [queue EXCEPT ![k].status = st]
          /\ queue[k].status \in {"queued", "running"}
    BY <1>8 DEF QueueStart, QueueFinish
  <2>3. /\ DOMAIN queue' = DOMAIN queue
        /\ \A j \in DOMAIN queue : queue'[j].status = IF j = k THEN st ELSE queue[j].status
    BY <1>b, <2>2, StatusOfOne
  <2>4. Active(queue') \subseteq Active(queue)
    BY <2>2, <2>3 DEF Active, Says
  <2> QED BY <2>1, <2>4, SlotsShrink
<1> QED BY <1>a, <1>1, <1>2, <1>3, <1>4, <1>5, <1>6, <1>7, <1>8
        DEF Next, EngineStep, RequestStep, RunOnce

-----------------------------------------------------------------------------
(* What is queued once                                                     *)

Distinct(q) == \A j, k \in DOMAIN q : q[j].objective = q[k].objective => j = k
Fresh(q, items) == \A o \in Objectives : items[o] = "pending" => o \notin QueuedIn(q)
Synchronised == {"saving", "checking", "enqueuing"}

LEMMA FreshIs ==
  /\ FreshInv <=> (Alone =>
       /\ Distinct(queue)
       /\ pc[Engine] \in Synchronised => Fresh(queue, mine[Engine])
       /\ pc[Engine] = "enqueuing" => mine[Engine][pick[Engine]] = "pending")
  /\ FreshInv' <=> (Alone =>
       /\ Distinct(queue')
       /\ pc'[Engine] \in Synchronised => Fresh(queue', mine'[Engine])
       /\ pc'[Engine] = "enqueuing" => mine'[Engine][pick'[Engine]] = "pending")
  BY DEF FreshInv, Alone, EnqueuedOnce, Distinct, Fresh, Synchronised, QueuedIn, QueuedObjectives

\* A step that leaves the engine's thread alone and enqueues nothing.
LEMMA FreshElsewhere ==
  ASSUME FreshInv, Distinct(queue) => Distinct(queue'), QueuedIn(queue') \subseteq QueuedIn(queue),
         pc'[Engine] = pc[Engine], mine'[Engine] = mine[Engine], pick'[Engine] = pick[Engine]
  PROVE  FreshInv'
<1>1. \A items : Fresh(queue, items) => Fresh(queue', items)
  BY DEF Fresh
<1> QED BY <1>1, FreshIs

\* A step that leaves the engine's thread outside the critical part of a cycle.
LEMMA FreshOutside ==
  ASSUME FreshInv, Alone, Distinct(queue) => Distinct(queue'), pc'[Engine] \notin Synchronised
  PROVE  FreshInv'
  BY FreshIs DEF Synchronised

LEMMA FreshKept == TypeOK /\ CyclersInv /\ FreshInv /\ [Next]_vars => FreshInv'
<1> SUFFICES ASSUME TypeOK, CyclersInv, FreshInv, Alone, [Next]_vars
             PROVE  FreshInv'
  BY FreshIs
<1>a. Engine \in Threads /\ Requests \subseteq Threads /\ Engine \notin Requests
  BY ConstantsAssumption DEF Threads
<1>b. queue \in Seq(Entry) /\ mine \in [Threads -> Backlog]
  BY DEF TypeOK
<1>c. DOMAIN pc = Threads /\ DOMAIN pick = Threads
  BY DEF TypeOK
<1>d. Cyclers = {Engine} /\ MaxFaults = 0
  BY DEF Alone, Cyclers
<1>e. faults = 0
  <2>1. faults \in 0..MaxFaults
    BY DEF TypeOK
  <2> QED BY <1>d, <2>1
<1>1. ASSUME NEW t \in Threads, Merge(t) \/ CycleRaises(t)
      PROVE  FreshInv'
  <2>1. t = Engine /\ queue' = queue
    BY <1>1, <1>d DEF Merge, CycleRaises, CyclersInv
  <2>2. pc'[Engine] \notin Synchronised
    BY <1>1, <1>a, <1>c, <2>1 DEF Merge, CycleRaises, Rest, Goto, Synchronised
  <2> QED BY <2>1, <2>2, FreshOutside
<1>2. ASSUME NEW t \in Threads, WriteRaises(t)
      PROVE  FreshInv'
  BY <1>2, <1>d, <1>e DEF WriteRaises
\* What the queue has is no longer pending.
<1>3. ASSUME NEW t \in Threads, Sync(t)
      PROVE  FreshInv'
  <2>1. t = Engine /\ queue' = queue
    BY <1>3, <1>d DEF Sync, CyclersInv
  <2>2. PICK q \in Seen : mine' = [mine EXCEPT ![t] = Synced(mine[t], q)]
    BY <1>3 DEF Sync
  <2>3. q = queue
    BY <1>d, SeenQueue
  <2>4. mine'[Engine] = Synced(mine[Engine], queue)
    BY <1>a, <1>b, <2>1, <2>2, <2>3
  <2>5. Fresh(queue', mine'[Engine])
    BY <1>a, <1>b, <2>1, <2>4, SyncedBacklog DEF Fresh, QueuedIn
  <2>6. pc'[Engine] = "saving"
    BY <1>3, <1>a, <1>c, <2>1 DEF Sync, Goto
  <2> QED BY <2>1, <2>5, <2>6, FreshIs
<1>4. ASSUME NEW t \in Threads, Save(t)
      PROVE  FreshInv'
  <2>1. t = Engine /\ queue' = queue /\ mine' = mine
    BY <1>4, <1>d DEF Save, CyclersInv
  <2>2. pc[Engine] = "saving" /\ pc'[Engine] = "checking"
    BY <1>4, <1>a, <1>c, <2>1 DEF Save, Goto
  <2> QED BY <2>1, <2>2, FreshIs DEF Synchronised
<1>5. ASSUME NEW t \in Threads, QueueNothing(t) \/ SaveQueued(t)
      PROVE  FreshInv'
  <2>1. t = Engine /\ queue' = queue
    BY <1>5, <1>d DEF QueueNothing, SaveQueued, CyclersInv
  <2>2. pc'[Engine] \notin Synchronised
    BY <1>5, <1>a, <1>c, <2>1 DEF QueueNothing, SaveQueued, Rest, Goto, Synchronised
  <2> QED BY <2>1, <2>2, FreshOutside
<1>6. ASSUME NEW t \in Threads, ChooseItem(t)
      PROVE  FreshInv'
  <2>1. t = Engine /\ queue' = queue /\ mine' = mine
    BY <1>6, <1>d DEF ChooseItem, CyclersInv
  <2>2. pc[Engine] = "checking" /\ pc'[Engine] = "enqueuing"
    BY <1>6, <1>a, <1>c, <2>1 DEF ChooseItem, Goto
  <2>3. pick'[Engine] \in Pending(Engine)
    BY <1>6, <1>a, <1>c, <2>1 DEF ChooseItem
  <2>4. mine'[Engine][pick'[Engine]] = "pending"
    BY <2>1, <2>3 DEF Pending
  <2> QED BY <2>1, <2>2, <2>4, FreshIs DEF Synchronised
\* What is enqueued was pending, so that the queue did not have it.
<1>7. ASSUME NEW t \in Threads, EnqueueItem(t)
      PROVE  FreshInv'
  <2>1. t = Engine /\ pc[Engine] = "enqueuing"
    BY <1>7, <1>d DEF EnqueueItem, CyclersInv
  <2>2. pc'[Engine] = "saving again"
    BY <1>7, <1>a, <1>c, <2>1 DEF EnqueueItem, Goto
  <2>3. Distinct(queue) /\ pick[t] \notin QueuedIn(queue)
    <3>1. pick[t] \in Objectives
      BY <1>7, EnqueueStep
    <3> QED BY <2>1, <3>1, FreshIs DEF Fresh, Synchronised
  <2>4. /\ DOMAIN queue' = (DOMAIN queue) \cup {Len(queue) + 1}
        /\ queue'[Len(queue) + 1].objective = pick[t]
        /\ \A j \in DOMAIN queue : queue'[j] = queue[j]
    BY <1>7, EnqueueStep
  <2>5. Distinct(queue')
    <3>1. \A j \in DOMAIN queue : queue[j].objective # pick[t]
      BY <2>3 DEF QueuedIn
    <3> QED BY <2>3, <2>4, <3>1 DEF Distinct
  <2> QED BY <2>2, <2>5, FreshOutside DEF Synchronised
<1>8. ASSUME NEW t \in Requests, Replace(t) \/ RequestEnds(t) \/ RequestCycle(t) \/ Rebuild(t)
      PROVE  FreshInv'
  <2>1. queue' = queue /\ t # Engine
    BY <1>8, <1>a DEF Replace, RequestEnds, RequestCycle, Rebuild
  <2>2. pc'[Engine] = pc[Engine]
    BY <1>8, <1>a, <1>c, <2>1 DEF Replace, RequestEnds, RequestCycle, Rebuild, Rest, Goto
  <2>3. mine'[Engine] = mine[Engine]
    BY <1>8, <1>a, <1>b, <2>1 DEF Replace, RequestEnds, RequestCycle, Rebuild, Rest
  <2>4. pick'[Engine] = pick[Engine]
    BY <1>8, <1>a, <1>c, <2>1 DEF Replace, RequestEnds, RequestCycle, Rebuild, Rest
  <2> QED BY <2>1, <2>2, <2>3, <2>4, FreshElsewhere
<1>9. ASSUME Start \/ EngineCycles \/ EngineWaits \/ EngineExits
      PROVE  FreshInv'
  <2>1. queue' = queue /\ mine' = mine /\ pick' = pick
    BY <1>9 DEF Start, EngineCycles, EngineWaits, EngineExits
  <2>2. pc' = pc \/ pc'[Engine] \in {"looping", "analyzing", "idle"}
    BY <1>9, <1>a, <1>c DEF Start, EngineCycles, EngineWaits, EngineExits, Goto
  <2>3. CASE pc' = pc
    BY <2>1, <2>3, FreshElsewhere
  <2>4. CASE pc'[Engine] \in {"looping", "analyzing", "idle"}
    BY <2>1, <2>4, FreshOutside DEF Synchronised
  <2> QED BY <2>2, <2>3, <2>4
<1>10. ASSUME Stop \/ UNCHANGED vars
       PROVE  FreshInv'
  BY <1>10, FreshElsewhere DEF Stop, vars
<1>11. ASSUME Crash
       PROVE  FreshInv'
  <2>1. pc'[Engine] \notin Synchronised
    BY <1>11, <1>a DEF Crash, Synchronised
  <2>2. queue' \in {Orphaned(queue), <<>>}
    BY <1>11 DEF Crash, Orphaned
  <2>3. Distinct(queue) => Distinct(queue')
    BY <1>b, <2>2, StatusOfOrphans DEF Distinct
  <2> QED BY <2>1, <2>3, FreshOutside
<1>12. ASSUME QueueStart \/ QueueFinish
       PROVE  FreshInv'
  <2>1. UNCHANGED <<pc, mine, pick>>
    BY <1>12 DEF QueueStart, QueueFinish
  <2>2. /\ Distinct(queue) => Distinct(queue')
        /\ QueuedIn(queue') = QueuedIn(queue)
    BY <1>12, QueueSteps DEF Distinct
  <2> QED BY <2>1, <2>2, FreshElsewhere
<1> QED BY <1>a, <1>1, <1>2, <1>3, <1>4, <1>5, <1>6, <1>7, <1>8, <1>9, <1>10, <1>11, <1>12
        DEF Next, EngineStep, RequestStep, RunOnce

-----------------------------------------------------------------------------
(* The theorems                                                            *)

LEMMA InitHolds == Init => IInv
<1> SUFFICES ASSUME Init
             PROVE  IInv
  OBVIOUS
<1>1. Empty \in Backlog
  BY DEF Empty, Backlog
<1>2. Engine \in Threads
  BY DEF Threads
<1>3. TypeOK
  <2>1. queue \in Seq(Entry)
    BY DEF Init
  <2>2. crashes \in 0..MaxCrashes /\ faults \in 0..MaxFaults
    BY ConstantsAssumption DEF Init
  <2>3. {enabled, stopping, alive, unattended, served} \subseteq BOOLEAN
    BY DEF Init
  <2> QED BY <1>1, <2>1, <2>2, <2>3 DEF Init, TypeOK
<1>4. CyclersInv /\ AttendedInv
  BY DEF Init, CyclersInv, AttendedInv
<1>5. BackedInv
  <2>1. Backed(queue, Empty)
    BY DEF Backed, Empty
  <2> QED BY <2>1, BackedIs DEF Init
<1>6. SlotsInv
  <2>1. Active(queue) = {} /\ Enqueuing(pc) = {}
    BY DEF Init, Active, Enqueuing
  <2> QED BY <1>3, <1>4, <2>1, FS_EmptySet, Finite, SlotsIs
<1>7. FreshInv
  <2>1. Distinct(queue) /\ pc[Engine] \notin Synchronised
    BY <1>2 DEF Init, Distinct, Synchronised
  <2> QED BY <2>1, FreshIs DEF Synchronised
<1> QED BY <1>3, <1>4, <1>5, <1>6, <1>7 DEF IInv

\* Whatever the cycles, requests, faults and restarts of the engine do in whatever order,
\* its inductive invariant holds.
THEOREM Invariant == Spec => []IInv
<1>1. IInv /\ [Next]_vars => IInv'
  BY TypesKept, CyclersKept, AttendedKept, BackedKept, SlotsKept, FreshKept DEF IInv
<1> QED BY InitHolds, <1>1, PTL DEF Spec

\* The backlog file is well formed and no stale save, torn read, failed cycle or restart
\* makes it call queued what the queue never had (_load_backlog, _save_backlog and
\* _sync_backlog_with_queue, without a lock).
THEOREM BacklogSound == Spec => []BacklogIsSound
<1>1. IInv => BacklogIsSound
  BY DEF IInv, BackedInv, BacklogIsSound
<1> QED BY Invariant, <1>1, PTL

\* An enabled engine has a live thread unless start() trusted one that was told to stop,
\* or the process restarted (start, stop and _worker_loop).
THEOREM Attended == Spec => []EnabledIsAttended
<1>1. IInv => EnabledIsAttended
  BY DEF IInv, AttendedInv, EnabledIsAttended
<1> QED BY Invariant, <1>1, PTL

\* As many cycles as ever race through _queue_next, the queue has no more active entries than
\* there are threads to run cycles, unless a read met a file half written.
THEOREM Bounded == Spec => []ActiveBounded
<1>1. IInv => ActiveBounded
  <2> SUFFICES ASSUME IInv
               PROVE  ActiveBounded
    OBVIOUS
  <2>1. ~torn => Cardinality(Active(queue)) + Cardinality(Enqueuing(pc)) =< Cardinality(Cyclers)
    BY SlotsIs DEF IInv
  <2> QED BY <2>1, Finite DEF IInv, ActiveBounded
<1> QED BY Invariant, <1>1, PTL

\* The engine's own cycles enqueue no objective twice, through rebuilds, restarts and cut
\* queue files, as long as no request runs a cycle and no read or write fails.
THEOREM OnceWhenAlone == Alone => (Spec => []EnqueuedOnce)
<1> SUFFICES ASSUME Alone
             PROVE  Spec => []EnqueuedOnce
  OBVIOUS
<1>1. IInv => EnqueuedOnce
  BY DEF IInv, FreshInv
<1> QED BY Invariant, <1>1, PTL

=============================================================================
