------------------------ MODULE AutonomyQueue_proofs ------------------------
(***************************************************************************)
(* Proofs about the objective queue: its inductive invariant CoreInv, and  *)
(* with it type correctness, the order of the file, the single worker and  *)
(* the at-most-once execution; then AccountInv, by which every item is     *)
(* accounted for and the coordinator implements TaskQueue; for every set   *)
(* of handlers and workers and every number of items, crashes and failed   *)
(* writes.                                                                 *)
(***************************************************************************)
EXTENDS AutonomyQueue, TLAPS

-----------------------------------------------------------------------------
(* The file                                                                *)

\* Outside the lock what the file says is all there is.
LEMMA LoadIsContents ==
  ASSUME CoreInv, lock = NoOne
  PROVE  Load = Contents
BY DEF CoreInv, LockInv, Load, Contents

\* Contents is a sequence of items, and Load is it or empty.
LEMMA ContentsType ==
  ASSUME TypeOK
  PROVE  Contents \in Seq(Item)
BY DEF TypeOK, Contents

\* Starting a write makes its list the contents.
LEMMA StartDumpContents ==
  ASSUME NEW items, StartDump(items)
  PROVE  Contents' = items
BY DEF StartDump, Contents

\* Finishing a write that is under way leaves the contents.
LEMMA FinishDumpContents ==
  ASSUME ~disk.whole, FinishDump
  PROVE  Contents' = Contents
BY DEF FinishDump, Contents

\* In a sorted file the next order is one more than the last.
LEMMA NextOrderOfSorted ==
  ASSUME NEW items \in Seq(Item),
         \A j, k \in DOMAIN items : j < k => items[j].order < items[k].order
  PROVE  /\ items = <<>> => NextOrder(items) = 1
         /\ items # <<>> => NextOrder(items) = 1 + items[Len(items)].order
<1>1. CASE items = <<>>
  BY <1>1 DEF NextOrder
<1>2. CASE items # <<>>
  <2> DEFINE orders == {items[k].order : k \in DOMAIN items}
             IsMax(m) == \A k \in DOMAIN items : items[k].order =< m
             last == items[Len(items)].order
  <2>1. \A k \in DOMAIN items : items[k].order \in Int
    <3> TAKE k \in DOMAIN items
    <3>1. items[k] \in Item
      OBVIOUS
    <3>2. items[k].order \in Ids
      BY <3>1 DEF Item
    <3> QED BY <3>2, ConstantsAssumption DEF Ids
  <2>2. Len(items) \in DOMAIN items /\ DOMAIN items = 1..Len(items)
    BY <1>2
  <2>3. last \in orders /\ IsMax(last)
    <3>1. \A k \in DOMAIN items : items[k].order =< last
      <4> TAKE k \in DOMAIN items
      <4>1. k = Len(items) \/ k < Len(items)
        BY <2>2
      <4> QED BY <4>1, <2>1, <2>2
    <3> QED BY <3>1, <2>2
  <2>4. \A m \in orders : IsMax(m) => m = last
    <3> SUFFICES ASSUME NEW k \in DOMAIN items, IsMax(items[k].order)
                 PROVE  items[k].order = last
      OBVIOUS
    <3> QED BY <2>1, <2>2, <2>3
  <2>5. (CHOOSE m \in orders : IsMax(m)) = last
    <3> HIDE DEF orders, IsMax, last
    <3> QED BY <2>3, <2>4
  <2> QED BY <1>2, <2>5 DEF NextOrder
<1> QED BY <1>1, <1>2

\* A new status leaves the rest of an item.
LEMMA WithNewStatus ==
  ASSUME NEW item \in Item, NEW st \in Status
  PROVE  LET new == [item EXCEPT !.status = st] IN
         new \in Item /\ new.status = st /\ new.id = item.id /\ new.order = item.order
BY DEF Item

\* Marking one item of a list leaves a list of items with the same ids and orders.
LEMMA MarkedList ==
  ASSUME NEW items \in Seq(Item), NEW k \in DOMAIN items, NEW st \in Status
  PROVE  LET new == [items EXCEPT ![k].status = st] IN
         /\ new \in Seq(Item) /\ DOMAIN new = DOMAIN items
         /\ \A j \in DOMAIN items : j # k => new[j] = items[j]
         /\ new[k] = [items[k] EXCEPT !.status = st]
<1>1. items[k] \in Item
  OBVIOUS
<1>2. [items[k] EXCEPT !.status = st] \in Item
  BY <1>1, WithNewStatus
<1> QED BY <1>2

\* What the lock-free reader sees is a list of items too.
LEMMA LoadType ==
  ASSUME TypeOK
  PROVE  Load \in Seq(Item)
BY DEF TypeOK, Load

-----------------------------------------------------------------------------
(* Every step, conjunct by conjunct of the invariant                       *)

\* The lock is held exactly by the thread the control states say, and the file
\* is cut short only while its holder writes or after a write that failed.
LEMMA LockPreserved ==
  ASSUME CoreInv, [Next]_vars
  PROVE  LockInv'
<1> USE ConstantsAssumption DEF LockInv, Writing
<1>0. /\ LockInv
      /\ wpc \in [Workers -> WorkerPC] /\ cpc \in [Callers -> CallerPC]
      /\ mine \in [Callers -> 0..MaxItems] /\ issued \in 0..MaxItems
  BY DEF CoreInv, TypeOK
<1>1. ASSUME NEW c \in Callers, NEW o \in Objectives, EnqueueAppend(c, o)
      PROVE  LockInv'
  BY <1>1, <1>0 DEF EnqueueAppend, StartDump, threads
<1>2. ASSUME NEW c \in Callers, EnqueueFlush(c)
      PROVE  LockInv'
  BY <1>2, <1>0 DEF EnqueueFlush, FinishDump, threads
<1>3. ASSUME NEW c \in Callers, EnqueueReturn(c)
      PROVE  LockInv'
  BY <1>3, <1>0
     DEF EnqueueReturn, EnsureTrusts, EnsureStarts, threads
<1>4. ASSUME NEW w \in Workers, Claim(w) \/ Drain(w) \/ Store(w)
      PROVE  LockInv'
  BY <1>4, <1>0 DEF Claim, Drain, Store, StartDump, Goto
<1>5. ASSUME NEW w \in Workers, ClaimFlush(w) \/ DrainFlush(w) \/ StoreFlush(w)
      PROVE  LockInv'
  BY <1>5, <1>0, SMTT(60)
     DEF ClaimFlush, DrainFlush, StoreFlush, WorkerFlush, FinishDump, Goto
<1>6. ASSUME NEW w \in Workers,
             Implement(w) \/ RecordPlan(w) \/ RecordMemory(w) \/ Exit(w)
      PROVE  LockInv'
  BY <1>6, <1>0
     DEF Implement, RecordPlan, RecordMemory, RecordRaises, Exit, Goto, file
<1>7. CASE DumpFails
  BY <1>7, <1>0 DEF DumpFails
<1>8. CASE Crash
  BY <1>8, <1>0 DEF Crash
<1>9. CASE UNCHANGED vars
  BY <1>0, <1>9 DEF vars, file, threads
<1> QED
  BY <1>1, <1>2, <1>3, <1>4, <1>5, <1>6, <1>7, <1>8, <1>9 DEF Next, Enqueue, WorkerStep

\* Only self._worker is alive, and it holds well-formed items.
LEMMA WorkerPreserved ==
  ASSUME CoreInv, [Next]_vars
  PROVE  WorkerInv'
<1> USE ConstantsAssumption DEF WorkerInv, Alive, Holding
<1>0. /\ TypeOK /\ WorkerInv /\ worker \in Workers \cup {NoOne}
      /\ wpc \in [Workers -> WorkerPC] /\ cur \in [Workers -> Item \cup {NoItem}]
  BY DEF CoreInv, TypeOK
<1>1. ASSUME NEW c \in Callers, NEW o \in Objectives, EnqueueAppend(c, o)
      PROVE  WorkerInv'
  BY <1>0, <1>1 DEF EnqueueAppend, threads
<1>2. ASSUME NEW c \in Callers, EnqueueFlush(c) \/ EnqueueReturn(c)
      PROVE  WorkerInv'
  BY <1>0, <1>2 DEF EnqueueFlush, EnqueueReturn, EnsureTrusts, EnsureStarts,
                    WorkerIsAlive, threads
<1>3. ASSUME NEW w \in Workers, Claim(w)
      PROVE  WorkerInv'
  <2>1. PICK k \in DOMAIN Load : cur' = [cur EXCEPT ![w] = [Load[k] EXCEPT !.status = "running"]]
    BY <1>3 DEF Claim, FirstQueued, WithStatus
  <2>2. Load[k] \in Item
    BY <1>0, LoadType
  <2>3. cur'[w] \in Item /\ cur'[w].status = "running"
    BY <1>0, <2>1, <2>2, WithNewStatus DEF Status
  <2> QED BY <1>0, <1>3, <2>1, <2>3 DEF Claim, Goto
<1>4. ASSUME NEW w \in Workers, Implement(w)
      PROVE  WorkerInv'
  <2>1. PICK st \in {"done", "failed"} : cur' = [cur EXCEPT ![w].status = st]
    BY <1>4 DEF Implement
  <2>2. cur[w] \in Item
    BY <1>0, <1>4 DEF Implement
  <2>3. cur'[w] \in Item /\ cur'[w].status = st
    <3>1. cur'[w] = [cur[w] EXCEPT !.status = st] /\ st \in Status
      BY <1>0, <2>1 DEF Status
    <3> QED BY <2>2, <3>1, WithNewStatus
  <2> QED BY <1>0, <1>4, <2>1, <2>3 DEF Implement, Goto
<1>5. ASSUME NEW w \in Workers, RecordPlan(w) \/ RecordMemory(w)
      PROVE  WorkerInv'
  <2>1. cur[w] \in Item
    BY <1>0, <1>5 DEF RecordPlan, RecordMemory
  <2>2. CASE RecordRaises(w)
    <3>1. cur'[w] \in Item /\ cur'[w].status = "failed"
      BY <1>0, <2>1, <2>2, WithNewStatus DEF RecordRaises, Status
    <3> QED BY <1>0, <1>5, <2>2, <3>1 DEF RecordPlan, RecordMemory, RecordRaises, Goto
  <2>3. CASE UNCHANGED cur
    BY <1>0, <1>5, <2>3 DEF RecordPlan, RecordMemory, RecordRaises, Goto
  <2> QED BY <1>5, <2>2, <2>3 DEF RecordPlan, RecordMemory
<1>6. ASSUME NEW w \in Workers,
             \/ ClaimFlush(w) \/ Drain(w) \/ DrainFlush(w)
             \/ Store(w) \/ StoreFlush(w) \/ Exit(w)
      PROVE  WorkerInv'
  BY <1>0, <1>6
     DEF ClaimFlush, DrainFlush, StoreFlush, WorkerFlush, Drain, Store, Exit, Goto
<1>7. CASE DumpFails
  <2>1. \A w \in Workers : w = lock => Alive(w)
    BY DEF CoreInv, LockInv, Writing
  <2> QED BY <1>0, <1>7, <2>1 DEF DumpFails
<1>8. CASE Crash
  BY <1>0, <1>8 DEF Crash
<1>9. CASE UNCHANGED vars
  BY <1>0, <1>9 DEF vars, threads
<1> QED
  BY <1>1, <1>2, <1>3, <1>4, <1>5, <1>6, <1>7, <1>8, <1>9 DEF Next, Enqueue, WorkerStep

-----------------------------------------------------------------------------
(* What each step does to the contents of the file                         *)

\* The list enqueue writes: what was there, and the new item at the end.
LEMMA AppendContents ==
  ASSUME CoreInv, NEW c \in Callers, NEW o \in Objectives, EnqueueAppend(c, o)
  PROVE  /\ Contents' = Append(Contents, [id |-> issued + 1, objective |-> o,
                                          order |-> NextOrder(Contents), status |-> "queued"])
         /\ NextOrder(Contents) \in 1..issued + 1
         /\ \A k \in DOMAIN Contents : Contents[k].order < NextOrder(Contents)
<1>1. Load = Contents
  BY LoadIsContents DEF EnqueueAppend
<1>2. Contents' = Append(Load, [id |-> issued + 1, objective |-> o,
                                order |-> NextOrder(Load), status |-> "queued"])
  BY StartDumpContents DEF EnqueueAppend
<1>3. Contents \in Seq(Item)
  BY ContentsType DEF CoreInv
<1>4. \A j, k \in DOMAIN Contents : j < k => Contents[j].order < Contents[k].order
  BY DEF CoreInv, FileInv, FileInOrder
<1>5. issued \in Nat /\ \A k \in DOMAIN Contents : Contents[k].order =< issued
  BY ConstantsAssumption DEF CoreInv, FileInv, TypeOK
<1>6. \A k \in DOMAIN Contents : Contents[k].order \in Nat \ {0}
  <2> TAKE k \in DOMAIN Contents
  <2>1. Contents[k] \in Item
    BY <1>3
  <2> QED BY <2>1, ConstantsAssumption DEF Item, Ids
<1>7. CASE Contents = <<>>
  <2>1. NextOrder(Contents) = 1
    BY <1>3, <1>4, <1>7, NextOrderOfSorted
  <2> QED BY <1>1, <1>2, <1>5, <1>7, <2>1
<1>8. CASE Contents # <<>>
  <2>1. NextOrder(Contents) = 1 + Contents[Len(Contents)].order
    BY <1>3, <1>4, <1>8, NextOrderOfSorted
  <2>2. Len(Contents) \in DOMAIN Contents /\ DOMAIN Contents = 1..Len(Contents)
    BY <1>3, <1>8
  <2>3. ASSUME NEW k \in DOMAIN Contents
        PROVE  Contents[k].order =< Contents[Len(Contents)].order
    <3>1. k = Len(Contents) \/ k < Len(Contents)
      BY <2>2
    <3> QED BY <1>4, <1>6, <2>2, <3>1
  <2> QED BY <1>1, <1>2, <1>5, <1>6, <2>1, <2>2, <2>3
<1> QED BY <1>7, <1>8

\* The claim marks one queued item and touches nothing else.
LEMMA ClaimContents ==
  ASSUME CoreInv, NEW w \in Workers, Claim(w)
  PROVE  \E k \in DOMAIN Contents :
           /\ Contents[k].status = "queued"
           /\ cur' = [cur EXCEPT ![w] = [Contents[k] EXCEPT !.status = "running"]]
           /\ Contents' = [Contents EXCEPT ![k].status = "running"]
<1>1. Load = Contents
  BY LoadIsContents DEF Claim
<1>2. PICK k \in WithStatus(Load, "queued") :
        /\ cur' = [cur EXCEPT ![w] = [Load[k] EXCEPT !.status = "running"]]
        /\ StartDump([Load EXCEPT ![k].status = "running"])
  BY DEF Claim, FirstQueued
<1>3. Contents' = [Load EXCEPT ![k].status = "running"]
  BY <1>2, StartDumpContents
<1> QED BY <1>1, <1>2, <1>3 DEF WithStatus

\* The write-back replaces the item the worker holds and touches nothing else.
LEMMA StoreContents ==
  ASSUME CoreInv, NEW w \in Workers, Store(w)
  PROVE  Contents' = [k \in DOMAIN Contents |->
                        IF Contents[k].id = cur[w].id THEN cur[w] ELSE Contents[k]]
<1>1. Load = Contents
  BY LoadIsContents DEF Store
<1>2. Contents' = [k \in DOMAIN Load |->
                     IF Load[k].id = cur[w].id THEN cur[w] ELSE Load[k]]
  BY StartDumpContents DEF Store
<1> QED BY <1>1, <1>2

\* No other worker step changes the contents.
LEMMA QuietWorkerContents ==
  ASSUME CoreInv, NEW w \in Workers,
         \/ ClaimFlush(w) \/ Drain(w) \/ DrainFlush(w) \/ StoreFlush(w)
         \/ Implement(w) \/ RecordPlan(w) \/ RecordMemory(w) \/ Exit(w)
  PROVE  Contents' = Contents
<1>1. CASE Drain(w)
  <2>1. Contents' = Load
    BY <1>1, StartDumpContents DEF Drain
  <2>2. Load = Contents
    BY <1>1, LoadIsContents DEF Drain
  <2> QED BY <2>1, <2>2
<1>2. CASE ClaimFlush(w) \/ DrainFlush(w) \/ StoreFlush(w)
  <2>1. FinishDump /\ ~disk.whole
    BY <1>2 DEF ClaimFlush, DrainFlush, StoreFlush, WorkerFlush, CoreInv, LockInv, Writing
  <2> QED BY <2>1, FinishDumpContents
<1>3. CASE Implement(w) \/ RecordPlan(w) \/ RecordMemory(w) \/ Exit(w)
  BY <1>3 DEF Implement, RecordPlan, RecordMemory, Exit, file, Contents
<1> QED BY <1>1, <1>2, <1>3

\* Nor does an enqueue after its append.
LEMMA QuietCallerContents ==
  ASSUME CoreInv, NEW c \in Callers, EnqueueFlush(c) \/ EnqueueReturn(c)
  PROVE  Contents' = Contents
<1>1. CASE EnqueueFlush(c)
  <2>1. FinishDump /\ ~disk.whole
    BY <1>1 DEF EnqueueFlush, CoreInv, LockInv
  <2> QED BY <2>1, FinishDumpContents
<1>2. CASE EnqueueReturn(c)
  BY <1>2 DEF EnqueueReturn, Contents
<1> QED BY <1>1, <1>2

\* A fault leaves the contents or empties them.
LEMMA FaultContents ==
  ASSUME CoreInv, DumpFails \/ Crash
  PROVE  Contents' = Contents \/ Contents' = <<>>
BY DEF DumpFails, Crash, Contents

-----------------------------------------------------------------------------
(* The order of the file and the runs of its items                         *)

\* A step that keeps every id and order in its place keeps the file sorted.
LEMMA SameShape ==
  ASSUME FileInv, issued' = issued, DOMAIN Contents' = DOMAIN Contents,
         \A k \in DOMAIN Contents : /\ Contents'[k].id = Contents[k].id
                                    /\ Contents'[k].order = Contents[k].order
  PROVE  FileInv'
BY DEF FileInv, FileInOrder

\* A claim keeps ids and orders, and so does a write-back: the item the worker
\* holds has the order its line in the file has.
LEMMA ClaimShape ==
  ASSUME CoreInv, NEW w \in Workers, Claim(w)
  PROVE  /\ DOMAIN Contents' = DOMAIN Contents
         /\ \A k \in DOMAIN Contents : /\ Contents'[k].id = Contents[k].id
                                       /\ Contents'[k].order = Contents[k].order
<1>1. PICK k \in DOMAIN Contents : Contents' = [Contents EXCEPT ![k].status = "running"]
  BY ClaimContents
<1>2. Contents \in Seq(Item) /\ Contents[k] \in Item
  BY ContentsType DEF CoreInv
<1>3. "running" \in Status
  BY DEF Status
<1> QED BY <1>1, <1>2, <1>3, MarkedList, WithNewStatus

\* So does writing the finished item back over its line.
LEMMA StoreShape ==
  ASSUME CoreInv, NEW w \in Workers, Store(w)
  PROVE  /\ DOMAIN Contents' = DOMAIN Contents
         /\ \A k \in DOMAIN Contents : /\ Contents'[k].id = Contents[k].id
                                       /\ Contents'[k].order = Contents[k].order
<1>1. Contents' = [k \in DOMAIN Contents |->
                     IF Contents[k].id = cur[w].id THEN cur[w] ELSE Contents[k]]
  BY StoreContents
<1>2. \A k \in DOMAIN Contents :
        Contents[k].id = cur[w].id => Contents[k].order = cur[w].order
  BY DEF Store, CoreInv, RunInv, Holding
<1> QED BY <1>1, <1>2

\* Every step keeps the file sorted and no newer than the last enqueue.
LEMMA FilePreserved ==
  ASSUME CoreInv, [Next]_vars
  PROVE  FileInv'
<1>0. FileInv
  BY DEF CoreInv
<1>1. ASSUME NEW c \in Callers, NEW o \in Objectives, EnqueueAppend(c, o)
      PROVE  FileInv'
  <2> DEFINE new == [id |-> issued + 1, objective |-> o,
                     order |-> NextOrder(Contents), status |-> "queued"]
  <2>1. /\ Contents' = Append(Contents, new) /\ new.order \in 1..issued + 1
        /\ \A k \in DOMAIN Contents : Contents[k].order < new.order
    BY <1>1, AppendContents
  <2>2. Contents \in Seq(Item) /\ issued \in Nat /\ issued' = issued + 1
    BY <1>1, ConstantsAssumption, ContentsType DEF CoreInv, TypeOK, EnqueueAppend
  <2>3. new.id = issued + 1
    OBVIOUS
  <2>4. \A k \in DOMAIN Contents : Contents[k].id \in Nat /\ Contents[k].order \in Nat
    <3> TAKE k \in DOMAIN Contents
    <3>1. Contents[k] \in Item
      BY <2>2
    <3> QED BY <3>1, ConstantsAssumption DEF Item, Ids
  <2> HIDE DEF new
  <2>5. \A k \in DOMAIN Contents' :
          \/ Contents'[k] = new /\ k = Len(Contents) + 1
          \/ k \in DOMAIN Contents /\ k =< Len(Contents) /\ Contents'[k] = Contents[k]
    BY <2>1, <2>2
  <2>6. \A k \in DOMAIN Contents : Contents[k].id =< issued /\ Contents[k].order =< issued
    BY <1>0 DEF FileInv
  <2>7. ASSUME NEW j \in DOMAIN Contents', NEW k \in DOMAIN Contents', j < k
        PROVE  Contents'[j].order < Contents'[k].order /\ Contents'[j].id < Contents'[k].id
    <3>1. Contents \in Seq(Item) /\ j \in Nat /\ k \in Nat
      BY <2>1, <2>2
    <3>2. j \in DOMAIN Contents /\ Contents'[j] = Contents[j]
      BY <2>5, <2>7, <3>1
    <3>3. CASE Contents'[k] = new
      BY <2>1, <2>2, <2>3, <2>4, <2>6, <3>2, <3>3
    <3>4. CASE k \in DOMAIN Contents /\ Contents'[k] = Contents[k]
      BY <1>0, <2>7, <3>2, <3>4 DEF FileInv, FileInOrder
    <3> QED BY <2>5, <3>3, <3>4
  <2>8. \A k \in DOMAIN Contents' : Contents'[k].id =< issued' /\ Contents'[k].order =< issued'
    BY <2>1, <2>2, <2>3, <2>4, <2>5, <2>6
  <2> QED BY <2>7, <2>8 DEF FileInv, FileInOrder
<1>2. ASSUME NEW c \in Callers, EnqueueFlush(c) \/ EnqueueReturn(c)
      PROVE  FileInv'
  BY <1>0, <1>2, QuietCallerContents, SameShape DEF EnqueueFlush, EnqueueReturn
<1>3. ASSUME NEW w \in Workers, Claim(w)
      PROVE  FileInv'
  BY <1>0, <1>3, ClaimShape, SameShape DEF Claim
<1>4. ASSUME NEW w \in Workers, Store(w)
      PROVE  FileInv'
  BY <1>0, <1>4, StoreShape, SameShape DEF Store
<1>5. ASSUME NEW w \in Workers,
             \/ ClaimFlush(w) \/ Drain(w) \/ DrainFlush(w) \/ StoreFlush(w)
             \/ Implement(w) \/ RecordPlan(w) \/ RecordMemory(w) \/ Exit(w)
      PROVE  FileInv'
  <2>1. issued' = issued
    BY <1>5 DEF ClaimFlush, Drain, DrainFlush, StoreFlush, WorkerFlush,
                Implement, RecordPlan, RecordMemory, Exit
  <2> QED BY <1>0, <1>5, <2>1, QuietWorkerContents, SameShape
<1>6. CASE DumpFails \/ Crash
  <2>1. issued' = issued
    BY <1>6 DEF DumpFails, Crash
  <2>2. CASE Contents' = <<>>
    BY <2>2 DEF FileInv, FileInOrder
  <2> QED BY <1>0, <1>6, <2>1, <2>2, FaultContents, SameShape
<1>7. CASE UNCHANGED vars
  <2>1. Contents' = Contents /\ issued' = issued
    BY <1>7 DEF vars, file, Contents
  <2> QED BY <1>0, <2>1, SameShape
<1> QED
  BY <1>1, <1>2, <1>3, <1>4, <1>5, <1>6, <1>7 DEF Next, Enqueue, WorkerStep

\* While one worker is alive no other holds anything.
LEMMA OthersHoldNothing ==
  ASSUME CoreInv, NEW v \in Workers, NEW w \in Workers, Alive(w), v # w
  PROVE  wpc[v] = "dead" /\ ~Holding(v)
BY DEF CoreInv, WorkerInv, Alive, Holding

\* The items of the file, and the one a worker holds, have proper ids.
LEMMA ItemsAreItems ==
  ASSUME CoreInv
  PROVE  /\ \A k \in DOMAIN Contents : Contents[k] \in Item /\ Contents[k].id \in Ids
         /\ \A w \in Workers : Holding(w) => cur[w] \in Item /\ cur[w].id \in Ids
<1>1. Contents \in Seq(Item)
  BY ContentsType DEF CoreInv
<1>2. \A k \in DOMAIN Contents : Contents[k] \in Item
  BY <1>1
<1>3. \A w \in Workers : Holding(w) => cur[w] \in Item
  BY DEF CoreInv, WorkerInv
<1> QED BY <1>2, <1>3 DEF Item

\* A step that leaves runs and ids, keeps or empties the file, and lets the
\* workers hold at most what they held, at no earlier a stage, keeps RunInv.
LEMMA QuietRuns ==
  ASSUME RunInv, UNCHANGED <<runs, issued>>,
         Contents' = Contents \/ Contents' = <<>>,
         \A w \in Workers : Holding(w)' =>
           /\ Holding(w)
           /\ cur'[w].id = cur[w].id /\ cur'[w].order = cur[w].order
           /\ wpc'[w] \in {"claiming", "working"} => wpc[w] \in {"claiming", "working"}
  PROVE  RunInv'
<1> USE DEF RunInv, AtMostOneRun, WithStatus
<1>1. CASE Contents' = Contents
  BY <1>1 DEF Holding
<1>2. CASE Contents' = <<>>
  BY <1>2 DEF Holding
<1> QED BY <1>1, <1>2

\* Every step keeps queued items unrun and lets a claimed one run once.
LEMMA RunPreserved ==
  ASSUME CoreInv, [Next]_vars
  PROVE  RunInv'
<1>0. /\ RunInv /\ issued \in 0..MaxItems /\ MaxItems \in Nat /\ runs \in [Ids -> Nat]
      /\ wpc \in [Workers -> WorkerPC] /\ cur \in [Workers -> Item \cup {NoItem}]
  BY ConstantsAssumption DEF CoreInv, TypeOK
<1>1. ASSUME NEW c \in Callers, NEW o \in Objectives, EnqueueAppend(c, o)
      PROVE  RunInv'
  <2> DEFINE new == [id |-> issued + 1, objective |-> o,
                     order |-> NextOrder(Contents), status |-> "queued"]
  <2>1. Contents' = Append(Contents, new) /\ Contents \in Seq(Item)
    BY <1>1, AppendContents, ContentsType DEF CoreInv
  <2>2. new.id = issued + 1 /\ issued + 1 \in Ids
    BY <1>0, <1>1 DEF EnqueueAppend, Ids
  <2> HIDE DEF new
  <2>3. \A k \in DOMAIN Contents' :
          \/ Contents'[k] = new
          \/ k \in DOMAIN Contents /\ Contents'[k] = Contents[k]
    BY <2>1
  <2>4. runs' = runs /\ wpc' = wpc /\ cur' = cur /\ issued' = issued + 1
    BY <1>1 DEF EnqueueAppend, threads, history
  <2>5. \A w \in Workers : Holding(w) => cur[w].id \in Ids
    BY ItemsAreItems
  <2> QED BY <1>0, <2>2, <2>3, <2>4, <2>5 DEF RunInv, AtMostOneRun, WithStatus, Holding, Ids
<1>2. ASSUME NEW c \in Callers, EnqueueFlush(c) \/ EnqueueReturn(c)
      PROVE  RunInv'
  <2>1. \A w \in Workers : Holding(w)' => Holding(w) /\ cur' = cur /\ wpc'[w] = wpc[w]
    BY <1>0, <1>2 DEF EnqueueFlush, EnqueueReturn, EnsureTrusts, EnsureStarts, threads, Holding
  <2>2. UNCHANGED <<runs, issued>>
    BY <1>2 DEF EnqueueFlush, EnqueueReturn, history
  <2> QED BY <1>0, <1>2, <2>1, <2>2, QuietCallerContents, QuietRuns
<1>3. ASSUME NEW w \in Workers, Claim(w)
      PROVE  RunInv'
  <2>1. PICK k \in DOMAIN Contents :
          /\ Contents[k].status = "queued"
          /\ cur' = [cur EXCEPT ![w] = [Contents[k] EXCEPT !.status = "running"]]
          /\ Contents' = [Contents EXCEPT ![k].status = "running"]
    BY <1>3, ClaimContents
  <2>2. Contents \in Seq(Item) /\ Contents[k] \in Item /\ Contents[k].id \in Ids
    BY ItemsAreItems, ContentsType DEF CoreInv
  <2>3. /\ DOMAIN Contents' = DOMAIN Contents
        /\ \A j \in DOMAIN Contents : j # k => Contents'[j] = Contents[j]
        /\ Contents'[k] = cur'[w]
    BY <1>0, <2>1, <2>2, MarkedList DEF Status
  <2>4. /\ cur'[w].status = "running"
        /\ cur'[w].id = Contents[k].id /\ cur'[w].order = Contents[k].order
    BY <1>0, <2>1, <2>2, WithNewStatus DEF Status
  <2>5. \A v \in Workers : v # w => ~Holding(v)'
    BY <1>0, <1>3, OthersHoldNothing DEF Claim, Goto, Holding, Alive
  <2>6. \A j \in DOMAIN Contents : Contents[j].id = Contents[k].id => j = k
    <3> TAKE j \in DOMAIN Contents
    <3>1. j \in Nat /\ k \in Nat /\ Contents[j].id \in Nat /\ Contents[k].id \in Nat
      BY <1>0, <2>2, ItemsAreItems DEF Ids
    <3> QED BY <3>1 DEF CoreInv, FileInv, FileInOrder
  <2>7. UNCHANGED <<runs, issued>>
    BY <1>3 DEF Claim, history
  <2>8. Contents[k].id =< issued /\ runs[Contents[k].id] = 0
    BY <1>0, <2>1 DEF CoreInv, FileInv, RunInv, WithStatus
  <2> QED BY <1>0, <2>1, <2>3, <2>4, <2>5, <2>6, <2>7, <2>8
          DEF RunInv, AtMostOneRun, WithStatus, Holding
<1>4. ASSUME NEW w \in Workers, Implement(w)
      PROVE  RunInv'
  <2>1. Holding(w) /\ cur[w] \in Item /\ cur[w].id \in Ids
    BY <1>4, ItemsAreItems DEF Implement, Holding
  <2>2. PICK st \in {"done", "failed"} : cur' = [cur EXCEPT ![w].status = st]
    BY <1>4 DEF Implement
  <2>3. cur'[w] = [cur[w] EXCEPT !.status = st] /\ st \in Status
    BY <1>0, <2>2 DEF Status
  <2>4. cur'[w].id = cur[w].id /\ cur'[w].order = cur[w].order
    BY <2>1, <2>3, WithNewStatus
  <2>5. \A v \in Workers : v # w => ~Holding(v)'
    BY <1>0, <1>4, OthersHoldNothing DEF Implement, Goto, Holding, Alive
  <2>6. /\ wpc'[w] \notin {"claiming", "working"}
        /\ issued' = issued /\ runs' = [runs EXCEPT ![cur[w].id] = @ + 1]
    BY <1>0, <1>4 DEF Implement, Goto
  <2>7. Contents' = Contents
    BY <1>4, QuietWorkerContents
  <2>8. runs[cur[w].id] = 0 /\ cur[w].id =< issued
    BY <1>0, <1>4 DEF Implement, RunInv, Holding
  <2>9. \A k \in WithStatus(Contents, "queued") : Contents[k].id # cur[w].id
    BY <1>0, <2>1 DEF RunInv, WithStatus
  <2>10. \A k \in DOMAIN Contents : Contents[k].id \in Ids
    BY ItemsAreItems
  <2> QED
    <3>1. \A i \in Ids : runs'[i] = IF i = cur[w].id THEN 1 ELSE runs[i]
      BY <1>0, <2>6, <2>8
    <3>2. \A i \in Ids : runs'[i] =< 1 /\ (i > issued' => runs'[i] = 0)
      BY <1>0, <2>1, <2>6, <2>8, <3>1 DEF RunInv, AtMostOneRun, Ids
    <3>3. \A k \in WithStatus(Contents', "queued") : runs'[Contents'[k].id] = 0
      BY <1>0, <2>7, <2>9, <2>10, <3>1 DEF RunInv, WithStatus
    <3>4. \A v \in Workers : wpc'[v] \in {"claiming", "working"} => runs'[cur'[v].id] = 0
      BY <2>5, <2>6 DEF Holding
    <3>5. \A v \in Workers : Holding(v)' =>
            /\ cur'[v].id =< issued'
            /\ \A k \in DOMAIN Contents' :
                 Contents'[k].id = cur'[v].id =>
                   Contents'[k].status # "queued" /\ Contents'[k].order = cur'[v].order
      BY <1>0, <2>1, <2>4, <2>5, <2>6, <2>7, <2>8 DEF RunInv
    <3> QED BY <3>2, <3>3, <3>4, <3>5 DEF RunInv, AtMostOneRun
<1>5. ASSUME NEW w \in Workers, RecordPlan(w) \/ RecordMemory(w)
      PROVE  RunInv'
  <2>1. Holding(w) /\ cur[w] \in Item
    BY <1>5, ItemsAreItems DEF RecordPlan, RecordMemory, Holding
  <2>2. cur' = cur \/ cur' = [cur EXCEPT ![w].status = "failed"]
    BY <1>5 DEF RecordPlan, RecordMemory, RecordRaises
  <2>3. \A v \in Workers : cur'[v].id = cur[v].id /\ cur'[v].order = cur[v].order
    <3>1. CASE cur' = [cur EXCEPT ![w].status = "failed"]
      <4>1. \A v \in Workers :
              cur'[v] = IF v = w THEN [cur[w] EXCEPT !.status = "failed"] ELSE cur[v]
        BY <1>0, <3>1
      <4>2. "failed" \in Status
        BY DEF Status
      <4> DEFINE new == [cur[w] EXCEPT !.status = "failed"]
      <4>3. new.id = cur[w].id /\ new.order = cur[w].order
        BY <2>1, <4>2, WithNewStatus
      <4> HIDE DEF new
      <4>4. \A v \in Workers : cur'[v] = IF v = w THEN new ELSE cur[v]
        BY <4>1 DEF new
      <4> QED BY <4>3, <4>4
    <3> QED BY <2>2, <3>1
  <2>4. \A v \in Workers : Holding(v)' =>
          Holding(v) /\ (wpc'[v] \in {"claiming", "working"} => wpc'[v] = wpc[v])
    BY <1>0, <1>5 DEF RecordPlan, RecordMemory, RecordRaises, Goto, Holding
  <2>5. UNCHANGED <<runs, issued>>
    BY <1>5 DEF RecordPlan, RecordMemory, history
  <2> QED BY <1>0, <1>5, <2>3, <2>4, <2>5, QuietWorkerContents, QuietRuns
<1>6. ASSUME NEW w \in Workers, Store(w)
      PROVE  RunInv'
  <2>1. Contents' = [k \in DOMAIN Contents |->
                       IF Contents[k].id = cur[w].id THEN cur[w] ELSE Contents[k]]
    BY <1>6, StoreContents
  <2>2. Holding(w) /\ cur[w].status # "queued"
    BY <1>6 DEF Store, Holding, CoreInv, WorkerInv
  <2>3. \A v \in Workers : v # w => ~Holding(v)'
    BY <1>0, <1>6, OthersHoldNothing DEF Store, Goto, Holding, Alive
  <2>4. UNCHANGED <<runs, issued, cur>> /\ wpc'[w] = "flushing"
    BY <1>0, <1>6 DEF Store, Goto, history
  <2> QED BY <1>0, <2>1, <2>2, <2>3, <2>4 DEF RunInv, AtMostOneRun, WithStatus, Holding
<1>7. ASSUME NEW w \in Workers,
             ClaimFlush(w) \/ Drain(w) \/ DrainFlush(w) \/ StoreFlush(w) \/ Exit(w)
      PROVE  RunInv'
  <2>1. UNCHANGED <<runs, issued, cur>>
    BY <1>7 DEF ClaimFlush, Drain, DrainFlush, StoreFlush, WorkerFlush, Exit, history
  <2>2. \A v \in Workers : Holding(v)' =>
          /\ Holding(v)
          /\ wpc'[v] \in {"claiming", "working"} => wpc[v] \in {"claiming", "working"}
    BY <1>0, <1>7 DEF ClaimFlush, Drain, DrainFlush, StoreFlush, WorkerFlush, Exit, Goto, Holding
  <2> QED BY <1>0, <1>7, <2>1, <2>2, QuietWorkerContents, QuietRuns
<1>8. CASE DumpFails \/ Crash
  <2>1. UNCHANGED <<runs, issued>>
    BY <1>8 DEF DumpFails, Crash, history
  <2>2. \A w \in Workers : Holding(w)' => Holding(w) /\ cur' = cur /\ wpc'[w] = wpc[w]
    BY <1>0, <1>8 DEF DumpFails, Crash, Holding
  <2> QED BY <1>0, <1>8, <2>1, <2>2, FaultContents, QuietRuns
<1>9. CASE UNCHANGED vars
  BY <1>0, <1>9, QuietRuns DEF vars, file, threads, history, Contents, Holding
<1> QED
  BY <1>1, <1>2, <1>3, <1>4, <1>5, <1>6, <1>7, <1>8, <1>9 DEF Next, Enqueue, WorkerStep

-----------------------------------------------------------------------------
(* Types, and the theorems                                                 *)

\* Lists that are written are lists of items.
LEMMA StartDumpType ==
  ASSUME TypeOK, NEW items \in Seq(Item), StartDump(items)
  PROVE  disk' \in [whole : BOOLEAN, items : Seq(Item)] /\ buf' \in Seq(Item)
BY DEF StartDump

\* Finishing a write leaves a file of items.
LEMMA FinishDumpType ==
  ASSUME TypeOK, FinishDump
  PROVE  disk' \in [whole : BOOLEAN, items : Seq(Item)] /\ buf' \in Seq(Item)
BY DEF FinishDump, TypeOK

\* Every step keeps the state well typed.
LEMMA TypePreserved ==
  ASSUME CoreInv, [Next]_vars
  PROVE  TypeOK'
<1>0. TypeOK /\ Load \in Seq(Item) /\ MaxItems \in Nat
  BY LoadType, ConstantsAssumption DEF CoreInv
<1>1. ASSUME NEW c \in Callers, NEW o \in Objectives, EnqueueAppend(c, o)
      PROVE  TypeOK'
  <2> DEFINE new == [id |-> issued + 1, objective |-> o,
                     order |-> NextOrder(Contents), status |-> "queued"]
  <2>1. Load = Contents /\ NextOrder(Contents) \in 1..issued + 1
    BY <1>1, AppendContents, LoadIsContents DEF EnqueueAppend
  <2>2. issued' \in 0..MaxItems /\ issued + 1 \in Ids /\ NextOrder(Contents) \in Ids
    BY <1>0, <1>1, <2>1 DEF EnqueueAppend, TypeOK, Ids
  <2>3. new \in Item
    BY <2>2 DEF Item, Status
  <2>4. Append(Load, new) \in Seq(Item) /\ StartDump(Append(Load, new))
    <3>1. StartDump(Append(Load, new))
      BY <1>1, <2>1 DEF EnqueueAppend
    <3> HIDE DEF new
    <3> QED BY <1>0, <2>3, <3>1
  <2>5. disk' \in [whole : BOOLEAN, items : Seq(Item)] /\ buf' \in Seq(Item)
    <3> HIDE DEF new
    <3> QED BY <1>0, <2>4, StartDumpType
  <2>6. mine' \in [Callers -> 0..MaxItems]
    BY <1>0, <1>1, <2>2 DEF EnqueueAppend, TypeOK, Ids
  <2>7. cpc' \in [Callers -> CallerPC] /\ lock' \in Callers \cup Workers \cup {NoOne}
    BY <1>0, <1>1 DEF EnqueueAppend, TypeOK, CallerPC
  <2> QED BY <1>0, <1>1, <2>2, <2>5, <2>6, <2>7
          DEF EnqueueAppend, TypeOK, threads, records, faults, history
<1>2. ASSUME NEW c \in Callers, EnqueueFlush(c)
      PROVE  TypeOK'
  <2>1. disk' \in [whole : BOOLEAN, items : Seq(Item)] /\ buf' \in Seq(Item)
    BY <1>0, <1>2, FinishDumpType DEF EnqueueFlush
  <2> QED BY <1>0, <1>2, <2>1
          DEF EnqueueFlush, TypeOK, threads, records, faults, history, CallerPC
<1>3. ASSUME NEW c \in Callers, EnqueueReturn(c)
      PROVE  TypeOK'
  <2>1. worker' \in Workers \cup {NoOne} /\ wpc' \in [Workers -> WorkerPC]
    BY <1>0, <1>3 DEF EnqueueReturn, EnsureTrusts, EnsureStarts, threads, TypeOK, WorkerPC
  <2>2. stranded' \in BOOLEAN /\ cur' = cur
    <3>1. CASE EnsureTrusts(c)
      <4>1. cur' = cur /\ stranded' = (stranded \/ ~InLoop(worker)) /\ stranded \in BOOLEAN
        BY <1>0, <3>1 DEF EnsureTrusts, threads, TypeOK
      <4> QED BY <4>1 DEF InLoop
    <3>2. CASE EnsureStarts(c)
      BY <3>2 DEF EnsureStarts
    <3> QED BY <1>3, <3>1, <3>2 DEF EnqueueReturn
  <2>3. mine[c] \in Ids
    BY <1>0, <1>3 DEF EnqueueReturn, EnsureTrusts, EnsureStarts, CoreInv, LockInv, TypeOK, Ids
  <2> QED BY <1>0, <1>3, <2>1, <2>2, <2>3
          DEF EnqueueReturn, TypeOK, records, faults, CallerPC
<1>4. ASSUME NEW w \in Workers, Claim(w)
      PROVE  TypeOK'
  <2>1. PICK k \in DOMAIN Load :
          /\ cur' = [cur EXCEPT ![w] = [Load[k] EXCEPT !.status = "running"]]
          /\ StartDump([Load EXCEPT ![k].status = "running"])
    BY <1>4 DEF Claim, FirstQueued, WithStatus
  <2>2. Load[k] \in Item /\ "running" \in Status
    BY <1>0 DEF Status
  <2>3. [Load EXCEPT ![k].status = "running"] \in Seq(Item)
    BY <1>0, <2>2, MarkedList
  <2>4. disk' \in [whole : BOOLEAN, items : Seq(Item)] /\ buf' \in Seq(Item)
    BY <1>0, <2>1, <2>3, StartDumpType
  <2>5. cur' \in [Workers -> Item \cup {NoItem}]
    <3>1. [Load[k] EXCEPT !.status = "running"] \in Item
      BY <2>2, WithNewStatus
    <3> QED BY <1>0, <2>1, <3>1 DEF TypeOK
  <2> QED BY <1>0, <1>4, <2>4, <2>5
          DEF Claim, Goto, TypeOK, WorkerPC, records, faults, history
<1>5. ASSUME NEW w \in Workers, Drain(w)
      PROVE  TypeOK'
  <2>1. disk' \in [whole : BOOLEAN, items : Seq(Item)] /\ buf' \in Seq(Item)
    BY <1>0, <1>5, StartDumpType DEF Drain
  <2> QED BY <1>0, <1>5, <2>1 DEF Drain, Goto, TypeOK, WorkerPC, records, faults, history
<1>6. ASSUME NEW w \in Workers, ClaimFlush(w) \/ DrainFlush(w) \/ StoreFlush(w)
      PROVE  TypeOK'
  <2>1. disk' \in [whole : BOOLEAN, items : Seq(Item)] /\ buf' \in Seq(Item)
    <3>1. FinishDump
      BY <1>6 DEF ClaimFlush, DrainFlush, StoreFlush, WorkerFlush
    <3> QED BY <1>0, <3>1, FinishDumpType
  <2>2. wpc' \in [Workers -> WorkerPC]
    <3>1. \E l \in {"working", "exiting", "top"} : Goto(w, l)
      BY <1>6 DEF ClaimFlush, DrainFlush, StoreFlush, WorkerFlush
    <3>2. PICK l \in WorkerPC : wpc' = [wpc EXCEPT ![w] = l]
      BY <3>1 DEF Goto, WorkerPC
    <3> QED BY <1>0, <3>2 DEF TypeOK
  <2>3. /\ lock' = NoOne
        /\ UNCHANGED <<worker, cur, cpc, mine, records, issued, faults, history>>
    BY <1>6 DEF ClaimFlush, DrainFlush, StoreFlush, WorkerFlush
  <2> QED BY <1>0, <2>1, <2>2, <2>3 DEF TypeOK, records, faults, history
<1>7. ASSUME NEW w \in Workers, Implement(w)
      PROVE  TypeOK'
  <2>1. cur[w] \in Item /\ cur[w].id \in Ids
    BY <1>7, ItemsAreItems DEF Implement, Holding
  <2>2. PICK answer \in {"done", "failed", "raised"} :
          /\ verdict' = [verdict EXCEPT ![cur[w].id] = answer]
          /\ cur' = [cur EXCEPT ![w].status = IF answer = "done" THEN "done" ELSE "failed"]
          /\ Goto(w, IF answer = "raised" THEN "storing" ELSE "planning")
    BY <1>7 DEF Implement
  <2>3. verdict' \in [Ids -> Outcomes]
    BY <1>0, <2>2 DEF TypeOK, Outcomes
  <2>4. runs' \in [Ids -> Nat]
    BY <1>0, <1>7, <2>1 DEF Implement, TypeOK
  <2>5. cur' \in [Workers -> Item \cup {NoItem}]
    <3> DEFINE st == IF answer = "done" THEN "done" ELSE "failed"
    <3>1. st \in Status
      BY DEF Status
    <3>2. cur' = [cur EXCEPT ![w] = [cur[w] EXCEPT !.status = st]]
      BY <1>0, <2>2 DEF TypeOK
    <3> HIDE DEF st
    <3>3. [cur[w] EXCEPT !.status = st] \in Item
      BY <2>1, <3>1, WithNewStatus
    <3> QED BY <1>0, <3>2, <3>3 DEF TypeOK
  <2>6. wpc' \in [Workers -> WorkerPC]
    BY <1>0, <2>2 DEF Goto, TypeOK, WorkerPC
  <2> QED BY <1>0, <1>7, <2>3, <2>4, <2>5, <2>6
          DEF Implement, TypeOK, file, records, faults
<1>8. ASSUME NEW w \in Workers, RecordPlan(w) \/ RecordMemory(w)
      PROVE  TypeOK'
  <2>1. cur[w] \in Item /\ cur[w].id \in Ids
    BY <1>8, ItemsAreItems DEF RecordPlan, RecordMemory, Holding
  <2>2. cur' \in [Workers -> Item \cup {NoItem}]
    <3>1. CASE cur' = [cur EXCEPT ![w].status = "failed"]
      <4>1. cur' = [cur EXCEPT ![w] = [cur[w] EXCEPT !.status = "failed"]]
        BY <1>0, <3>1 DEF TypeOK
      <4>2. [cur[w] EXCEPT !.status = "failed"] \in Item
        BY <2>1, WithNewStatus DEF Status
      <4> QED BY <1>0, <4>1, <4>2 DEF TypeOK
    <3>2. CASE cur' = cur
      BY <1>0, <3>2 DEF TypeOK
    <3> QED BY <1>8, <3>1, <3>2 DEF RecordPlan, RecordMemory, RecordRaises
  <2>3. wpc' \in [Workers -> WorkerPC]
    BY <1>0, <1>8 DEF RecordPlan, RecordMemory, RecordRaises, Goto, TypeOK, WorkerPC
  <2>4. plans' \in [Objectives -> {"none", "active", "completed", "failed"}]
    <3>1. cur[w].objective \in Objectives
      BY <2>1 DEF Item
    <3>2. plans \in [Objectives -> {"none", "active", "completed", "failed"}]
      BY <1>0 DEF TypeOK
    <3>3. \A st \in {"none", "active", "completed", "failed"} :
            [plans EXCEPT ![cur[w].objective] = st]
              \in [Objectives -> {"none", "active", "completed", "failed"}]
      BY <3>2
    <3>4. CASE plans' = plans
      BY <3>2, <3>4
    <3>5. CASE RecordPlan(w) /\ plans' # plans
      <4>1. plans[cur[w].objective] \in {"none", "active", "completed", "failed"}
        BY <3>1, <3>2
      <4>2. \E st \in {"none", "active", "completed", "failed"} :
              plans' = [plans EXCEPT ![cur[w].objective] = st]
        BY <3>5, <4>1 DEF RecordPlan
      <4> QED BY <3>3, <4>2
    <3> QED BY <1>8, <3>4, <3>5 DEF RecordMemory
  <2>5. memory' \in [lines : SUBSET MemoryLine, torn : BOOLEAN]
    <3>1. CASE RecordPlan(w)
      BY <1>0, <3>1 DEF RecordPlan, TypeOK
    <3>2. CASE RecordMemory(w)
      <4>1. cur[w].status \in {"done", "failed"}
        BY <2>1, <3>2 DEF CoreInv, WorkerInv, RecordMemory, Holding, Item, Status
      <4>2. <<cur[w].id, cur[w].status>> \in MemoryLine
        BY <2>1, <4>1 DEF MemoryLine
      <4>3. /\ memory.lines \in SUBSET MemoryLine
            /\ memory \in [lines : SUBSET MemoryLine, torn : BOOLEAN]
        BY <1>0 DEF TypeOK
      <4> DEFINE new == IF memory.torn THEN memory.lines
                        ELSE memory.lines \cup {<<cur[w].id, cur[w].status>>}
      <4>4. new \in SUBSET MemoryLine
        BY <4>2, <4>3
      <4>5. memory' = memory \/ memory' = [lines |-> new, torn |-> FALSE]
        BY <3>2 DEF RecordMemory
      <4> HIDE DEF new
      <4>6. [lines |-> new, torn |-> FALSE] \in [lines : SUBSET MemoryLine, torn : BOOLEAN]
        BY <4>4
      <4> QED BY <4>3, <4>5, <4>6
    <3> QED BY <1>8, <3>1, <3>2
  <2> QED BY <1>0, <1>8, <2>2, <2>3, <2>4, <2>5
          DEF RecordPlan, RecordMemory, TypeOK, file, faults, history
<1>9. ASSUME NEW w \in Workers, Store(w)
      PROVE  TypeOK'
  <2> DEFINE new == [k \in DOMAIN Load |-> IF Load[k].id = cur[w].id THEN cur[w] ELSE Load[k]]
  <2>1. cur[w] \in Item
    BY <1>9, ItemsAreItems DEF Store, Holding
  <2>2. new \in Seq(Item) /\ StartDump(new)
    BY <1>0, <1>9, <2>1 DEF Store
  <2>3. disk' \in [whole : BOOLEAN, items : Seq(Item)] /\ buf' \in Seq(Item)
    <3> HIDE DEF new
    <3> QED BY <1>0, <2>2, StartDumpType
  <2> QED BY <1>0, <1>9, <2>3 DEF Store, Goto, TypeOK, WorkerPC, records, faults, history
<1>10. ASSUME NEW w \in Workers, Exit(w)
       PROVE  TypeOK'
  BY <1>0, <1>10 DEF Exit, Goto, TypeOK, WorkerPC, file, records, faults, history
<1>11. CASE DumpFails
  <2>1. <<>> \in Seq(Item) /\ dumpFailures' \in 0..MaxDumpFailures
    BY <1>0, <1>11, ConstantsAssumption DEF DumpFails, TypeOK
  <2> QED BY <1>0, <1>11, <2>1 DEF DumpFails, TypeOK, CallerPC, WorkerPC, records, history
<1>12. CASE Crash
  <2>1. <<>> \in Seq(Item) /\ crashes' \in 0..MaxCrashes
    BY <1>0, <1>12, ConstantsAssumption DEF Crash, TypeOK
  <2>2. plans' \in [Objectives -> {"none", "active", "completed", "failed"}]
    BY <1>0, <1>12 DEF Crash, TypeOK
  <2>3. memory' \in [lines : SUBSET MemoryLine, torn : BOOLEAN]
    BY <1>0, <1>12 DEF Crash, TypeOK
  <2> QED BY <1>0, <1>12, <2>1, <2>2, <2>3 DEF Crash, TypeOK, CallerPC, WorkerPC
<1>13. CASE UNCHANGED vars
  BY <1>0, <1>13 DEF TypeOK, vars, file, threads, records, faults, history
<1> QED
  BY <1>1, <1>2, <1>3, <1>4, <1>5, <1>6, <1>7, <1>8, <1>9, <1>10, <1>11, <1>12, <1>13
     DEF Next, Enqueue, WorkerStep

\* The invariant holds at the start ...
LEMMA InitCore == Init => CoreInv
<1> SUFFICES ASSUME Init PROVE CoreInv
  OBVIOUS
<1>1. Contents = <<>> /\ issued = 0
  BY DEF Init, Contents
<1>2. TypeOK
  <2>1. <<>> \in Seq(Item)
    OBVIOUS
  <2>2. disk \in [whole : BOOLEAN, items : Seq(Item)] /\ buf \in Seq(Item)
    BY <2>1 DEF Init
  <2>3. memory \in [lines : SUBSET MemoryLine, torn : BOOLEAN]
    BY DEF Init
  <2>4. /\ wpc \in [Workers -> WorkerPC] /\ cpc \in [Callers -> CallerPC]
        /\ cur \in [Workers -> Item \cup {NoItem}] /\ mine \in [Callers -> 0..MaxItems]
    BY ConstantsAssumption DEF Init, WorkerPC, CallerPC
  <2>5. /\ plans \in [Objectives -> {"none", "active", "completed", "failed"}]
        /\ runs \in [Ids -> Nat] /\ verdict \in [Ids -> Outcomes]
        /\ accepted \in SUBSET Ids /\ stranded \in BOOLEAN
    BY DEF Init, Outcomes
  <2>6. /\ issued \in 0..MaxItems /\ crashes \in 0..MaxCrashes
        /\ dumpFailures \in 0..MaxDumpFailures
        /\ lock \in Callers \cup Workers \cup {NoOne} /\ worker \in Workers \cup {NoOne}
    BY ConstantsAssumption DEF Init
  <2> QED BY <2>2, <2>3, <2>4, <2>5, <2>6 DEF TypeOK
<1>3. LockInv
  BY ConstantsAssumption DEF Init, LockInv, Writing
<1>4. WorkerInv
  BY DEF Init, WorkerInv, Alive, Holding
<1>5. FileInv
  BY <1>1 DEF FileInv, FileInOrder
<1>6. RunInv
  BY <1>1 DEF Init, RunInv, AtMostOneRun, WithStatus, Holding
<1> QED BY <1>2, <1>3, <1>4, <1>5, <1>6 DEF CoreInv

\* ... and every step keeps it ...
LEMMA CoreInductive == CoreInv /\ [Next]_vars => CoreInv'
BY TypePreserved, LockPreserved, WorkerPreserved, FilePreserved, RunPreserved DEF CoreInv

\* ... so that CoreInv is inductive.  Theorem: in every reachable
\* state of the coordinator, for any number of handlers, workers, items, crashes
\* and failed writes, lock, threads, file and runs are tied together by CoreInv.
THEOREM Invariant == Spec => []CoreInv
BY InitCore, CoreInductive, PTL DEF Spec

\* The coordinator's state is always well typed.
THEOREM Types == Spec => []TypeOK
<1>1. CoreInv => TypeOK
  BY DEF CoreInv
<1> QED BY Invariant, <1>1, PTL

\* At most one worker thread is ever alive (_ensure_worker under the lock).
THEOREM SingleWorker == Spec => []OneWorker
<1>1. CoreInv => OneWorker
  BY DEF CoreInv, WorkerInv, OneWorker
<1> QED BY Invariant, <1>1, PTL

\* The file lists items in enqueue order under every interleaving and fault.
THEOREM Ordered == Spec => []FileInOrder
<1>1. CoreInv => FileInOrder
  BY DEF CoreInv, FileInv
<1> QED BY Invariant, <1>1, PTL

\* No objective is implemented twice, across restarts and failed writes.
THEOREM RunsOnce == Spec => []AtMostOneRun
<1>1. CoreInv => AtMostOneRun
  BY DEF CoreInv, RunInv
<1> QED BY Invariant, <1>1, PTL
-----------------------------------------------------------------------------
(* What the steps that matter do, item by item                             *)

\* No id is twice in the file.
LEMMA IdsAreUnique ==
  ASSUME CoreInv, NEW j \in DOMAIN Contents, NEW k \in DOMAIN Contents,
         Contents[j].id = Contents[k].id
  PROVE  j = k
<1>1. Contents \in Seq(Item) /\ MaxItems \in Nat
  BY ContentsType, ConstantsAssumption DEF CoreInv
<1>2. j \in Nat /\ k \in Nat /\ Contents[j].id \in Nat /\ Contents[k].id \in Nat
  BY <1>1, ItemsAreItems DEF Ids
<1> QED BY <1>2 DEF CoreInv, FileInv, FileInOrder

\* An enqueue adds one queued item under a new id, at the end.
LEMMA AppendStep ==
  ASSUME CoreInv, NEW c \in Callers, NEW o \in Objectives, EnqueueAppend(c, o)
  PROVE  /\ issued' = issued + 1 /\ issued + 1 \in Ids
         /\ DOMAIN Contents' = DOMAIN Contents \cup {Len(Contents) + 1}
         /\ Len(Contents) + 1 \notin DOMAIN Contents
         /\ \A k \in DOMAIN Contents : Contents'[k] = Contents[k] /\ Contents[k].id =< issued
         /\ Contents'[Len(Contents) + 1].id = issued + 1
         /\ Contents'[Len(Contents) + 1].status = "queued"
<1> DEFINE new == [id |-> issued + 1, objective |-> o,
                   order |-> NextOrder(Contents), status |-> "queued"]
<1>1. Contents' = Append(Contents, new) /\ Contents \in Seq(Item)
  BY AppendContents, ContentsType DEF CoreInv
<1>2. new.id = issued + 1 /\ new.status = "queued"
  OBVIOUS
<1>3. issued' = issued + 1 /\ issued + 1 \in Ids
  BY ConstantsAssumption DEF EnqueueAppend, CoreInv, TypeOK, Ids
<1>4. \A k \in DOMAIN Contents : Contents[k].id =< issued
  BY DEF CoreInv, FileInv
<1> HIDE DEF new
<1> QED BY <1>1, <1>2, <1>3, <1>4

\* A claim turns one queued item into the running one its worker holds.
LEMMA ClaimStep ==
  ASSUME CoreInv, NEW w \in Workers, Claim(w)
  PROVE  \E k \in DOMAIN Contents :
           /\ Contents[k].status = "queued"
           /\ \A j \in WithStatus(Contents, "queued") : k =< j
           /\ cur'[w].id = Contents[k].id /\ cur'[w].status = "running"
           /\ DOMAIN Contents' = DOMAIN Contents
           /\ Contents'[k].id = Contents[k].id /\ Contents'[k].status = "running"
           /\ \A j \in DOMAIN Contents :
                j # k => Contents'[j] = Contents[j] /\ Contents[j].id # Contents[k].id
<1>0. Load = Contents /\ cur \in [Workers -> Item \cup {NoItem}]
  BY LoadIsContents DEF Claim, CoreInv, TypeOK
<1>1. PICK k \in FirstQueued(Contents) :
        /\ cur' = [cur EXCEPT ![w] = [Contents[k] EXCEPT !.status = "running"]]
        /\ StartDump([Contents EXCEPT ![k].status = "running"])
  BY <1>0 DEF Claim
<1>2. /\ k \in DOMAIN Contents /\ Contents[k].status = "queued"
      /\ \A j \in WithStatus(Contents, "queued") : k =< j
  BY <1>1 DEF FirstQueued, WithStatus
<1>3. Contents' = [Contents EXCEPT ![k].status = "running"]
  BY <1>1, StartDumpContents
<1>4. Contents \in Seq(Item) /\ Contents[k] \in Item
  BY <1>2, ItemsAreItems, ContentsType DEF CoreInv
<1>5. /\ DOMAIN Contents' = DOMAIN Contents
      /\ \A j \in DOMAIN Contents : j # k => Contents'[j] = Contents[j]
      /\ Contents'[k] = [Contents[k] EXCEPT !.status = "running"]
  BY <1>2, <1>3, <1>4, MarkedList DEF Status
<1>6. cur'[w] = [Contents[k] EXCEPT !.status = "running"]
  BY <1>0, <1>1
<1>7. /\ Contents'[k].id = Contents[k].id /\ Contents'[k].status = "running"
      /\ cur'[w].id = Contents[k].id /\ cur'[w].status = "running"
  BY <1>4, <1>5, <1>6, WithNewStatus DEF Status
<1>8. \A j \in DOMAIN Contents : j # k => Contents[j].id # Contents[k].id
  BY <1>2, IdsAreUnique
<1> QED BY <1>2, <1>5, <1>7, <1>8

\* A write-back gives the item the worker holds its outcome, if it is still there.
LEMMA StoreStep ==
  ASSUME CoreInv, NEW w \in Workers, Store(w)
  PROVE  /\ DOMAIN Contents' = DOMAIN Contents
         /\ \A k \in DOMAIN Contents :
              /\ Contents'[k].id = Contents[k].id
              /\ Contents[k].id = cur[w].id => Contents'[k].status = cur[w].status
              /\ Contents[k].id # cur[w].id => Contents'[k] = Contents[k]
         /\ cur[w].status \in {"done", "failed"}
         /\ UNCHANGED cur
<1>1. Contents' = [k \in DOMAIN Contents |->
                     IF Contents[k].id = cur[w].id THEN cur[w] ELSE Contents[k]]
  BY StoreContents
<1>2. cur[w] \in Item /\ cur[w].status \notin {"queued", "running"} /\ UNCHANGED cur
  BY DEF Store, CoreInv, WorkerInv, Holding
<1>3. cur[w].status \in {"done", "failed"}
  BY <1>2 DEF Item, Status
<1> QED BY <1>1, <1>2, <1>3

\* Carrying an outcome, or changing it to a failure, leaves the item that is held.
LEMMA OutcomeStep ==
  ASSUME CoreInv, NEW w \in Workers, Implement(w) \/ RecordPlan(w) \/ RecordMemory(w)
  PROVE  /\ Holding(w) /\ cur[w].id \in Ids
         /\ cur' \in [Workers -> Item \cup {NoItem}]
         /\ \A v \in Workers : cur'[v].id = cur[v].id
         /\ RecordRaises(w) => cur'[w].status = "failed"
         /\ \A v \in Workers : v # w => ~Holding(v) /\ wpc'[v] = wpc[v]
<1>0. /\ cur \in [Workers -> Item \cup {NoItem}] /\ wpc \in [Workers -> WorkerPC]
      /\ Holding(w) /\ cur[w] \in Item /\ cur[w].id \in Ids
  <2>1. Holding(w)
    BY DEF Implement, RecordPlan, RecordMemory, Holding
  <2> QED BY <2>1, ItemsAreItems DEF CoreInv, TypeOK
<1>1. \/ cur' = cur
      \/ \E st \in Status : cur' = [cur EXCEPT ![w].status = st]
  BY DEF Implement, RecordPlan, RecordMemory, RecordRaises, Status
<1>2. ASSUME NEW st \in Status, cur' = [cur EXCEPT ![w].status = st]
      PROVE  /\ cur' \in [Workers -> Item \cup {NoItem}]
             /\ \A v \in Workers : cur'[v].id = cur[v].id
             /\ cur'[w].status = st
  <2> DEFINE new == [cur[w] EXCEPT !.status = st]
  <2>1. new \in Item /\ new.id = cur[w].id /\ new.status = st
    BY <1>0, WithNewStatus
  <2>2. cur' = [cur EXCEPT ![w] = new]
    BY <1>0, <1>2
  <2> HIDE DEF new
  <2> QED BY <1>0, <2>1, <2>2
<1>3. /\ cur' \in [Workers -> Item \cup {NoItem}]
      /\ \A v \in Workers : cur'[v].id = cur[v].id
  BY <1>0, <1>1, <1>2
<1>4. RecordRaises(w) => cur'[w].status = "failed"
  <2>1. "failed" \in Status
    BY DEF Status
  <2> QED BY <2>1, <1>2 DEF RecordRaises
<1>5. \A v \in Workers : v # w => ~Holding(v) /\ wpc'[v] = wpc[v]
  <2>1. Alive(w)
    BY <1>0 DEF Holding, Alive
  <2> QED BY <1>0, <2>1, OthersHoldNothing
          DEF Implement, RecordPlan, RecordMemory, RecordRaises, Goto
<1> QED BY <1>0, <1>3, <1>4, <1>5

\* A write that fails leaves nothing.
LEMMA DumpFailsContents ==
  ASSUME DumpFails
  PROVE  Contents' = <<>>
BY DEF DumpFails, Contents

-----------------------------------------------------------------------------
(* Every step, conjunct by conjunct of AccountInv                          *)

\* A list that keeps its ids in their places keeps what is in the file.
LEMMA IdsInFileKept ==
  ASSUME DOMAIN Contents \subseteq DOMAIN Contents',
         \A k \in DOMAIN Contents : Contents'[k].id = Contents[k].id
  PROVE  IdsInFile \subseteq IdsInFile'
BY DEF IdsInFile

\* No step of a handler or a worker loses what is in the file: only faults do.
LEMMA KeptPreserved ==
  ASSUME CoreInv, KeptInv, [Next]_vars
  PROVE  KeptInv'
<1> USE DEF KeptInv
<1>0. /\ cpc \in [Callers -> CallerPC] /\ mine \in [Callers -> 0..MaxItems]
      /\ crashes \in Nat /\ dumpFailures \in Nat
      /\ \A c \in Callers : cpc[c] # "idle" <=> lock = c
      /\ NoOne \notin Callers
  BY ConstantsAssumption DEF CoreInv, TypeOK, LockInv
<1>1. ASSUME NEW c \in Callers, NEW o \in Objectives, EnqueueAppend(c, o)
      PROVE  KeptInv'
  <2>1. IdsInFile \subseteq IdsInFile'
    BY <1>1, AppendStep, IdsInFileKept
  <2>2. issued + 1 \in IdsInFile'
    BY <1>1, AppendStep DEF IdsInFile
  <2>3. /\ UNCHANGED <<accepted, crashes, dumpFailures>> /\ mine'[c] = issued + 1
        /\ \A d \in Callers : d # c => cpc'[d] = "idle"
    BY <1>0, <1>1 DEF EnqueueAppend, history, faults
  <2> QED BY <2>1, <2>2, <2>3
<1>2. ASSUME NEW c \in Callers, EnqueueFlush(c) \/ EnqueueReturn(c)
      PROVE  KeptInv'
  <2>1. Contents' = Contents
    BY <1>2, QuietCallerContents
  <2>2. IdsInFile \subseteq IdsInFile'
    BY <2>1 DEF IdsInFile
  <2>3. /\ UNCHANGED <<crashes, dumpFailures, mine>> /\ cpc[c] # "idle"
        /\ \A d \in Callers : cpc'[d] # "idle" => cpc[d] # "idle"
        /\ accepted' \in {accepted, accepted \cup {mine[c]}}
    BY <1>0, <1>2 DEF EnqueueFlush, EnqueueReturn, EnsureTrusts, EnsureStarts, history, faults
  <2> QED BY <2>2, <2>3
<1>3. ASSUME NEW w \in Workers, WorkerStep(w)
      PROVE  KeptInv'
  <2>1. IdsInFile \subseteq IdsInFile'
    <3>1. CASE Claim(w) \/ Store(w)
      BY <3>1, ClaimShape, StoreShape, IdsInFileKept
    <3>2. CASE ~(Claim(w) \/ Store(w))
      <4>1. Contents' = Contents
        BY <1>3, <3>2, QuietWorkerContents DEF WorkerStep
      <4> QED BY <4>1 DEF IdsInFile
    <3> QED BY <3>1, <3>2
  <2>2. UNCHANGED <<accepted, crashes, dumpFailures, mine, cpc>>
    BY <1>3 DEF WorkerStep, Claim, Drain, ClaimFlush, DrainFlush, StoreFlush, WorkerFlush,
                Implement, RecordPlan, RecordMemory, Store, Exit, history, faults
  <2> QED BY <2>1, <2>2
<1>4. CASE DumpFails \/ Crash
  BY <1>0, <1>4 DEF DumpFails, Crash
<1>5. CASE UNCHANGED vars
  BY <1>5 DEF vars, file, faults, history, Contents, IdsInFile
<1> QED BY <1>1, <1>2, <1>3, <1>4, <1>5 DEF Next, Enqueue

\* Whoever leaves queued work behind has said so: only a worker that finds nothing queued
\* leaves its loop, and only an enqueue or a fault can come after it.
LEMMA AttendedPreserved ==
  ASSUME CoreInv, AttendedInv, [Next]_vars
  PROVE  AttendedInv'
<1> USE DEF AttendedInv, InLoop
<1>0. /\ cpc \in [Callers -> CallerPC] /\ wpc \in [Workers -> WorkerPC]
      /\ worker \in Workers \cup {NoOne}
      /\ \A c \in Callers : cpc[c] # "idle" <=> lock = c
      /\ \A w \in Workers : Writing(w) <=> lock = w
      /\ NoOne \notin Callers \cup Workers /\ Callers \cap Workers = {}
  BY ConstantsAssumption DEF CoreInv, TypeOK, LockInv
<1>1. ASSUME NEW c \in Callers, Enqueue(c)
      PROVE  AttendedInv'
  <2>1. CASE EnqueueFlush(c) \/ \E o \in Objectives : EnqueueAppend(c, o)
    BY <1>0, <2>1 DEF EnqueueFlush, EnqueueAppend
  <2>2. CASE EnqueueReturn(c) /\ EnsureTrusts(c)
    BY <1>0, <2>2 DEF EnqueueReturn, EnsureTrusts, WorkerIsAlive, threads
  <2>3. CASE EnqueueReturn(c) /\ EnsureStarts(c)
    BY <1>0, <2>3 DEF EnqueueReturn, EnsureStarts
  <2> QED BY <1>1, <2>1, <2>2, <2>3 DEF Enqueue, EnqueueReturn
<1>2. ASSUME NEW w \in Workers, Drain(w)
      PROVE  AttendedInv'
  <2>1. Contents' = Contents /\ Load = Contents
    BY <1>2, LoadIsContents, QuietWorkerContents DEF Drain
  <2> QED BY <1>2, <2>1 DEF Drain, WithStatus
<1>3. ASSUME NEW w \in Workers,
             \/ Claim(w) \/ ClaimFlush(w) \/ Implement(w) \/ RecordPlan(w)
             \/ RecordMemory(w) \/ Store(w) \/ StoreFlush(w)
      PROVE  AttendedInv'
  BY <1>0, <1>3 DEF Claim, ClaimFlush, Implement, RecordPlan, RecordMemory, RecordRaises,
                    Store, StoreFlush, WorkerFlush, Goto
<1>4. ASSUME NEW w \in Workers, DrainFlush(w) \/ Exit(w)
      PROVE  AttendedInv'
  <2>1. Contents' = Contents
    BY <1>4, QuietWorkerContents
  <2>2. UNCHANGED <<cpc, stranded>> /\ \A v \in Workers : InLoop(v)' <=> InLoop(v)
    BY <1>0, <1>4 DEF DrainFlush, WorkerFlush, Exit, Goto, history
  <2> QED BY <2>1, <2>2 DEF WithStatus
<1>5. CASE DumpFails
  BY <1>5, DumpFailsContents DEF WithStatus
<1>6. CASE Crash
  BY <1>6 DEF Crash
<1>7. CASE UNCHANGED vars
  BY <1>7 DEF vars, file, threads, history, Contents, WithStatus
<1> QED BY <1>1, <1>2, <1>3, <1>4, <1>5, <1>6, <1>7 DEF Next, WorkerStep

\* What the file says is running is what the live worker holds, until it is written back.
LEMMA HeldPreserved ==
  ASSUME CoreInv, HeldInv, [Next]_vars
  PROVE  HeldInv'
<1> USE DEF HeldInv, RunningIsHeld, WithStatus
<1>0. /\ wpc \in [Workers -> WorkerPC] /\ cur \in [Workers -> Item \cup {NoItem}]
      /\ crashes \in Nat
      /\ \A w \in Workers : Holding(w) => cur[w].id =< issued /\ cur[w].id \in Nat
      /\ issued \in Nat
  BY ItemsAreItems, ConstantsAssumption DEF CoreInv, TypeOK, RunInv, Ids
<1>1. ASSUME NEW c \in Callers, NEW o \in Objectives, EnqueueAppend(c, o)
      PROVE  HeldInv'
  <2>1. UNCHANGED <<wpc, cur, crashes>>
    BY <1>1 DEF EnqueueAppend, threads, faults
  <2>2. \A w \in Workers : Holding(w)' <=> Holding(w)
    BY <2>1 DEF Holding
  <2>3. \A w \in Workers : Holding(w) => cur[w].id # issued + 1
    BY <1>0
  <2> QED BY <1>1, <2>1, <2>2, <2>3, AppendStep
<1>2. ASSUME NEW c \in Callers, EnqueueFlush(c) \/ EnqueueReturn(c)
      PROVE  HeldInv'
  <2>1. Contents' = Contents /\ UNCHANGED <<cur, crashes>>
    BY <1>2, QuietCallerContents
       DEF EnqueueFlush, EnqueueReturn, EnsureTrusts, EnsureStarts, threads, faults
  <2>2. \A w \in Workers : (Holding(w)' <=> Holding(w)) /\ (Holding(w) => wpc'[w] = wpc[w])
    BY <1>0, <1>2 DEF EnqueueFlush, EnqueueReturn, EnsureTrusts, EnsureStarts, threads, Holding
  <2> QED BY <2>1, <2>2
<1>3. ASSUME NEW w \in Workers, Claim(w)
      PROVE  HeldInv'
  <2>1. \A v \in Workers : v # w => ~Holding(v)
    BY <1>3, OthersHoldNothing DEF Claim, Alive
  <2>2. /\ ~Holding(w) /\ Holding(w)' /\ wpc'[w] = "claiming" /\ crashes' = crashes
        /\ \A v \in Workers : v # w => ~Holding(v)'
    BY <1>0, <1>3, <2>1 DEF Claim, Goto, Holding, faults
  <2> QED BY <1>3, <2>1, <2>2, ClaimStep
<1>4. ASSUME NEW w \in Workers, Implement(w) \/ RecordPlan(w) \/ RecordMemory(w)
      PROVE  HeldInv'
  <2>1. Contents' = Contents /\ crashes' = crashes
    BY <1>4, QuietWorkerContents DEF Implement, RecordPlan, RecordMemory, faults
  <2>2. /\ wpc[w] # "flushing" /\ wpc'[w] # "flushing" /\ Holding(w) /\ Holding(w)'
        /\ \A v \in Workers : v # w => ~Holding(v) /\ ~Holding(v)'
    BY <1>0, <1>4, OutcomeStep
       DEF Implement, RecordPlan, RecordMemory, RecordRaises, Goto, Holding
  <2>3. \A v \in Workers : cur'[v].id = cur[v].id
    BY <1>4, OutcomeStep
  <2> QED BY <2>1, <2>2, <2>3
<1>5. ASSUME NEW w \in Workers, Store(w)
      PROVE  HeldInv'
  <2>1. /\ Holding(w) /\ wpc'[w] = "flushing" /\ Holding(w)' /\ crashes' = crashes
        /\ \A v \in Workers : v # w => wpc'[v] = wpc[v]
    BY <1>0, <1>5 DEF Store, Goto, Holding, faults
  <2>2. \A v \in Workers : v # w => ~Holding(v) /\ ~Holding(v)'
    BY <1>5, <2>1, OthersHoldNothing DEF Store, Alive, Holding
  <2> QED BY <1>5, <2>1, <2>2, StoreStep
<1>6. ASSUME NEW w \in Workers,
             ClaimFlush(w) \/ Drain(w) \/ DrainFlush(w) \/ StoreFlush(w) \/ Exit(w)
      PROVE  HeldInv'
  <2>1. Contents' = Contents /\ UNCHANGED <<crashes, cur>>
    BY <1>6, QuietWorkerContents
       DEF ClaimFlush, Drain, DrainFlush, StoreFlush, WorkerFlush, Exit, faults
  <2>2. \A v \in Workers : v # w => ~Holding(v) /\ ~Holding(v)'
    BY <1>0, <1>6, OthersHoldNothing
       DEF ClaimFlush, Drain, DrainFlush, StoreFlush, WorkerFlush, Exit, Goto, Holding, Alive
  <2>3. \/ ~Holding(w) /\ ~Holding(w)'
        \/ Holding(w) /\ Holding(w)' /\ wpc[w] # "flushing" /\ wpc'[w] # "flushing"
        \/ wpc[w] = "flushing" /\ Holding(w) /\ ~Holding(w)'
    BY <1>0, <1>6
       DEF ClaimFlush, Drain, DrainFlush, StoreFlush, WorkerFlush, Exit, Goto, Holding
  <2> QED BY <2>1, <2>2, <2>3
<1>7. CASE DumpFails
  BY <1>7, DumpFailsContents
<1>8. CASE Crash
  BY <1>0, <1>8 DEF Crash, Holding
<1>9. CASE UNCHANGED vars
  BY <1>9 DEF vars, file, threads, faults, Contents, Holding
<1> QED
  BY <1>1, <1>2, <1>3, <1>4, <1>5, <1>6, <1>7, <1>8, <1>9 DEF Next, Enqueue, WorkerStep

\* The claimed item's outcome is the run's, and is in memory before it is in the file.
LEMMA OutcomePreserved ==
  ASSUME CoreInv, HeldInv, OutcomeInv, [Next]_vars
  PROVE  OutcomeInv'
<1> USE DEF OutcomeInv, VerdictsAgree
<1>0. /\ wpc \in [Workers -> WorkerPC] /\ cur \in [Workers -> Item \cup {NoItem}]
      /\ verdict \in [Ids -> Outcomes] /\ runs \in [Ids -> Nat] /\ crashes \in Nat
      /\ memory \in [lines : SUBSET MemoryLine, torn : BOOLEAN]
      /\ \A k \in DOMAIN Contents : Contents[k].id \in Ids
      /\ \A w \in Workers : Holding(w) => cur[w].id \in Ids
  BY ItemsAreItems, ConstantsAssumption DEF CoreInv, TypeOK
<1>1. ASSUME NEW c \in Callers, NEW o \in Objectives, EnqueueAppend(c, o)
      PROVE  OutcomeInv'
  <2>1. UNCHANGED <<wpc, cur, crashes, memory, runs, verdict>>
    BY <1>1 DEF EnqueueAppend, threads, faults, records, history
  <2> QED BY <1>1, <2>1, AppendStep
<1>2. ASSUME NEW c \in Callers, EnqueueFlush(c) \/ EnqueueReturn(c)
      PROVE  OutcomeInv'
  <2>1. Contents' = Contents /\ UNCHANGED <<cur, crashes, memory, runs, verdict>>
    BY <1>2, QuietCallerContents
       DEF EnqueueFlush, EnqueueReturn, EnsureTrusts, EnsureStarts, threads, faults, records, history
  <2>2. \A w \in Workers : wpc'[w] = wpc[w] \/ wpc'[w] = "top"
    BY <1>0, <1>2 DEF EnqueueFlush, EnqueueReturn, EnsureTrusts, EnsureStarts, threads
  <2> QED BY <2>1, <2>2
<1>3. ASSUME NEW w \in Workers, Claim(w)
      PROVE  OutcomeInv'
  <2>1. /\ UNCHANGED <<crashes, memory, runs, verdict>>
        /\ wpc'[w] = "claiming" /\ \A v \in Workers : v # w => wpc'[v] = wpc[v] /\ cur'[v] = cur[v]
    BY <1>0, <1>3 DEF Claim, Goto, faults, records, history
  <2> QED BY <1>3, <2>1, ClaimStep
<1>4. ASSUME NEW w \in Workers, Store(w)
      PROVE  OutcomeInv'
  <2>1. /\ UNCHANGED <<crashes, memory, runs, verdict, cur>>
        /\ wpc[w] = "storing"
        /\ wpc'[w] = "flushing" /\ \A v \in Workers : v # w => wpc'[v] = wpc[v]
    BY <1>0, <1>4 DEF Store, Goto, faults, records, history
  <2> QED BY <1>4, <2>1, StoreStep
<1>5. ASSUME NEW w \in Workers,
             ClaimFlush(w) \/ Drain(w) \/ DrainFlush(w) \/ StoreFlush(w) \/ Exit(w)
      PROVE  OutcomeInv'
  <2>1. Contents' = Contents /\ UNCHANGED <<crashes, memory, runs, verdict, cur>>
    BY <1>5, QuietWorkerContents
       DEF ClaimFlush, Drain, DrainFlush, StoreFlush, WorkerFlush, Exit, faults, records, history
  <2>2. \A v \in Workers :
          wpc'[v] = wpc[v] \/ wpc'[v] \in {"working", "draining", "exiting", "top", "dead"}
    BY <1>0, <1>5 DEF ClaimFlush, Drain, DrainFlush, StoreFlush, WorkerFlush, Exit, Goto
  <2> QED BY <2>1, <2>2
<1>6. CASE DumpFails
  <2>1. /\ UNCHANGED <<crashes, memory, runs, verdict, cur>>
        /\ \A v \in Workers : wpc'[v] = wpc[v] \/ wpc'[v] = "exiting"
    BY <1>0, <1>6 DEF DumpFails, records, history
  <2> QED BY <1>6, <2>1, DumpFailsContents
<1>7. CASE Crash
  <2>1. Contents' = Contents \/ Contents' = <<>>
    BY <1>7, FaultContents
  <2>2. /\ crashes' # 0 /\ UNCHANGED <<runs, verdict>> /\ memory'.lines = memory.lines
        /\ \A v \in Workers : wpc'[v] = "dead"
    BY <1>0, <1>7 DEF Crash
  <2> QED BY <1>0, <2>1, <2>2
<1>8. CASE UNCHANGED vars
  BY <1>8 DEF vars, file, threads, records, faults, history, Contents
<1>9. ASSUME NEW w \in Workers, Implement(w)
      PROVE  OutcomeInv'
  <2> DEFINE i == cur[w].id
  <2>1. /\ i \in Ids /\ \A v \in Workers : cur'[v].id = cur[v].id
        /\ \A v \in Workers : v # w => ~Holding(v) /\ wpc'[v] = wpc[v]
    BY <1>9, OutcomeStep
  <2>2. /\ Contents' = Contents /\ UNCHANGED <<crashes, memory>>
        /\ \A k \in DOMAIN Contents : Contents[k].id = i => Contents[k].status = "running"
        /\ runs[i] = 0 /\ verdict[i] = "none" /\ <<i, "done">> \notin memory.lines
    <3>1. wpc[w] = "working" /\ Holding(w) /\ runs[i] = 0
      BY <1>9 DEF Implement, Holding, CoreInv, RunInv
    <3>2. Contents' = Contents /\ UNCHANGED <<crashes, memory>>
      BY <1>9, QuietWorkerContents DEF Implement, faults, records
    <3>3. \A k \in DOMAIN Contents : Contents[k].id = i => Contents[k].status = "running"
      BY <3>1 DEF HeldInv
    <3> QED BY <2>1, <3>1, <3>2, <3>3
  <2>3. PICK answer \in {"done", "failed", "raised"} :
          /\ verdict' = [verdict EXCEPT ![i] = answer]
          /\ cur' = [cur EXCEPT ![w].status = IF answer = "done" THEN "done" ELSE "failed"]
          /\ wpc' = [wpc EXCEPT ![w] = IF answer = "raised" THEN "storing" ELSE "planning"]
    BY <1>9 DEF Implement, Goto
  <2>4. cur'[w].status = IF answer = "done" THEN "done" ELSE "failed"
    <3> DEFINE st == IF answer = "done" THEN "done" ELSE "failed"
    <3>1. cur[w] \in Item /\ st \in Status
      BY <1>9, ItemsAreItems DEF Implement, Holding, Status
    <3>2. cur'[w] = [cur[w] EXCEPT !.status = st]
      BY <1>0, <2>3
    <3> HIDE DEF st
    <3>3. cur'[w].status = st
      BY <3>1, <3>2, WithNewStatus
    <3> QED BY <3>3 DEF st
  <2>5. \A j \in Ids : /\ verdict'[j] = IF j = i THEN answer ELSE verdict[j]
                       /\ runs'[j] = 0 => j # i /\ runs[j] = 0
    BY <1>0, <1>9, <2>1, <2>2, <2>3 DEF Implement
  <2>6. \A v \in Workers : v # w => wpc[v] \notin {"planning", "remembering", "storing", "flushing"}
    BY <2>1 DEF Holding
  <2> HIDE DEF i
  <2>7. wpc'[w] = IF answer = "raised" THEN "storing" ELSE "planning"
    BY <1>0, <2>3
  <2> QED
    <3>1. VerdictsAgree'
      BY <1>0, <2>2, <2>5
    <3>2. \A v \in Workers : wpc'[v] \in {"planning", "remembering", "storing", "flushing"} => v = w
      BY <2>1, <2>6
    <3>3. /\ wpc'[w] \in {"planning", "remembering"} =>
               cur'[w].status = verdict'[i] /\ <<i, "done">> \notin memory'.lines
          /\ wpc'[w] \in {"storing", "flushing"} =>
               cur'[w].status = "failed" /\ <<i, "done">> \notin memory'.lines
      BY <2>1, <2>2, <2>3, <2>4, <2>5, <2>7
    <3>4. cur'[w].id = i
      BY <2>1 DEF i
    <3>5. \A j \in Ids : runs'[j] = 0 => verdict'[j] = "none" /\ <<j, "done">> \notin memory'.lines
      BY <2>2, <2>5
    <3> QED BY <2>2, <3>1, <3>2, <3>3, <3>4, <3>5
<1>10. ASSUME NEW w \in Workers, RecordPlan(w)
       PROVE  OutcomeInv'
  <2>1. /\ \A v \in Workers : cur'[v].id = cur[v].id
        /\ \A v \in Workers : v # w => ~Holding(v) /\ wpc'[v] = wpc[v]
        /\ RecordRaises(w) => cur'[w].status = "failed"
    BY <1>10, OutcomeStep
  <2>2. Contents' = Contents /\ UNCHANGED <<crashes, memory, runs, verdict>>
    BY <1>10, QuietWorkerContents DEF RecordPlan, faults, history
  <2>3. /\ wpc[w] = "planning"
        /\ \/ wpc'[w] = "remembering" /\ cur' = cur
           \/ wpc'[w] = "storing" /\ cur'[w].status = "failed"
    BY <1>0, <1>10, <2>1 DEF RecordPlan, RecordRaises, Goto
  <2>4. \A v \in Workers : v # w => wpc'[v] \notin {"planning", "remembering", "storing", "flushing"}
    BY <2>1 DEF Holding
  <2> QED BY <2>1, <2>2, <2>3, <2>4
<1>11. ASSUME NEW w \in Workers, RecordMemory(w)
       PROVE  OutcomeInv'
  <2> DEFINE i == cur[w].id
  <2>1. /\ i \in Ids /\ \A v \in Workers : cur'[v].id = cur[v].id
        /\ \A v \in Workers : v # w => ~Holding(v) /\ wpc'[v] = wpc[v]
        /\ RecordRaises(w) => cur'[w].status = "failed"
    BY <1>11, OutcomeStep
  <2>2. Contents' = Contents /\ UNCHANGED <<crashes, runs, verdict>>
    BY <1>11, QuietWorkerContents DEF RecordMemory, faults, history
  <2>3. \A v \in Workers : v # w => wpc'[v] \notin {"planning", "remembering", "storing", "flushing"}
    BY <2>1 DEF Holding
  <2>4. /\ wpc[w] = "remembering" /\ wpc'[w] = "storing"
        /\ cur[w].status = verdict[i] /\ <<i, "done">> \notin memory.lines
        /\ \A k \in DOMAIN Contents : Contents[k].id = i => Contents[k].status = "running"
    BY <1>0, <1>11 DEF RecordMemory, RecordRaises, Goto, HeldInv, Holding
  <2>5. verdict[i] = "done" => runs[i] # 0
    BY <2>1
  <2>6. CASE RecordRaises(w) /\ UNCHANGED memory
    BY <2>1, <2>2, <2>3, <2>4, <2>6
  <2>7. CASE /\ cur' = cur /\ memory'.torn = FALSE
             /\ memory'.lines = IF memory.torn THEN memory.lines
                                ELSE memory.lines \cup {<<i, cur[w].status>>}
    <3> HIDE DEF i
    <3>1. ASSUME NEW j \in Ids
          PROVE  /\ <<j, "done">> \in memory.lines => <<j, "done">> \in memory'.lines
                 /\ <<j, "done">> \in memory'.lines =>
                      <<j, "done">> \in memory.lines \/ (j = i /\ verdict[i] = "done")
      BY <2>4, <2>7
    <3>2. VerdictsAgree'
      BY <1>0, <2>2, <2>4, <3>1
    <3>3. \A j \in Ids : runs'[j] = 0 => verdict'[j] = "none" /\ <<j, "done">> \notin memory'.lines
      BY <2>2, <2>5, <3>1
    <3>4. /\ cur'[w].status = "done" => /\ verdict'[i] = "done"
                                        /\ crashes' = 0 => <<i, "done">> \in memory'.lines
          /\ cur'[w].status = "failed" => <<i, "done">> \notin memory'.lines
      BY <2>1, <2>2, <2>4, <2>7, <3>1
    <3>5. cur'[w].id = i
      BY <2>1 DEF i
    <3>6. crashes' = 0 => ~memory'.torn
      BY <2>7
    <3>7. \A v \in Workers : wpc'[v] \in {"planning", "remembering", "storing", "flushing"}
                               => v = w /\ wpc'[v] = "storing"
      BY <2>3, <2>4
    <3> QED BY <3>2, <3>3, <3>4, <3>5, <3>6, <3>7
  <2>8. \/ RecordRaises(w) /\ UNCHANGED memory
        \/ /\ cur' = cur /\ memory'.torn = FALSE
           /\ memory'.lines = IF memory.torn THEN memory.lines
                              ELSE memory.lines \cup {<<i, cur[w].status>>}
    <3> DEFINE new == IF memory.torn THEN memory.lines
                      ELSE memory.lines \cup {<<i, cur[w].status>>}
    <3>1. \/ RecordRaises(w) /\ UNCHANGED memory
          \/ memory' = [lines |-> new, torn |-> FALSE] /\ UNCHANGED cur
      BY <1>11 DEF RecordMemory
    <3> HIDE DEF new
    <3>2. \/ RecordRaises(w) /\ UNCHANGED memory
          \/ cur' = cur /\ memory'.torn = FALSE /\ memory'.lines = new
      BY <3>1
    <3> QED BY <3>2 DEF new
  <2> QED BY <2>6, <2>7, <2>8
<1> QED
  BY <1>1, <1>2, <1>3, <1>4, <1>5, <1>6, <1>7, <1>8, <1>9, <1>10, <1>11
     DEF Next, Enqueue, WorkerStep

-----------------------------------------------------------------------------
(* The accounts are kept                                                   *)

\* At the start there is nothing to account for.
LEMMA InitAccount == Init => AccountInv
<1> SUFFICES ASSUME Init PROVE AccountInv
  OBVIOUS
<1>1. Contents = <<>>
  BY DEF Init, Contents
<1>2. KeptInv
  BY DEF Init, KeptInv
<1>3. OutcomeInv
  BY <1>1 DEF Init, OutcomeInv, VerdictsAgree
<1>4. AttendedInv
  BY <1>1 DEF Init, AttendedInv, WithStatus
<1>5. HeldInv
  BY <1>1 DEF Init, HeldInv, RunningIsHeld, WithStatus, Holding
<1> QED BY <1>2, <1>3, <1>4, <1>5 DEF AccountInv

\* The coordinator's whole invariant is inductive.  Theorem: for every number of handlers,
\* workers, items, crashes and failed writes, in every reachable state lock, threads, file
\* and runs are tied together and every item is accounted for.
THEOREM Accounts == Spec => []IInv
<1>1. Init => IInv
  BY InitCore, InitAccount DEF IInv
<1>2. IInv /\ [Next]_vars => IInv'
  BY CoreInductive, KeptPreserved, OutcomePreserved, AttendedPreserved, HeldPreserved
     DEF IInv, AccountInv
<1> QED BY <1>1, <1>2, PTL DEF Spec

\* Between any two steps of handlers, workers and faults: an accepted objective is in the
\* file unless a write was cut short; queue, run and memory agree on what is finished;
\* queued work without a worker is explained by a trusted leaving worker or a restart; and
\* only a restart leaves an item running that nobody holds.
THEOREM AccountedFor == Spec => []ItemsAreAccountedFor
<1>1. IInv => NothingLost
  BY DEF IInv, AccountInv, KeptInv, NothingLost, IdsInFile
<1>2. IInv => VerdictsAgree
  BY DEF IInv, AccountInv, OutcomeInv
<1>3. IInv => LeftBehind
  <2> SUFFICES ASSUME IInv, lock = NoOne PROVE LeftBehind
    BY DEF LeftBehind
  <2>1. Load = Contents
    BY LoadIsContents DEF IInv
  <2>2. \A c \in Callers : cpc[c] = "idle"
    BY ConstantsAssumption DEF IInv, CoreInv, LockInv
  <2> QED BY <2>1, <2>2 DEF LeftBehind, IInv, AccountInv, AttendedInv
<1>4. IInv => RunningIsHeld
  BY DEF IInv, AccountInv, HeldInv
<1>5. IInv => ItemsAreAccountedFor
  BY <1>1, <1>2, <1>3, <1>4 DEF ItemsAreAccountedFor
<1> QED BY Accounts, <1>5, PTL

-----------------------------------------------------------------------------
(* The coordinator implements the task queue                               *)

HeldIds == {cur[w].id : w \in {v \in Workers : Holding(v)}}

\* TaskStatus without its CHOOSE: what it is of an id not given out yet, of one that is
\* gone from the file, and of one in it.
StatusIs ==
  /\ TaskStatus = [i \in Ids |-> TaskStatus[i]]
  /\ \A i \in Ids : i > issued => TaskStatus[i] = "absent"
  /\ \A i \in Ids : ~(i > issued) /\ i \notin IdsInFile => TaskStatus[i] = "lost"
  /\ \A k \in DOMAIN Contents :
       /\ Contents[k].id \in Ids /\ Contents[k].id =< issued /\ Contents[k].status \in Status
       /\ TaskStatus[Contents[k].id] =
            IF Contents[k].status = "running" /\ Contents[k].id \notin HeldIds
            THEN "orphaned" ELSE Contents[k].status

\* It is that of every item because ids are unique in the file.
LEMMA StatusFacts == CoreInv => StatusIs
<1> SUFFICES ASSUME CoreInv PROVE StatusIs
  OBVIOUS
<1>1. /\ \A k \in DOMAIN Contents : Contents[k] \in Item /\ Contents[k].id \in Ids
      /\ \A k \in DOMAIN Contents : Contents[k].id =< issued
      /\ issued \in Nat /\ Ids \subseteq Nat
  BY ItemsAreItems, ConstantsAssumption DEF CoreInv, FileInv, TypeOK, Ids
<1>2. TaskStatus = [i \in Ids |-> TaskStatus[i]]
  BY DEF TaskStatus
<1>3. \A i \in Ids : i > issued => TaskStatus[i] = "absent"
  BY DEF TaskStatus
<1>4. \A i \in Ids : ~(i > issued) /\ i \notin IdsInFile => TaskStatus[i] = "lost"
  BY <1>1 DEF TaskStatus, IdsInFile
<1>5. ASSUME NEW k \in DOMAIN Contents
      PROVE  TaskStatus[Contents[k].id] =
               IF Contents[k].status = "running" /\ Contents[k].id \notin HeldIds
               THEN "orphaned" ELSE Contents[k].status
  <2>1. \A j \in DOMAIN Contents : Contents[j].id = Contents[k].id <=> j = k
    BY IdsAreUnique
  <2>2. (CHOOSE j \in DOMAIN Contents : Contents[j].id = Contents[k].id) = k
    BY <2>1
  <2>3. Contents[k].id \in HeldIds <=> \E w \in Workers : Holding(w) /\ cur[w].id = Contents[k].id
    BY DEF HeldIds
  <2>4. ~(Contents[k].id > issued) /\ Contents[k].id \in Ids
    <3>1. Contents[k].id \in Nat
      BY <1>1
    <3> QED BY <1>1, <3>1
  <2> QED BY <2>2, <2>3, <2>4 DEF TaskStatus
<1> QED BY <1>1, <1>2, <1>3, <1>4, <1>5 DEF StatusIs, Item

\* The same of the state a step leads to.
LEMMA StatusFactsAfter == CoreInv' => StatusIs'
BY StatusFacts, PTL

\* A step that leaves the file, and who holds the running items in it, is none to the tasks.
LEMMA SameStatus ==
  ASSUME StatusIs, StatusIs', issued' = issued, Contents' = Contents,
         \A k \in DOMAIN Contents : Contents[k].status = "running" =>
           (Contents[k].id \in HeldIds' <=> Contents[k].id \in HeldIds)
  PROVE  TaskStatus' = TaskStatus
<1>1. IdsInFile' = IdsInFile
  BY DEF IdsInFile
<1>2. ASSUME NEW i \in Ids
      PROVE  TaskStatus'[i] = TaskStatus[i]
  <2>1. CASE i > issued
    BY <2>1 DEF StatusIs
  <2>2. CASE ~(i > issued) /\ i \notin IdsInFile
    BY <1>1, <2>2 DEF StatusIs
  <2>3. CASE i \in IdsInFile
    BY <2>3 DEF StatusIs, IdsInFile
  <2> QED BY <2>1, <2>2, <2>3
<1> QED BY <1>2 DEF StatusIs

\* Enqueueing an item submits the next task.
LEMMA AppendSubmits ==
  ASSUME CoreInv, CoreInv', NEW c \in Callers, NEW o \in Objectives, EnqueueAppend(c, o)
  PROVE  Tasks!Submit(issued + 1) /\ issued + 1 \in Tasks!Task
<1>0. /\ StatusIs /\ StatusIs' /\ issued \in Nat /\ Ids \subseteq Nat
      /\ HeldIds' = HeldIds
  <2>1. issued \in Nat /\ Ids \subseteq Nat
    BY ConstantsAssumption DEF CoreInv, TypeOK, Ids
  <2>2. HeldIds' = HeldIds
    BY DEF EnqueueAppend, threads, HeldIds, Holding
  <2> QED BY <2>1, <2>2, StatusFacts, StatusFactsAfter
<1>1. /\ issued' = issued + 1 /\ issued + 1 \in Ids
      /\ IdsInFile' = IdsInFile \cup {issued + 1}
      /\ \A k \in DOMAIN Contents : k \in DOMAIN Contents' /\ Contents'[k] = Contents[k]
      /\ \E k \in DOMAIN Contents' : Contents'[k].id = issued + 1 /\ Contents'[k].status = "queued"
  BY AppendStep DEF IdsInFile
<1>2. ASSUME NEW i \in Ids
      PROVE  TaskStatus'[i] = IF i = issued + 1 THEN "queued" ELSE TaskStatus[i]
  <2>0. i \in Nat
    BY <1>0
  <2>1. CASE i > issued + 1
    BY <1>0, <1>1, <2>0, <2>1 DEF StatusIs
  <2>2. CASE i = issued + 1
    BY <1>0, <1>1, <2>2 DEF StatusIs
  <2>3. CASE i \in IdsInFile
    <3>1. PICK k \in DOMAIN Contents : Contents[k].id = i
      BY <2>3 DEF IdsInFile
    <3>2. i # issued + 1
      BY <1>0, <2>0, <3>1 DEF StatusIs
    <3> QED BY <1>0, <1>1, <3>1, <3>2 DEF StatusIs
  <2>4. CASE i =< issued /\ i \notin IdsInFile
    <3>1. i # issued + 1 /\ ~(i > issued) /\ ~(i > issued + 1)
      BY <1>0, <2>0, <2>4
    <3> QED BY <1>0, <1>1, <2>4, <3>1 DEF StatusIs
  <2> QED BY <1>0, <2>0, <2>1, <2>2, <2>3, <2>4
<1>3. TaskStatus' = [TaskStatus EXCEPT ![issued + 1] = "queued"]
  BY <1>0, <1>2 DEF StatusIs
<1>4. Tasks!Task = Ids
  BY DEF Tasks!Task, Ids
<1>5. TaskStatus[issued + 1] = "absent"
  BY <1>0, <1>1 DEF StatusIs
<1>6. ASSUME NEW j \in Ids, TaskStatus[j] = "absent"
      PROVE  issued + 1 =< j
  <2>0. j \in Nat
    BY <1>0
  <2>1. j \in IdsInFile => TaskStatus[j] # "absent"
    BY <1>0 DEF StatusIs, IdsInFile, Status
  <2>2. j > issued
    BY <1>0, <1>6, <2>1 DEF StatusIs
  <2> QED BY <1>0, <2>0, <2>2
<1> QED BY <1>1, <1>3, <1>4, <1>5, <1>6 DEF Tasks!Submit, Tasks!Having

\* A claim starts the first queued task; no other is running.
LEMMA ClaimStarts ==
  ASSUME CoreInv, CoreInv', NEW w \in Workers, Claim(w)
  PROVE  \E i \in Tasks!Task : Tasks!Start(i)
<1>0. /\ StatusIs /\ StatusIs' /\ issued' = issued
      /\ wpc \in [Workers -> WorkerPC] /\ cur \in [Workers -> Item \cup {NoItem}]
  BY StatusFacts, StatusFactsAfter DEF CoreInv, TypeOK, Claim
<1>1. PICK k \in DOMAIN Contents :
        /\ Contents[k].status = "queued"
        /\ \A j \in WithStatus(Contents, "queued") : k =< j
        /\ cur'[w].id = Contents[k].id
        /\ DOMAIN Contents' = DOMAIN Contents
        /\ Contents'[k].id = Contents[k].id /\ Contents'[k].status = "running"
        /\ \A j \in DOMAIN Contents :
             j # k => Contents'[j] = Contents[j] /\ Contents[j].id # Contents[k].id
  BY ClaimStep
<1> DEFINE n == Contents[k].id
<1>2. HeldIds = {} /\ HeldIds' = {n}
  <2>1. \A v \in Workers : ~Holding(v)
    BY <1>0, OthersHoldNothing DEF Claim, Alive, Holding
  <2>2. /\ wpc'[w] = "claiming" /\ \A v \in Workers : v # w => wpc'[v] = wpc[v]
    BY <1>0 DEF Claim, Goto
  <2>3. \A v \in Workers : Holding(v)' <=> v = w
    BY <2>1, <2>2 DEF Holding
  <2> QED BY <1>1, <2>1, <2>3 DEF HeldIds
<1>3. IdsInFile' = IdsInFile /\ n \in IdsInFile /\ n \in Ids
  BY <1>0, <1>1 DEF IdsInFile, StatusIs
<1>4. ASSUME NEW i \in Ids
      PROVE  TaskStatus'[i] = IF i = n THEN "running" ELSE TaskStatus[i]
  <2>1. CASE i = n
    BY <1>0, <1>1, <1>2, <2>1 DEF StatusIs
  <2>2. CASE i > issued /\ i # n
    BY <1>0, <2>2 DEF StatusIs
  <2>3. CASE ~(i > issued) /\ i \notin IdsInFile
    BY <1>0, <1>3, <2>3 DEF StatusIs
  <2>4. CASE i \in IdsInFile /\ i # n
    <3>1. PICK j \in DOMAIN Contents : Contents[j].id = i
      BY <2>4 DEF IdsInFile
    <3>2. j # k /\ Contents'[j] = Contents[j] /\ j \in DOMAIN Contents'
      BY <1>1, <2>4, <3>1
    <3>3. i \notin HeldIds /\ i \notin HeldIds'
      BY <1>2, <2>4
    <3> QED BY <1>0, <2>4, <3>1, <3>2, <3>3 DEF StatusIs
  <2> QED BY <2>1, <2>2, <2>3, <2>4
<1>5. TaskStatus' = [TaskStatus EXCEPT ![n] = "running"]
  BY <1>0, <1>4 DEF StatusIs
<1>6. TaskStatus[n] = "queued"
  BY <1>0, <1>1 DEF StatusIs
<1>7. \A i \in Ids : TaskStatus[i] # "running"
  <2> SUFFICES ASSUME NEW i \in Ids, TaskStatus[i] = "running" PROVE FALSE
    OBVIOUS
  <2>1. i \in IdsInFile
    BY <1>0 DEF StatusIs
  <2>2. PICK j \in DOMAIN Contents : Contents[j].id = i
    BY <2>1 DEF IdsInFile
  <2> QED BY <1>0, <1>2, <2>2 DEF StatusIs
<1>8. ASSUME NEW i \in Ids, TaskStatus[i] = "queued"
      PROVE  n =< i
  <2>1. i \in IdsInFile
    BY <1>0, <1>8 DEF StatusIs
  <2>2. PICK j \in DOMAIN Contents : Contents[j].id = i
    BY <2>1 DEF IdsInFile
  <2>3. Contents[j].status = "queued"
    BY <1>0, <1>8, <2>2 DEF StatusIs
  <2>4. k = j \/ k < j
    <3>1. j \in Nat /\ k \in Nat
      BY ContentsType DEF CoreInv
    <3> QED BY <1>1, <2>3, <3>1 DEF WithStatus
  <2>5. i \in Nat /\ n \in Nat
    BY <1>3, ConstantsAssumption DEF Ids
  <2> QED BY <2>2, <2>4, <2>5 DEF CoreInv, FileInv, FileInOrder
<1>9. Tasks!Task = Ids
  BY DEF Tasks!Task, Ids
<1> HIDE DEF n
<1> QED BY <1>3, <1>5, <1>6, <1>7, <1>8, <1>9 DEF Tasks!Start, Tasks!Having

\* Writing the outcome back finishes the task, unless a cut write has lost it.
LEMMA StoreFinishes ==
  ASSUME CoreInv, CoreInv', HeldInv, NEW w \in Workers, Store(w)
  PROVE  TaskStatus' = TaskStatus \/ \E i \in Tasks!Task : Tasks!Finish(i)
<1> DEFINE n == cur[w].id
           st == cur[w].status
<1>0. /\ StatusIs /\ StatusIs' /\ issued' = issued
      /\ wpc \in [Workers -> WorkerPC] /\ n \in Ids /\ Holding(w) /\ wpc[w] = "storing"
  BY StatusFacts, StatusFactsAfter, ItemsAreItems DEF CoreInv, TypeOK, Store, Holding
<1>1. /\ DOMAIN Contents' = DOMAIN Contents
      /\ \A k \in DOMAIN Contents :
           /\ Contents'[k].id = Contents[k].id
           /\ Contents[k].id = n => Contents'[k].status = st
           /\ Contents[k].id # n => Contents'[k] = Contents[k]
      /\ st \in {"done", "failed"} /\ UNCHANGED cur
  BY StoreStep
<1>2. HeldIds' = HeldIds /\ n \in HeldIds
  <2>1. \A v \in Workers : Holding(v)' <=> Holding(v)
    BY <1>0 DEF Store, Goto, Holding
  <2> QED BY <1>0, <1>1, <2>1 DEF HeldIds
<1>3. IdsInFile' = IdsInFile
  BY <1>1 DEF IdsInFile
<1> HIDE DEF n, st
<1>4. ASSUME NEW i \in Ids, i # n \/ n \notin IdsInFile
      PROVE  TaskStatus'[i] = TaskStatus[i]
  <2>1. CASE i > issued
    BY <1>0, <2>1 DEF StatusIs
  <2>2. CASE ~(i > issued) /\ i \notin IdsInFile
    BY <1>0, <1>3, <2>2 DEF StatusIs
  <2>3. CASE i \in IdsInFile
    <3>1. PICK j \in DOMAIN Contents : Contents[j].id = i
      BY <2>3 DEF IdsInFile
    <3>2. Contents'[j] = Contents[j] /\ j \in DOMAIN Contents'
      BY <1>1, <1>4, <2>3, <3>1
    <3> QED BY <1>0, <1>2, <3>1, <3>2 DEF StatusIs
  <2> QED BY <2>1, <2>2, <2>3
<1>5. CASE n \notin IdsInFile
  BY <1>0, <1>4, <1>5 DEF StatusIs
<1>6. CASE n \in IdsInFile
  <2>1. PICK k \in DOMAIN Contents : Contents[k].id = n
    BY <1>6 DEF IdsInFile
  <2>2. Contents[k].status = "running"
    BY <1>0, <2>1 DEF HeldInv, n
  <2>3. TaskStatus[n] = "running"
    BY <1>0, <1>2, <2>1, <2>2 DEF StatusIs
  <2>4. TaskStatus'[n] = st
    BY <1>0, <1>1, <2>1 DEF StatusIs
  <2>5. TaskStatus' = [TaskStatus EXCEPT ![n] = st]
    BY <1>0, <1>4, <2>4 DEF StatusIs
  <2>6. Tasks!Task = Ids
    BY DEF Tasks!Task, Ids
  <2> QED BY <1>0, <1>1, <2>3, <2>5, <2>6 DEF Tasks!Finish
<1> QED BY <1>5, <1>6

\* A fault loses all tasks with the file, or orphans the running one with its worker.
LEMMA FaultIsAllowed ==
  ASSUME CoreInv, CoreInv', DumpFails \/ Crash
  PROVE  Tasks!LoseAll \/ Tasks!Restart
<1>0. /\ StatusIs /\ StatusIs' /\ issued' = issued
      /\ Tasks!Task = Ids
  BY StatusFacts, StatusFactsAfter DEF DumpFails, Crash, Tasks!Task, Ids
<1>1. \A i \in Ids : TaskStatus[i] = "absent" <=> i > issued
  <2> TAKE i \in Ids
  <2>1. CASE i \in IdsInFile
    <3>1. PICK k \in DOMAIN Contents : Contents[k].id = i
      BY <2>1 DEF IdsInFile
    <3>2. ~(i > issued)
      BY <1>0, <3>1, ConstantsAssumption, SMTT(60) DEF StatusIs, CoreInv, TypeOK, Ids
    <3> QED BY <1>0, <3>1, <3>2 DEF StatusIs, Status
  <2>2. CASE i \notin IdsInFile
    BY <1>0, <2>2 DEF StatusIs
  <2> QED BY <2>1, <2>2
<1>2. CASE Contents' = <<>>
  <2>1. IdsInFile' = {}
    BY <1>2 DEF IdsInFile
  <2>2. \A i \in Ids : TaskStatus'[i] = IF TaskStatus[i] = "absent" THEN "absent" ELSE "lost"
    BY <1>0, <1>1, <2>1 DEF StatusIs
  <2>3. TaskStatus' = [i \in Ids |-> IF TaskStatus[i] = "absent" THEN "absent" ELSE "lost"]
    BY <1>0, <2>2 DEF StatusIs
  <2> QED BY <1>0, <2>3 DEF Tasks!LoseAll
<1>3. CASE Crash /\ Contents' = Contents
  <2>1. HeldIds' = {} /\ IdsInFile' = IdsInFile
    BY <1>3 DEF Crash, HeldIds, Holding, IdsInFile
  <2>2. ASSUME NEW i \in Ids
        PROVE  TaskStatus'[i] = IF TaskStatus[i] = "running" THEN "orphaned" ELSE TaskStatus[i]
    <3>1. CASE i \in IdsInFile
      <4>1. PICK k \in DOMAIN Contents : Contents[k].id = i
        BY <3>1 DEF IdsInFile
      <4> QED BY <1>0, <1>3, <2>1, <4>1 DEF StatusIs
    <3>2. CASE i \notin IdsInFile
      BY <1>0, <2>1, <3>2 DEF StatusIs
    <3> QED BY <3>1, <3>2
  <2>3. TaskStatus' = [i \in Ids |-> IF TaskStatus[i] = "running" THEN "orphaned" ELSE TaskStatus[i]]
    BY <1>0, <2>2 DEF StatusIs
  <2> QED BY <1>0, <2>3 DEF Tasks!Restart
<1> QED BY <1>2, <1>3, FaultContents, DumpFailsContents

\* Every step of the coordinator is one of the task queue, or none.
LEMMA StepRefines ==
  ASSUME CoreInv, CoreInv', HeldInv, [Next]_vars
  PROVE  [Tasks!Next]_TaskStatus
<1>0. /\ StatusIs /\ StatusIs' /\ wpc \in [Workers -> WorkerPC]
      /\ cur \in [Workers -> Item \cup {NoItem}]
  BY StatusFacts, StatusFactsAfter DEF CoreInv, TypeOK
<1>1. ASSUME NEW c \in Callers, NEW o \in Objectives, EnqueueAppend(c, o)
      PROVE  Tasks!Next
  BY <1>1, AppendSubmits DEF Tasks!Next
<1>2. ASSUME NEW c \in Callers, EnqueueFlush(c) \/ EnqueueReturn(c)
      PROVE  TaskStatus' = TaskStatus
  <2>1. Contents' = Contents /\ issued' = issued /\ cur' = cur
    BY <1>2, QuietCallerContents
       DEF EnqueueFlush, EnqueueReturn, EnsureTrusts, EnsureStarts, threads
  <2>2. \A w \in Workers : Holding(w)' <=> Holding(w)
    BY <1>0, <1>2 DEF EnqueueFlush, EnqueueReturn, EnsureTrusts, EnsureStarts, threads, Holding
  <2>3. HeldIds' = HeldIds
    BY <2>1, <2>2 DEF HeldIds
  <2> QED BY <1>0, <2>1, <2>3, SameStatus
<1>3. ASSUME NEW w \in Workers, Claim(w)
      PROVE  Tasks!Next
  BY <1>3, ClaimStarts DEF Tasks!Next
<1>4. ASSUME NEW w \in Workers, Store(w)
      PROVE  [Tasks!Next]_TaskStatus
  BY <1>4, StoreFinishes DEF Tasks!Next
<1>5. ASSUME NEW w \in Workers, Implement(w) \/ RecordPlan(w) \/ RecordMemory(w)
      PROVE  TaskStatus' = TaskStatus
  <2>1. Contents' = Contents /\ issued' = issued
    BY <1>5, QuietWorkerContents DEF Implement, RecordPlan, RecordMemory
  <2>2. \A v \in Workers : (Holding(v)' <=> Holding(v)) /\ cur'[v].id = cur[v].id
    BY <1>0, <1>5, OutcomeStep DEF Implement, RecordPlan, RecordMemory, RecordRaises, Goto, Holding
  <2>3. HeldIds' = HeldIds
    BY <2>2 DEF HeldIds
  <2> QED BY <1>0, <2>1, <2>3, SameStatus
<1>6. ASSUME NEW w \in Workers,
             ClaimFlush(w) \/ Drain(w) \/ DrainFlush(w) \/ StoreFlush(w) \/ Exit(w)
      PROVE  TaskStatus' = TaskStatus
  <2>1. Contents' = Contents /\ issued' = issued /\ cur' = cur
    BY <1>6, QuietWorkerContents DEF ClaimFlush, Drain, DrainFlush, StoreFlush, WorkerFlush, Exit
  <2>2. \A v \in Workers : \/ Holding(v)' <=> Holding(v)
                           \/ Holding(v) /\ wpc[v] = "flushing" /\ ~Holding(v)'
    BY <1>0, <1>6
       DEF ClaimFlush, Drain, DrainFlush, StoreFlush, WorkerFlush, Exit, Goto, Holding
  <2>3. ASSUME NEW k \in DOMAIN Contents, Contents[k].status = "running"
        PROVE  Contents[k].id \in HeldIds' <=> Contents[k].id \in HeldIds
    <3>1. \A v \in Workers : cur[v].id = Contents[k].id => (Holding(v)' <=> Holding(v))
      BY <2>2, <2>3 DEF HeldInv
    <3> QED BY <2>1, <3>1 DEF HeldIds
  <2> QED BY <1>0, <2>1, <2>3, SameStatus
<1>7. CASE DumpFails \/ Crash
  BY <1>7, FaultIsAllowed DEF Tasks!Next
<1>8. CASE UNCHANGED vars
  BY <1>8 DEF vars, file, threads, TaskStatus, Contents, Holding
<1> QED
  BY <1>1, <1>2, <1>3, <1>4, <1>5, <1>6, <1>7, <1>8 DEF Next, Enqueue, WorkerStep

\* The coordinator, with its file, lock and threads and for every number of them, does only
\* what a task queue does: objectives run one at a time in the order of their enqueues, each
\* to one final outcome; a cut write loses them all and a restart orphans the running one.
THEOREM Refines == Spec => ImplementsTaskQueue
<1>1. Init => Tasks!Init
  <2> SUFFICES ASSUME Init PROVE Tasks!Init
    OBVIOUS
  <2>1. \A i \in Ids : i > issued
    BY ConstantsAssumption DEF Init, Ids
  <2> QED BY <2>1 DEF Tasks!Init, Tasks!Task, TaskStatus, Ids
<1>2. IInv /\ IInv' /\ [Next]_vars => [Tasks!Next]_TaskStatus
  BY StepRefines DEF IInv, AccountInv
<1> QED BY <1>1, <1>2, Accounts, PTL DEF Spec, ImplementsTaskQueue, Tasks!Spec

=============================================================================
