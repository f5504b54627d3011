--------------------------- MODULE EvolutionEngine ---------------------------
(***************************************************************************)
(* EvolutionEngine (clawai/evolution/engine.py): cycles that turn          *)
(* candidate improvements into a backlog file and feed it, one objective   *)
(* at a time, to the objective queue.                                      *)
(*                                                                         *)
(* A cycle (run_once) is run by the engine's own thread and by requests;   *)
(* requests may also rebuild the backlog.  None of them holds a lock       *)
(* across its steps.  The queue is taken at the level of TaskQueue: tasks  *)
(* are started one at a time in order and finish once, and a restart       *)
(* leaves the running one as it is for ever; a cut write loses them all.   *)
(***************************************************************************)
EXTENDS Integers, Sequences, FiniteSets

CONSTANTS
  Objectives,      \* what the analysis may come to propose
  Lacks,           \* what the installation has too little of: each is an objective
  Repositories,    \* what a scan of the repository may find: each finding is one too
  Advices,         \* what the cognition broker may recommend to improve, or nothing
  Tests, Observability, \* objectives of their own
  Engine,          \* the thread of _worker_loop
  Requests,        \* request threads: run-once and rebuild
  RunOnceRequests, \* those of them that call run-once
  LostWakeups,     \* may an enqueue trust a queue worker that is leaving?
  MaxQueue,        \* bound: queue entries
  MaxFaults,       \* bound: reads that meet a file half written, writes that raise
  MaxCrashes       \* bound: process restarts

Cyclers == {Engine} \cup RunOnceRequests

ASSUME ConstantsAssumption ==
  /\ Lacks \cup (UNION Repositories) \cup (UNION Advices) \cup {Tests} \subseteq Objectives
  /\ Lacks = {} /\ {} \in Repositories /\ {} \in Advices => Observability \in Objectives
  /\ Engine \notin Requests /\ RunOnceRequests \subseteq Requests /\ IsFiniteSet(Requests)
  /\ LostWakeups \in BOOLEAN
  /\ MaxQueue \in Nat /\ MaxFaults \in Nat /\ MaxCrashes \in Nat

Status == {"pending", "queued", "running", "done", "failed"}
Threads == {Engine} \cup Requests
Entry == [objective : Objectives, status : {"queued", "running", "orphaned", "done", "failed"}]
\* A backlog maps the objectives in it to their status.
Absent == "absent"
Backlog == [Objectives -> Status \cup {Absent}]
Empty == [o \in Objectives |-> Absent]

VARIABLES
  backlog,   \* backlog.json
  queue,     \* the autonomy queue: sequence of [objective, status]
  served,    \* the queue has a worker that will look at it
  pc,        \* thread -> where in run_once or rebuild_backlog it is
  mine,      \* thread -> its backlog in memory
  pick,      \* thread -> the objective _queue_next is about to enqueue
  enabled, stopping,  \* state.enabled, _stop_event
  alive,     \* the engine's thread is alive
  crashes,
  lost,      \* history: a write of the queue file was cut short
  faults,
  torn,      \* history: a read met a file half written
  unattended \* history: start() trusted a thread that was told to stop, or
             \* the process restarted while enabled

engine == <<enabled, stopping, alive, unattended>>
vars == <<backlog, queue, served, pc, mine, pick, engine, crashes, lost, faults, torn>>

Init ==
  /\ backlog = Empty /\ queue = <<>> /\ served = FALSE
  /\ pc = [t \in Threads |-> "idle"]
  /\ mine = [t \in Threads |-> Empty]
  /\ pick = [t \in Threads |-> Absent]
  /\ enabled = FALSE /\ stopping = FALSE /\ alive = FALSE /\ unattended = FALSE
  /\ crashes = 0 /\ lost = FALSE /\ faults = 0 /\ torn = FALSE

-----------------------------------------------------------------------------
(* The queue, as AutonomyCoordinator promises it                           *)

\* An orphaned entry, left behind by a restart, still says running.
Says(entry) == IF entry.status = "orphaned" THEN "running" ELSE entry.status
Active(q) == {k \in DOMAIN q : Says(q[k]) \in {"queued", "running"}}

\* Mutants of Busy: the queue is not looked at, or finished entries count.
NeverBusy(q) == FALSE
BusyWithAnything(q) == q # <<>>

\* queue_size() > 0
Busy(q) == Active(q) # {}

\* list_queue and queue_size take no lock: a file that is being written reads
\* as an empty queue.
Seen == {queue} \cup (IF faults < MaxFaults THEN {<<>>} ELSE {})

Torn(misread) ==
  faults' = faults + (IF misread THEN 1 ELSE 0) /\ torn' = (torn \/ misread)

\* The coordinator's worker claims the first queued entry, finishes it, and
\* leaves when there is none.
QueueStart ==
  /\ served
  /\ \A k \in DOMAIN queue : queue[k].status # "running"
  /\ \E k \in DOMAIN queue :
       /\ queue[k].status = "queued"
       /\ \A j \in 1..(k - 1) : queue[j].status # "queued"
       /\ queue' = [queue EXCEPT ![k].status = "running"]
  /\ UNCHANGED <<backlog, served, pc, mine, pick, engine, crashes, lost, faults, torn>>

QueueFinish ==
  /\ \E k \in DOMAIN queue : \E st \in {"done", "failed"} :
       /\ queue[k].status = "running"
       /\ queue' = [queue EXCEPT ![k].status = st]
  /\ UNCHANGED <<backlog, served, pc, mine, pick, engine, crashes, lost, faults, torn>>

\* enqueue makes sure of a worker, or trusts one that is leaving.
Enqueue(o) ==
  /\ queue' = Append(queue, [objective |-> o, status |-> "queued"])
  /\ served' \in {TRUE} \cup (IF LostWakeups /\ Active(queue) = {} THEN {FALSE} ELSE {})

-----------------------------------------------------------------------------
(* run_once                                                                *)

Goto(t, l) == pc' = [pc EXCEPT ![t] = l]

\* The cycle or rebuild is over: its local state is gone.
Rest(t) ==
  /\ Goto(t, "resting")
  /\ mine' = [mine EXCEPT ![t] = Empty] /\ pick' = [pick EXCEPT ![t] = Absent]

\* Threads about to write the backlog file, and what _load_backlog may make of
\* it while one does.
Saving == {t \in Threads : pc[t] \in {"saving", "saving again", "replacing"}}
Known == {backlog} \cup (IF faults < MaxFaults /\ Saving # {} THEN {Empty} ELSE {})

\* analyze_project: an objective for all that is lacking, found or recommended, for the
\* tests of the cognitive layer as long as nothing was ever queued, and for want of any
\* other to make the cycle easier to watch.
Proposed(found, advice, q) ==
  LET reasons == Lacks \cup found \cup advice \cup (IF q = <<>> THEN {Tests} ELSE {})
  IN IF reasons = {} THEN {Observability} ELSE reasons
Analyses(q) == {Proposed(found, advice, q) : found \in Repositories, advice \in Advices}

\* The analysis proposes some candidates; what the backlog file knows of them
\* and what else it has is kept.
Merge(t) ==
  /\ pc[t] = "analyzing"
  /\ \E q \in Seen, known \in Known : \E candidates \in Analyses(q) :
       /\ mine' = [mine EXCEPT ![t] = [o \in Objectives |->
                     IF known[o] # Absent THEN known[o]
                     ELSE IF o \in candidates THEN "pending" ELSE Absent]]
       /\ Torn(<<q, known>> # <<queue, backlog>>)
  /\ Goto(t, "syncing")
  /\ UNCHANGED <<backlog, queue, served, pick, engine, crashes, lost>>

\* The analysis raises: the cycle ends, and its record is written twice.
CycleRaises(t) ==
  /\ pc[t] = "analyzing"
  /\ Rest(t)
  /\ UNCHANGED <<backlog, queue, served, engine, crashes, lost, faults, torn>>

\* A write raises, of the backlog or of the queue inside enqueue, and may
\* leave its file cut short: the cycle or rebuild ends.
WriteRaises(t) ==
  /\ faults < MaxFaults /\ faults' = faults + 1
  /\ \/ t \in Saving /\ backlog' \in {backlog, Empty} /\ UNCHANGED <<queue, lost>>
     \/ /\ pc[t] = "enqueuing" /\ Len(queue) < MaxQueue
        /\ queue' \in {queue, <<>>} /\ lost' = (lost \/ queue' # queue)
        /\ UNCHANGED backlog
  /\ Rest(t)
  /\ UNCHANGED <<served, engine, crashes, torn>>

\* Mutant of Synced: finished entries are not looked at.
SyncedWithActive(items, q) ==
  [o \in Objectives |->
     LET entries == {k \in Active(q) : q[k].objective = o} IN
     IF items[o] = Absent \/ entries = {} THEN items[o]
     ELSE Says(q[CHOOSE k \in entries : \A j \in entries : j =< k])]

\* _sync_backlog_with_queue: an item takes the status of its last queue entry.
Synced(items, q) ==
  [o \in Objectives |->
     LET entries == {k \in DOMAIN q : q[k].objective = o} IN
     IF items[o] = Absent \/ entries = {} THEN items[o]
     ELSE Says(q[CHOOSE k \in entries : \A j \in entries : j =< k])]

Sync(t) ==
  /\ pc[t] = "syncing"
  /\ \E q \in Seen : /\ mine' = [mine EXCEPT ![t] = Synced(mine[t], q)]
                     /\ Torn(q # queue)
  /\ Goto(t, "saving")
  /\ UNCHANGED <<backlog, queue, served, pick, engine, crashes, lost>>

Save(t) ==
  /\ pc[t] = "saving"
  /\ backlog' = mine[t]
  /\ Goto(t, "checking")
  /\ UNCHANGED <<queue, served, mine, pick, engine, crashes, lost, faults, torn>>

Pending(t) == {o \in Objectives : mine[t][o] = "pending"}

\* _queue_next: nothing pending, or something active in the queue it sees.
QueueNothing(t) ==
  /\ pc[t] = "checking"
  /\ Pending(t) = {} \/ \E q \in Seen : Busy(q)
  /\ Rest(t)
  /\ UNCHANGED <<backlog, queue, served, engine, crashes, lost, faults, torn>>

\* Mutant of ChooseItem: the item is saved as queued before it is.
ChooseItemEarly(t) ==
  /\ pc[t] = "checking"
  /\ \E q \in Seen : ~Busy(q) /\ Torn(q # queue)
  /\ \E o \in Pending(t) : /\ pick' = [pick EXCEPT ![t] = o]
                          /\ backlog' = [mine[t] EXCEPT ![o] = "queued"]
  /\ Goto(t, "enqueuing")
  /\ UNCHANGED <<queue, served, mine, engine, crashes, lost>>

\* _queue_next: the queue it sees is idle; the best pending item is chosen
\* (which one that is, is data).
ChooseItem(t) ==
  /\ pc[t] = "checking"
  /\ \E q \in Seen : ~Busy(q) /\ Torn(q # queue)
  /\ \E o \in Pending(t) : pick' = [pick EXCEPT ![t] = o]
  /\ Goto(t, "enqueuing")
  /\ UNCHANGED <<backlog, queue, served, mine, engine, crashes, lost>>

EnqueueItem(t) ==
  /\ pc[t] = "enqueuing" /\ Len(queue) < MaxQueue
  /\ Enqueue(pick[t])
  /\ mine' = [mine EXCEPT ![t][pick[t]] = "queued"]
  /\ Goto(t, "saving again")
  /\ UNCHANGED <<backlog, pick, engine, crashes, lost, faults, torn>>

SaveQueued(t) ==
  /\ pc[t] = "saving again"
  /\ backlog' = mine[t]
  /\ Rest(t)
  /\ UNCHANGED <<queue, served, engine, crashes, lost, faults, torn>>

RunOnce(t) ==
  \/ Merge(t) \/ CycleRaises(t) \/ WriteRaises(t) \/ Sync(t) \/ Save(t)
  \/ QueueNothing(t) \/ ChooseItem(t) \/ EnqueueItem(t) \/ SaveQueued(t)

-----------------------------------------------------------------------------
(* Requests                                                                *)

RequestCycle(t) ==
  /\ t \in RunOnceRequests /\ pc[t] = "idle"
  /\ Goto(t, "analyzing")
  /\ UNCHANGED <<backlog, queue, served, mine, pick, engine, crashes, lost, faults, torn>>

\* rebuild_backlog: the candidates alone, synced with the queue, ...
Rebuild(t) ==
  /\ t \in Requests /\ pc[t] = "idle"
  /\ \E q, r \in Seen : \E candidates \in Analyses(q) :
       /\ mine' = [mine EXCEPT ![t] =
            Synced([o \in Objectives |-> IF o \in candidates THEN "pending" ELSE Absent], r)]
       /\ Torn(<<q, r>> # <<queue, queue>>)
  /\ Goto(t, "replacing")
  /\ UNCHANGED <<backlog, queue, served, pick, engine, crashes, lost>>

\* ... replace the backlog file.
Replace(t) ==
  /\ pc[t] = "replacing"
  /\ backlog' = mine[t]
  /\ Rest(t)
  /\ UNCHANGED <<queue, served, engine, crashes, lost, faults, torn>>

RequestEnds(t) ==
  /\ t \in Requests /\ pc[t] = "resting"
  /\ Goto(t, "idle")
  /\ UNCHANGED <<backlog, queue, served, mine, pick, engine, crashes, lost, faults, torn>>

-----------------------------------------------------------------------------
(* start, stop and the engine's thread                                     *)

\* Mutant of Start: the stop event is not cleared.
StartStillStopped ==
  /\ enabled' = TRUE
  /\ IF alive
     THEN unattended' = (unattended \/ stopping) /\ UNCHANGED <<stopping, alive, pc>>
     ELSE /\ alive' = TRUE /\ unattended' = FALSE /\ UNCHANGED stopping
          /\ Goto(Engine, "looping")
  /\ UNCHANGED <<backlog, queue, served, mine, pick, crashes, lost, faults, torn>>

\* A live thread is trusted; otherwise the stop event is cleared and a new
\* thread starts.
Start ==
  /\ enabled' = TRUE
  /\ IF alive
     THEN unattended' = (unattended \/ stopping) /\ UNCHANGED <<stopping, alive, pc>>
     ELSE /\ stopping' = FALSE /\ alive' = TRUE /\ unattended' = FALSE
          /\ Goto(Engine, "looping")
  /\ UNCHANGED <<backlog, queue, served, mine, pick, crashes, lost, faults, torn>>

Stop ==
  /\ enabled' = FALSE /\ stopping' = TRUE
  /\ UNCHANGED <<backlog, queue, served, pc, mine, pick, alive, unattended, crashes, lost, faults, torn>>

\* The head of _worker_loop, and the wait for the interval after a cycle.
EngineCycles ==
  /\ alive /\ pc[Engine] = "looping" /\ ~stopping /\ enabled
  /\ Goto(Engine, "analyzing")
  /\ UNCHANGED <<backlog, queue, served, mine, pick, engine, crashes, lost, faults, torn>>

EngineWaits ==
  /\ alive /\ pc[Engine] = "resting" /\ ~stopping
  /\ Goto(Engine, "looping")
  /\ UNCHANGED <<backlog, queue, served, mine, pick, engine, crashes, lost, faults, torn>>

EngineExits ==
  /\ alive /\ \/ pc[Engine] = "looping" /\ (stopping \/ ~enabled)
              \/ pc[Engine] = "resting" /\ stopping
  /\ alive' = FALSE /\ Goto(Engine, "idle")
  /\ UNCHANGED <<backlog, queue, served, mine, pick, enabled, stopping, unattended, crashes, lost, faults, torn>>

\* The process restarts: the files keep enabled, nobody starts a thread, and
\* the running entry is orphaned.  A file under way to the disk may be cut short.
Crash ==
  /\ crashes < MaxCrashes
  /\ crashes' = crashes + 1
  /\ pc' = [t \in Threads |-> "idle"] /\ mine' = [t \in Threads |-> Empty]
  /\ pick' = [t \in Threads |-> Absent]
  /\ alive' = FALSE /\ stopping' = FALSE /\ unattended' = TRUE
  /\ served' = FALSE
  /\ \/ queue' = [k \in DOMAIN queue |-> IF queue[k].status = "running"
                                        THEN [queue[k] EXCEPT !.status = "orphaned"]
                                        ELSE queue[k]]
        /\ UNCHANGED lost
     \/ /\ served \/ \E t \in Threads : pc[t] = "enqueuing"
        /\ queue' = <<>> /\ lost' = TRUE
  /\ backlog' \in {backlog} \cup (IF Saving # {} THEN {Empty} ELSE {})
  /\ UNCHANGED <<enabled, faults, torn>>

-----------------------------------------------------------------------------
EngineStep == EngineCycles \/ EngineWaits \/ EngineExits \/ RunOnce(Engine)

RequestStep(t) == RunOnce(t) \/ Replace(t) \/ RequestEnds(t)

Next ==
  \/ EngineStep
  \/ \E t \in Requests : RequestStep(t) \/ RequestCycle(t) \/ Rebuild(t)
  \/ Start \/ Stop \/ Crash
  \/ QueueStart \/ QueueFinish

Spec == Init /\ [][Next]_vars

\* Threads run, the interval ends, and the queue's worker serves its queue.
\* An analysis that is tried again and again does not always raise.
FairSpec ==
  /\ Spec
  /\ WF_vars(EngineStep)
  /\ SF_vars(Merge(Engine))
  /\ WF_vars(QueueStart) /\ WF_vars(QueueFinish)

-----------------------------------------------------------------------------
(* Properties                                                              *)

\* Type correctness of the engine's files, threads and flags.
TypeOK ==
  /\ backlog \in Backlog
  /\ queue \in Seq(Entry)
  /\ pc \in [Threads -> {"idle", "looping", "analyzing", "syncing", "saving", "checking",
                         "enqueuing", "saving again", "replacing", "resting"}]
  /\ mine \in [Threads -> Backlog]
  /\ pick \in [Threads -> Objectives \cup {Absent}]
  /\ \A t \in Threads : pc[t] \in {"enqueuing", "saving again"} => pick[t] \in Objectives
  /\ {enabled, stopping, alive, unattended, served} \subseteq BOOLEAN
  /\ crashes \in 0..MaxCrashes /\ lost \in BOOLEAN /\ faults \in 0..MaxFaults /\ torn \in BOOLEAN

\* The engine feeds the queue one objective at a time: there are never more
\* active entries than threads running cycles, however their looks at the
\* queue and their enqueues interleave, unless a read met a file half written.
ActiveBounded == ~torn => Cardinality(Active(queue)) =< Cardinality(Cyclers)

\* An objective is enqueued once: what was done or failed is not queued again
\* by a later cycle, not even after a rebuild dropped what the backlog knew.
EnqueuedOnce ==
  \A j, k \in DOMAIN queue : queue[j].objective = queue[k].objective => j = k

\* A backlog item says queued or further only if the queue has its objective,
\* unless the queue file was cut short: no stale save, torn read or failed
\* cycle invents an enqueue.
BacklogBacked ==
  ~lost => \A o \in Objectives : backlog[o] \notin {Absent, "pending"} =>
             \E k \in DOMAIN queue : queue[k].objective = o

\* The files are well formed, and the backlog's is true of the queue.
BacklogIsSound == TypeOK /\ BacklogBacked

\* While the engine is enabled its thread is alive, unless start() trusted a
\* thread that had been told to stop, or the process was restarted.
EnabledIsAttended == enabled /\ ~alive => unattended

\* The engine is enabled and attended, and the queue it waits for is served, was never
\* cut short and has no entry that a restart orphaned.
Calm ==
  /\ enabled /\ alive /\ ~stopping
  /\ ~lost /\ (served \/ Active(queue) = {})
  /\ \A k \in DOMAIN queue : queue[k].status # "orphaned"

\* What the backlog file has pending is enqueued in the end, after a restart too, unless
\* it stops being calm or the item is dropped from the file, by a rebuild or by a write
\* that is cut short: cycles alone lose nothing.
EverythingIsQueued ==
  \A o \in Objectives :
    backlog[o] = "pending" ~> \/ ~Calm \/ backlog[o] = Absent
                              \/ \E k \in DOMAIN queue : queue[k].objective = o

-----------------------------------------------------------------------------
(* The inductive invariant behind the safety properties                    *)

QueuedObjectives == {queue[k].objective : k \in DOMAIN queue}
AboutToEnqueue == {t \in Threads : pc[t] = "enqueuing"}

\* Only the engine's thread and requests that call run_once are in a cycle.
CyclersInv ==
  \A t \in Threads :
    pc[t] \in {"analyzing", "syncing", "saving", "checking", "enqueuing", "saving again"}
      => t \in Cyclers

\* What a thread has in memory is as well backed as what the file says.
BackedInv ==
  /\ BacklogBacked
  /\ ~lost => \A t \in Threads : \A o \in Objectives :
       mine[t][o] \notin {Absent, "pending"} => o \in QueuedObjectives

\* A thread that was told to stop is as good as dead to an enabled engine.
AttendedInv == enabled /\ (stopping \/ ~alive) => unattended

\* A thread about to enqueue has its place in the queue's bound already.
SlotsInv ==
  ~torn => Cardinality(Active(queue)) + Cardinality(AboutToEnqueue) =< Cardinality(Cyclers)

\* The engine's thread runs the only cycles, and no read or write fails.
Alone == RunOnceRequests = {} /\ MaxFaults = 0

\* What such a cycle has synced with the queue and still calls pending is not in it.
FreshInv ==
  Alone =>
    /\ EnqueuedOnce
    /\ pc[Engine] \in {"saving", "checking", "enqueuing"} =>
         \A o \in Objectives : mine[Engine][o] = "pending" => o \notin QueuedObjectives
    /\ pc[Engine] = "enqueuing" => mine[Engine][pick[Engine]] = "pending"

\* The engine's inductive invariant.
IInv == TypeOK /\ CyclersInv /\ BackedInv /\ AttendedInv /\ SlotsInv /\ FreshInv
=============================================================================
