---------------------------- MODULE AutonomyQueue ----------------------------
(***************************************************************************)
(* The persistent objective queue of AutonomyCoordinator                   *)
(* (clawai/autopilot/autonomy_coordinator.py).                             *)
(*                                                                         *)
(* Request handlers (Callers) append objectives to a JSON file and make    *)
(* sure a daemon thread (one of Workers) serves it.  The worker claims the *)
(* first queued item, runs the implementation service outside the lock,    *)
(* records plan and memory, and writes the item back.  Three facts of the  *)
(* code shape the model:                                                   *)
(*   - the file is rewritten in place, so between truncation and flush it  *)
(*     is not whole, and a reader then sees an empty queue;                *)
(*   - a worker that found nothing queued has left the lock before its     *)
(*     thread is dead, so _ensure_worker may trust a thread that will      *)
(*     never look at the queue again;                                      *)
(*   - nothing looks at the queue when the process starts.                 *)
(***************************************************************************)
EXTENDS Integers, Sequences, FiniteSets

CONSTANTS
  Callers,         \* request threads that call enqueue
  Workers,         \* identities of worker threads (reused once dead)
  Objectives,      \* what may be enqueued
  NoOne,           \* no thread: the free lock, the unset self._worker
  MaxItems,        \* bound: enqueue calls
  MaxCrashes,      \* bound: process crashes
  MaxDumpFailures  \* bound: writes that truncate the file and then raise

ASSUME ConstantsAssumption ==
  /\ NoOne \notin Callers \cup Workers
  /\ Callers \cap Workers = {}
  /\ MaxItems \in Nat /\ MaxCrashes \in Nat /\ MaxDumpFailures \in Nat

Ids == 1..MaxItems
Status == {"queued", "running", "done", "failed"}
MemoryLine == Ids \X {"done", "failed"}
Item == [id : Ids, objective : Objectives, order : Ids, status : Status]

\* Where a worker thread is.  "exiting": it has returned from the loop (or
\* died of an exception) and Thread.is_alive() still answers True.
WorkerPC == {"dead", "top", "claiming", "working", "planning", "remembering",
             "storing", "flushing", "draining", "exiting"}
CallerPC == {"idle", "appending", "ensuring"}

VARIABLES
  disk,     \* [whole, items]: queue.json; not whole between truncate and flush
  buf,      \* the list the lock holder is writing
  lock,     \* self._lock: the thread inside it, or NoOne
  worker,   \* self._worker
  wpc,      \* worker thread -> control state
  cur,      \* worker thread -> its next_item
  cpc,      \* caller -> control state
  mine,     \* caller -> id of the item its enqueue is adding
  plans,    \* objective -> status in plans/_index.json
  memory,   \* [lines, torn]: engineering_memory.jsonl, torn = no final newline
  issued,   \* ids given out (uuid4 never repeats one)
  crashes, dumpFailures,
  accepted, \* history: ids whose enqueue returned to its caller
  runs,     \* history: id -> how often implement() was called for it
  verdict,  \* history: id -> what that run answered
  stranded  \* history: since the last thread start, a worker was trusted after
            \* its last look at the queue, or the process came up without one

file    == <<disk, buf, lock>>
threads == <<worker, wpc, cur>>
records == <<plans, memory>>
faults  == <<crashes, dumpFailures>>
history == <<accepted, runs, verdict, stranded>>
vars == <<file, threads, cpc, mine, records, issued, faults, history>>

-----------------------------------------------------------------------------
(* The queue file                                                          *)

\* _load_queue: a file that does not parse is an empty queue.
Load == IF disk.whole THEN disk.items ELSE <<>>

\* _json_dump opens for writing first, which truncates: list is on its way.
StartDump(items) == disk' = [whole |-> FALSE, items |-> <<>>] /\ buf' = items
FinishDump == disk' = [whole |-> TRUE, items |-> buf] /\ buf' = <<>>

\* What the file says, or will say once the write under way is flushed.
Contents == IF disk.whole THEN disk.items ELSE buf

\* Mutant of WithStatus: what is marked running is taken to be still queued.
WithStatusResumed(items, st) ==
  {k \in DOMAIN items : items[k].status = st \/ (st = "queued" /\ items[k].status = "running")}

WithStatus(items, st) == {k \in DOMAIN items : items[k].status = st}

\* Mutant of FirstQueued: the newest queued item is served first.
LastQueued(items) ==
  {k \in WithStatus(items, "queued") : \A j \in WithStatus(items, "queued") : j =< k}

FirstQueued(items) ==
  {k \in WithStatus(items, "queued") : \A j \in WithStatus(items, "queued") : k =< j}

NextOrder(items) ==
  IF items = <<>> THEN 1
  ELSE 1 + (CHOOSE m \in {items[k].order : k \in DOMAIN items} :
              \A k \in DOMAIN items : items[k].order =< m)

Alive(w) == wpc[w] # "dead"
\* The worker will look at the queue again (or is doing so now).
InLoop(w) == wpc[w] \notin {"dead", "draining", "exiting"}
\* The worker holds an item it has claimed.
Holding(w) == wpc[w] \in {"claiming", "working", "planning", "remembering",
                          "storing", "flushing"}

-----------------------------------------------------------------------------
NoItem == [id |-> 0]

Init ==
  /\ disk = [whole |-> TRUE, items |-> <<>>] /\ buf = <<>> /\ lock = NoOne
  /\ worker = NoOne
  /\ wpc = [w \in Workers |-> "dead"]
  /\ cur = [w \in Workers |-> NoItem]
  /\ cpc = [c \in Callers |-> "idle"]
  /\ mine = [c \in Callers |-> 0]
  /\ plans = [o \in Objectives |-> "none"]
  /\ memory = [lines |-> {}, torn |-> FALSE]
  /\ issued = 0 /\ crashes = 0 /\ dumpFailures = 0
  /\ accepted = {} /\ stranded = FALSE
  /\ runs = [i \in Ids |-> 0]
  /\ verdict = [i \in Ids |-> "none"]

(* enqueue                                                                 *)

\* enqueue(o) takes the lock, loads, appends and starts to write.
EnqueueAppend(c, o) ==
  /\ cpc[c] = "idle" /\ lock = NoOne /\ issued < MaxItems
  /\ lock' = c
  /\ issued' = issued + 1
  /\ StartDump(Append(Load, [id |-> issued + 1, objective |-> o,
                             order |-> NextOrder(Load), status |-> "queued"]))
  /\ cpc' = [cpc EXCEPT ![c] = "appending"]
  /\ mine' = [mine EXCEPT ![c] = issued + 1]
  /\ UNCHANGED <<threads, records, faults, history>>

EnqueueFlush(c) ==
  /\ cpc[c] = "appending"
  /\ FinishDump
  /\ cpc' = [cpc EXCEPT ![c] = "ensuring"]
  /\ UNCHANGED <<lock, threads, mine, records, issued, faults, history>>

\* Mutant of WorkerIsAlive: the check is dropped and a thread always started.
NoWorkerCheck == FALSE

\* self._worker and self._worker.is_alive()
WorkerIsAlive == \E w \in Workers : worker = w /\ Alive(w)

\* _ensure_worker, still under the lock: a live thread is trusted ...
EnsureTrusts(c) ==
  /\ cpc[c] = "ensuring"
  /\ WorkerIsAlive
  /\ stranded' = (stranded \/ ~InLoop(worker))
  /\ UNCHANGED threads

\* ... and otherwise a new one is started.
EnsureStarts(c) ==
  /\ cpc[c] = "ensuring"
  /\ ~WorkerIsAlive
  /\ \E w \in Workers :
       /\ wpc[w] = "dead"
       /\ worker' = w
       /\ wpc' = [wpc EXCEPT ![w] = "top"]
  /\ stranded' = FALSE
  /\ UNCHANGED cur

EnqueueReturn(c) ==
  /\ EnsureTrusts(c) \/ EnsureStarts(c)
  /\ lock' = NoOne
  /\ accepted' = accepted \cup {mine[c]}
  /\ cpc' = [cpc EXCEPT ![c] = "idle"]
  /\ UNCHANGED <<disk, buf, mine, records, issued, faults, runs, verdict>>

-----------------------------------------------------------------------------
(* _worker_loop                                                            *)

Goto(w, pc) == wpc' = [wpc EXCEPT ![w] = pc]

\* The first queued item becomes running and the list starts to be written.
Claim(w) ==
  /\ wpc[w] = "top" /\ lock = NoOne
  /\ \E k \in FirstQueued(Load) :
       /\ cur' = [cur EXCEPT ![w] = [Load[k] EXCEPT !.status = "running"]]
       /\ StartDump([Load EXCEPT ![k].status = "running"])
  /\ lock' = w
  /\ Goto(w, "claiming")
  /\ UNCHANGED <<worker, cpc, mine, records, issued, faults, history>>

\* Nothing is queued: the list is written back as it was read.
Drain(w) ==
  /\ wpc[w] = "top" /\ lock = NoOne
  /\ WithStatus(Load, "queued") = {}
  /\ StartDump(Load)
  /\ lock' = w
  /\ Goto(w, "draining")
  /\ UNCHANGED <<worker, cur, cpc, mine, records, issued, faults, history>>

\* The write ends and the lock is released.
WorkerFlush(w, from, to) ==
  /\ wpc[w] = from
  /\ FinishDump
  /\ lock' = NoOne
  /\ Goto(w, to)
  /\ UNCHANGED <<worker, cur, cpc, mine, records, issued, faults, history>>

ClaimFlush(w) == WorkerFlush(w, "claiming", "working")
DrainFlush(w) == WorkerFlush(w, "draining", "exiting")

\* Mutant of StoreFlush: the thread serves one item and returns.
StoreFlushReturns(w) == WorkerFlush(w, "flushing", "exiting")

StoreFlush(w) == WorkerFlush(w, "flushing", "top")

\* auto_implement.implement returns a result, or raises.
Implement(w) ==
  /\ wpc[w] = "working"
  /\ \E answer \in {"done", "failed", "raised"} :
       /\ verdict' = [verdict EXCEPT ![cur[w].id] = answer]
       /\ cur' = [cur EXCEPT ![w].status = IF answer = "done" THEN "done" ELSE "failed"]
       /\ Goto(w, IF answer = "raised" THEN "storing" ELSE "planning")
  /\ runs' = [runs EXCEPT ![cur[w].id] = @ + 1]
  /\ UNCHANGED <<file, worker, cpc, mine, records, issued, faults, accepted, stranded>>

\* Mutant of RecordRaises: the exception is swallowed.
RecordRaisesUnnoticed(w) == UNCHANGED cur /\ Goto(w, "storing")

\* An exception of _record_from_result turns the outcome into a failure.
RecordRaises(w) ==
  /\ cur' = [cur EXCEPT ![w].status = "failed"]
  /\ Goto(w, "storing")

\* First half of _record_from_result: the plan is created if it is new, and
\* then completed or failed.
RecordPlan(w) ==
  /\ wpc[w] = "planning"
  /\ LET o == cur[w].objective
         created == IF plans[o] = "none" THEN "active" ELSE plans[o]
     IN \/ /\ plans' = [plans EXCEPT ![o] = IF cur[w].status = "done"
                                            THEN "completed" ELSE "failed"]
           /\ Goto(w, "remembering") /\ UNCHANGED cur
        \/ /\ plans' \in {plans, [plans EXCEPT ![o] = created]}
           /\ RecordRaises(w)
  /\ UNCHANGED <<file, worker, cpc, mine, memory, issued, faults, history>>

\* Second half: one line is appended to the memory file.  After a torn line
\* the two run together, and _load_memory skips the result.
RecordMemory(w) ==
  /\ wpc[w] = "remembering"
  /\ \/ /\ memory' = [lines |-> IF memory.torn THEN memory.lines
                                ELSE memory.lines \cup {<<cur[w].id, cur[w].status>>},
                      torn |-> FALSE]
        /\ Goto(w, "storing") /\ UNCHANGED cur
     \/ RecordRaises(w) /\ UNCHANGED memory
  /\ UNCHANGED <<file, worker, cpc, mine, plans, issued, faults, history>>

\* The finished item replaces the one with its queue_id in a fresh load.
Store(w) ==
  /\ wpc[w] = "storing" /\ lock = NoOne
  /\ StartDump([k \in DOMAIN Load |-> IF Load[k].id = cur[w].id THEN cur[w] ELSE Load[k]])
  /\ lock' = w
  /\ Goto(w, "flushing")
  /\ UNCHANGED <<worker, cur, cpc, mine, records, issued, faults, history>>

\* The thread that left the loop stops being alive.
Exit(w) ==
  /\ wpc[w] = "exiting"
  /\ Goto(w, "dead")
  /\ UNCHANGED <<file, worker, cur, cpc, mine, records, issued, faults, history>>

-----------------------------------------------------------------------------
(* Faults                                                                  *)

\* write_text raises after it truncated the file.  The exception leaves
\* enqueue (the request fails) or ends the worker thread; "with" frees the lock.
DumpFails ==
  /\ dumpFailures < MaxDumpFailures
  /\ ~disk.whole /\ lock # NoOne
  /\ dumpFailures' = dumpFailures + 1
  /\ lock' = NoOne /\ buf' = <<>>
  /\ cpc' = [c \in Callers |-> IF c = lock THEN "idle" ELSE cpc[c]]
  /\ wpc' = [w \in Workers |-> IF w = lock THEN "exiting" ELSE wpc[w]]
  /\ UNCHANGED <<disk, worker, cur, mine, records, issued, crashes, history>>

\* The process dies and is started again: only the files survive.  A crash
\* while the plan index is rewritten loses the index; one while memory is
\* appended may leave half a line.
Crash ==
  /\ crashes < MaxCrashes
  /\ crashes' = crashes + 1
  /\ lock' = NoOne /\ buf' = <<>>
  /\ worker' = NoOne
  /\ wpc' = [w \in Workers |-> "dead"]
  /\ cur' = [w \in Workers |-> NoItem]
  /\ cpc' = [c \in Callers |-> "idle"]
  /\ mine' = [c \in Callers |-> 0]
  /\ plans' \in {plans} \cup (IF \E w \in Workers : wpc[w] = "planning"
                              THEN {[o \in Objectives |-> "none"]} ELSE {})
  /\ memory' \in {memory} \cup (IF \E w \in Workers : wpc[w] = "remembering"
                                THEN {[memory EXCEPT !.torn = TRUE]} ELSE {})
  /\ stranded' = TRUE
  /\ UNCHANGED <<disk, issued, dumpFailures, accepted, runs, verdict>>

-----------------------------------------------------------------------------
Enqueue(c) == (\E o \in Objectives : EnqueueAppend(c, o)) \/ EnqueueFlush(c) \/ EnqueueReturn(c)

WorkerStep(w) ==
  \/ Claim(w) \/ ClaimFlush(w) \/ Drain(w) \/ DrainFlush(w)
  \/ Implement(w) \/ RecordPlan(w) \/ RecordMemory(w)
  \/ Store(w) \/ StoreFlush(w) \/ Exit(w)

Next ==
  \/ \E c \in Callers : Enqueue(c)
  \/ \E w \in Workers : WorkerStep(w)
  \/ DumpFails
  \/ Crash

Spec == Init /\ [][Next]_vars

\* Threads that are scheduled run; nobody has to call enqueue.  An
\* implementation run is taken to return or to raise.
Fairness ==
  /\ \A w \in Workers : WF_vars(WorkerStep(w))
  /\ \A c \in Callers : WF_vars(EnqueueFlush(c) \/ EnqueueReturn(c))

FairSpec == Spec /\ Fairness

-----------------------------------------------------------------------------
(* Properties                                                              *)

Outcomes == {"none", "done", "failed", "raised"}

\* Type correctness of the coordinator's files, lock and threads.
TypeOK ==
  /\ disk \in [whole : BOOLEAN, items : Seq(Item)] /\ buf \in Seq(Item)
  /\ lock \in Callers \cup Workers \cup {NoOne}
  /\ worker \in Workers \cup {NoOne}
  /\ wpc \in [Workers -> WorkerPC] /\ cpc \in [Callers -> CallerPC]
  /\ cur \in [Workers -> Item \cup {NoItem}]
  /\ mine \in [Callers -> 0..MaxItems]
  /\ plans \in [Objectives -> {"none", "active", "completed", "failed"}]
  /\ memory \in [lines : SUBSET MemoryLine, torn : BOOLEAN]
  /\ issued \in 0..MaxItems
  /\ crashes \in 0..MaxCrashes /\ dumpFailures \in 0..MaxDumpFailures
  /\ accepted \in SUBSET Ids /\ stranded \in BOOLEAN
  /\ runs \in [Ids -> Nat] /\ verdict \in [Ids -> Outcomes]

\* At most one worker thread is alive, so at most one objective is being
\* implemented: the promise behind a single _worker (_ensure_worker).
OneWorker == \A v, w \in Workers : Alive(v) /\ Alive(w) => v = w

\* queue.json lists items in the order they were enqueued, with strictly
\* growing order fields, whatever was lost and whoever wrote it last: the
\* worker's "first in the file" is the first of list_queue's sort.
FileInOrder ==
  \A j, k \in DOMAIN Contents :
    j < k => Contents[j].order < Contents[k].order /\ Contents[j].id < Contents[k].id

\* An objective whose enqueue returned stays in the file unless a write was
\* cut short: neither the worker's write-back nor a concurrent enqueue loses it.
NothingLost ==
  crashes + dumpFailures = 0 =>
    \A i \in accepted : \E k \in DOMAIN Contents : Contents[k].id = i

\* No objective is implemented twice, also not after a restart that finds it
\* still marked as running: an item is marked on disk before its run.
AtMostOneRun == \A i \in Ids : runs[i] =< 1

\* What queue, run and memory say of a finished item agree: done means the run
\* succeeded (and, crashes aside, is in memory), and no item is failed in the
\* queue while memory counts it a success.
VerdictsAgree ==
  \A k \in DOMAIN Contents :
    LET item == Contents[k] IN
    /\ item.status = "done" => /\ verdict[item.id] = "done"
                               /\ crashes = 0 => <<item.id, "done">> \in memory.lines
    /\ item.status = "failed" => <<item.id, "done">> \notin memory.lines

\* Queued work has no worker coming for it in two situations only: an enqueue
\* trusted a thread that was past its last look, or the process restarted.
LeftBehind ==
  lock = NoOne /\ WithStatus(Load, "queued") # {} /\ ~(\E w \in Workers : InLoop(w))
    => stranded

\* An item in the file marked running belongs to the live worker, unless an
\* earlier process left it behind: only a crash orphans an item.
RunningIsHeld ==
  crashes = 0 =>
    \A k \in WithStatus(Contents, "running") :
      \E w \in Workers : Holding(w) /\ cur[w].id = Contents[k].id

\* Between any two steps, whatever else happened to them, items are accounted for: none is
\* lost without a cut write, what is said of each agrees, and a queued or a running one has
\* a worker, or a fault or a trusted leaving worker explains why not.
ItemsAreAccountedFor == NothingLost /\ VerdictsAgree /\ LeftBehind /\ RunningIsHeld

\* What a worker in its loop can see it serves, unless another fault comes in between:
\* the queue is drained to the end however handlers interleave their enqueues, and
\* also after a crash or a failed write.
SeenIsServed ==
  \A i \in Ids, n \in 0..MaxCrashes, d \in 0..MaxDumpFailures :
    (/\ <<crashes, dumpFailures>> = <<n, d>>
     /\ \E k \in WithStatus(Load, "queued") : Load[k].id = i
     /\ \E w \in Workers : InLoop(w))
      ~> (\/ <<crashes, dumpFailures>> # <<n, d>>
          \/ \E k \in DOMAIN Load : Load[k].id = i /\ Load[k].status \in {"done", "failed"})

-----------------------------------------------------------------------------
(* The inductive invariant behind the safety properties                    *)

Writing(w) == wpc[w] \in {"claiming", "draining", "flushing"}

\* Who is inside the lock, and when the file is being written.
LockInv ==
  /\ \A c \in Callers : (cpc[c] # "idle" <=> lock = c) /\ (lock = c => mine[c] # 0)
  /\ \A w \in Workers : Writing(w) <=> lock = w
  /\ \A c \in Callers : (cpc[c] = "appending" => ~disk.whole)
                         /\ (cpc[c] = "ensuring" => disk.whole)
  /\ \A w \in Workers : Writing(w) => ~disk.whole
  /\ disk.whole \/ lock = NoOne => buf = <<>>

\* Only self._worker is alive, and what it holds is an item of its own.
WorkerInv ==
  /\ \A w \in Workers : Alive(w) => worker = w
  /\ \A w \in Workers : Holding(w) =>
       /\ cur[w] \in Item /\ cur[w].status # "queued"
       /\ cur[w].status = "running" => wpc[w] \in {"claiming", "working"}

\* The file is sorted, and nothing in it is newer than the last enqueue.
FileInv ==
  /\ FileInOrder
  /\ \A k \in DOMAIN Contents : Contents[k].id =< issued /\ Contents[k].order =< issued

\* A queued item has not run, nobody holds it, and a claimed one runs once.
RunInv ==
  /\ AtMostOneRun
  /\ \A i \in Ids : i > issued => runs[i] = 0
  /\ \A k \in WithStatus(Contents, "queued") : runs[Contents[k].id] = 0
  /\ \A w \in Workers : wpc[w] \in {"claiming", "working"} => runs[cur[w].id] = 0
  /\ \A w \in Workers : Holding(w) =>
       /\ cur[w].id =< issued
       /\ \A k \in DOMAIN Contents :
            Contents[k].id = cur[w].id =>
              Contents[k].status # "queued" /\ Contents[k].order = cur[w].order

\* Who is in the lock, which thread lives, how the file is sorted and which items have
\* run, tied together: inductive by itself.
CoreInv == TypeOK /\ LockInv /\ WorkerInv /\ FileInv /\ RunInv

IdsInFile == {Contents[k].id : k \in DOMAIN Contents}

\* What was enqueued, or is being, is in the file as long as no write was cut short.
KeptInv ==
  crashes + dumpFailures = 0 =>
    /\ accepted \subseteq IdsInFile
    /\ \A c \in Callers : cpc[c] # "idle" => mine[c] \in IdsInFile

\* The outcome a worker carries from the run to the file is that of the run, and its
\* success is in memory before the file says done.
OutcomeInv ==
  /\ VerdictsAgree
  /\ crashes = 0 => ~memory.torn
  /\ \A i \in Ids : runs[i] = 0 => verdict[i] = "none" /\ <<i, "done">> \notin memory.lines
  /\ \A w \in Workers : LET i == cur[w].id IN
       /\ wpc[w] \in {"planning", "remembering"} =>
            cur[w].status = verdict[i] /\ <<i, "done">> \notin memory.lines
       /\ wpc[w] \in {"storing", "flushing"} =>
            /\ cur[w].status = "done" => /\ verdict[i] = "done"
                                         /\ crashes = 0 => <<i, "done">> \in memory.lines
            /\ cur[w].status = "failed" => <<i, "done">> \notin memory.lines

\* Queued work that no looping worker and no caller inside enqueue attends to is stranded.
AttendedInv ==
  /\ WithStatus(Contents, "queued") # {}
  /\ ~\E w \in Workers : InLoop(w)
  /\ \A c \in Callers : cpc[c] = "idle"
  => stranded

\* What is held is what the file says is running, and after a crash no more than that.
HeldInv ==
  /\ RunningIsHeld
  /\ \A w \in Workers : Holding(w) =>
       \A k \in DOMAIN Contents : Contents[k].id = cur[w].id =>
         (Contents[k].status = "running" <=> wpc[w] # "flushing")

AccountInv == KeptInv /\ OutcomeInv /\ AttendedInv /\ HeldInv

\* The coordinator's inductive invariant: lock, threads, file and runs tied together, and
\* on top of that what is kept, what its outcome is, who attends to it and who holds it.
IInv == CoreInv /\ AccountInv

-----------------------------------------------------------------------------
(* What the coordinator promises, as a queue of tasks                      *)

TaskStatus == [i \in Ids |->
  IF i > issued THEN "absent"
  ELSE IF ~\E k \in DOMAIN Contents : Contents[k].id = i THEN "lost"
  ELSE LET st == Contents[CHOOSE k \in DOMAIN Contents : Contents[k].id = i].status
       IN IF st = "running" /\ ~\E w \in Workers : Holding(w) /\ cur[w].id = i
          THEN "orphaned" ELSE st]

Tasks == INSTANCE TaskQueue WITH status <- TaskStatus, Size <- MaxItems

\* The coordinator implements the task queue: objectives run one at a time, in
\* the order of their enqueues, each to one final outcome; a cut write loses
\* the whole queue and a restart orphans the running item, and nothing else.
ImplementsTaskQueue == Tasks!Spec
=============================================================================
