------------------------------ MODULE Requests ------------------------------
(***************************************************************************)
(* The server process as FastAPI runs it: every route on a thread of its   *)
(* own, but for those declared async that do not await what takes long:    *)
(* while one of these is served no other request begins.  What a thread is *)
(* doing is a record with pc, the next step, and op, the route; a request  *)
(* is over when it is replied to.                                          *)
(***************************************************************************)
EXTENDS Integers, SequencesExt, FiniteSetsExt

CONSTANTS Threads,     \* the threads that serve requests
          MaxRequests, \* bound: the most requests of a run
          MaxCrashes,  \* bound: the restarts of the server
          Traffics     \* what the clients of a run ask for: [routes, requests], and how often

ASSUME RequestsAssumption ==
  MaxRequests \in Nat /\ MaxCrashes \in Nat /\ \A f \in Traffics : f.requests \in 0..MaxRequests

VARIABLES thread,      \* what every thread is doing
          began,       \* how many requests there have been
          crashes,     \* how many restarts
          traffic      \* what this run is about
requestVars == <<thread, began, crashes, traffic>>

Idle == [pc |-> "idle"]
Busy(t) == thread[t].pc \notin {"idle", "replied"}
At(t, pc) == thread[t].pc = pc

Goto(t, pc) == thread' = [thread EXCEPT ![t].pc = pc] /\ UNCHANGED <<began, crashes, traffic>>
Become(t, record) == thread' = [thread EXCEPT ![t] = record] /\ UNCHANGED <<began, crashes, traffic>>
Reply(t, status) == Become(t, [pc |-> "replied", op |-> thread[t].op, status |-> status])
EventLoopBlocked == \E t \in Threads : Busy(t) /\ thread[t].op = "upload"
Begin(t, request) ==
  /\ ~Busy(t) /\ ~EventLoopBlocked
  /\ request.op \in traffic.routes
  /\ began < traffic.requests
  /\ began' = began + 1
  /\ thread' = [thread EXCEPT ![t] = request]
  /\ UNCHANGED <<crashes, traffic>>
\* The process dies: every request is forgotten, but the scripts it had started are
\* processes of their own, and any of them may go on, for nobody.
Scripted == {"build", "load", "rewrite", "check", "report", "write report"}
Die ==
  /\ crashes < MaxCrashes
  /\ crashes' = crashes + 1
  /\ \E left \in SUBSET {t \in Threads : thread[t].pc \in Scripted} :
       thread' = [t \in Threads |-> IF t \in left THEN thread[t] ELSE Idle]
  /\ UNCHANGED <<began, traffic>>

RequestsInit ==
  /\ thread = [t \in Threads |-> Idle] /\ began = 0 /\ crashes = 0
  /\ traffic \in Traffics
=============================================================================
