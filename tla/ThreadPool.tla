---------------------------- MODULE ThreadPool ----------------------------
(***************************************************************************)
(* utils::ThreadPool (src/src/utils/thread_pool.h, thread_pool.cc): worker *)
(* threads that dequeue tasks from an mpmc_blocking_queue and run them.    *)
(* The queue is the one of MpmcBlockingQueue: its producers are the        *)
(* threads that submit, its consumers the workers, its stopper the owner   *)
(* of the pool.  The pool is stopped by one thread, its owner: two threads *)
(* joining the same std::thread would be undefined.                        *)
(***************************************************************************)
EXTENDS MpmcBlockingQueue

CONSTANT SubmitOps  \* the submission functions the pool's clients use

ASSUME SubmitOpsAssumption == SubmitOps \subseteq PutOps
ASSUME WorkersAssumption == Consumers # {}  \* the constructor throws on no threads

VARIABLES wpc,              \* where each worker is in worker_loop_
          active_count,     \* active_count_
          completed_count,  \* completed_count_
          opc,              \* where each owner is: open, joining, stopped, destroyed
          accepted,         \* history: tasks put into the queue
          overrun,          \* history: tasks submit_overwrite pushed out
          executed          \* history: tasks run to the end

poolVars == <<wpc, active_count, completed_count, opc, accepted, overrun, executed>>
vars == <<queueVars, poolVars>>

Workers == Consumers
Owners == Stoppers

PoolTypeOK ==
  /\ TypeOK
  /\ wpc \in [Workers -> {"loop", "dequeue", "run", "exited"}]
  /\ active_count \in Nat
  /\ completed_count \in Nat
  /\ opc \in [Owners -> {"open", "joining", "stopped", "destroyed"}]
  /\ accepted \subseteq Item
  /\ overrun \subseteq accepted
  /\ executed \subseteq accepted

Init ==
  /\ QueueInit
  /\ wpc = [w \in Workers |-> "loop"]
  /\ active_count = 0
  /\ completed_count = 0
  /\ opc = [o \in Owners |-> "open"]
  /\ accepted = {}
  /\ overrun = {}
  /\ executed = {}

-----------------------------------------------------------------------------
(* submit, submit_for, submit_overwrite and try_submit forward to the queue. *)
(* A destroyed pool has no submitters.                                       *)
Submit(p, f, x) ==
  /\ \A o \in Owners : opc[o] # "destroyed"
  /\ EnqueueCall(p, f, x)
  /\ UNCHANGED poolVars

SubmitStep(p) ==
  /\ ProducerStep(p)
  /\ accepted' = (IF pc[p] # "notify" /\ pc'[p] = "notify" THEN accepted \union {arg[p]} ELSE accepted)
  /\ overrun' = (IF q'.overrun > q.overrun THEN overrun \union {front(q)} ELSE overrun)
  /\ UNCHANGED <<wpc, active_count, completed_count, opc, executed>>

(* queue_.dequeue() of worker_loop_, entered and carried out. *)
WorkerLoop(w) ==
  /\ wpc[w] = "loop"
  /\ DequeueCall(w, "dequeue")
  /\ wpc' = [wpc EXCEPT ![w] = "dequeue"]
  /\ UNCHANGED <<active_count, completed_count, opc, accepted, overrun, executed>>

WorkerDequeue(w) ==
  /\ wpc[w] = "dequeue"
  /\ ConsumerStep(w)
  /\ UNCHANGED poolVars

(* dequeue returned: a task is started, nullopt ends the worker. *)
WorkerDequeued(w) ==
  /\ wpc[w] = "dequeue"
  /\ pc[w] = "out"
  /\ IF result[w] = NoItem
       THEN /\ wpc' = [wpc EXCEPT ![w] = "exited"]
            /\ UNCHANGED active_count
       ELSE /\ wpc' = [wpc EXCEPT ![w] = "run"]
            /\ active_count' = active_count + 1
  /\ UNCHANGED <<queueVars, completed_count, opc, accepted, overrun, executed>>

(* The task returns (one that throws ends the process) and is counted. *)
WorkerRan(w) ==
  /\ wpc[w] = "run"
  /\ executed' = executed \union {result[w]}
  /\ active_count' = active_count - 1
  /\ completed_count' = completed_count + 1
  /\ wpc' = [wpc EXCEPT ![w] = "loop"]
  /\ UNCHANGED <<queueVars, opc, accepted, overrun>>

(* stop_gracefully, stop_immediately, and the destructor, which calls the   *)
(* former: stop the queue, then join every joinable worker in turn, which   *)
(* takes until the last of them has exited.  A second stop finds nothing to *)
(* join.                                                                    *)
OwnerStop(o, f) ==
  /\ opc[o] = "open"
  /\ StopLocked(o, f)
  /\ opc' = [opc EXCEPT ![o] = "joining"]
  /\ UNCHANGED <<wpc, active_count, completed_count, accepted, overrun, executed>>

OwnerNotify(o) ==
  /\ StopperStep(o)
  /\ UNCHANGED poolVars

OwnerJoined(o) ==
  /\ opc[o] = "joining"
  /\ pc[o] = "out"
  /\ \A w \in Workers : wpc[w] = "exited"
  /\ opc' = [opc EXCEPT ![o] = "stopped"]
  /\ UNCHANGED <<queueVars, wpc, active_count, completed_count, accepted, overrun, executed>>

OwnerDestroy(o) ==
  /\ opc[o] = "stopped"
  /\ StopLocked(o, "stop_gracefully")
  /\ \A p \in Producers : pc[p] = "out"
  /\ opc' = [opc EXCEPT ![o] = "destroyed"]
  /\ UNCHANGED <<wpc, active_count, completed_count, accepted, overrun, executed>>

WaitEnds(t) ==
  /\ TimeOut(t) \/ SpuriousWakeup(t)
  /\ UNCHANGED poolVars

WorkerStep(w) == WorkerLoop(w) \/ WorkerDequeue(w) \/ WorkerDequeued(w) \/ WorkerRan(w)

Next ==
  \/ \E p \in Producers : SubmitStep(p) \/ (\E f \in SubmitOps, x \in Item : Submit(p, f, x))
  \/ \E w \in Workers : WorkerStep(w)
  \/ \E o \in Owners : OwnerNotify(o) \/ OwnerJoined(o) \/ OwnerDestroy(o)
                         \/ (\E f \in StopOps : OwnerStop(o, f))
  \/ \E t \in Producers \union Workers : WaitEnds(t)

Spec == Init /\ [][Next]_vars

(***************************************************************************)
(* Fairness: the scheduler runs every thread that can run, and tasks       *)
(* return.  Nobody is obliged to submit or to stop, no timeout has to      *)
(* expire and no wake-up is spurious.                                      *)
(***************************************************************************)
Fairness ==
  /\ \A p \in Producers : WF_vars(SubmitStep(p))
  /\ \A w \in Workers : WF_vars(WorkerStep(w))
  /\ \A o \in Owners : WF_vars(OwnerNotify(o)) /\ WF_vars(OwnerJoined(o))

FairSpec == Spec /\ Fairness

-----------------------------------------------------------------------------
Held(w) == wpc[w] = "run" \/ (wpc[w] = "dequeue" /\ pc[w] \in {"notify", "out"} /\ result[w] # NoItem)

(***************************************************************************)
(* stop_gracefully drains (thread_pool.h:32): when it returns, every task  *)
(* the pool accepted has run, except those submit_overwrite pushed out,    *)
(* whatever was between the stop test and the lock when it was called.     *)
(***************************************************************************)
GracefulStopDrains ==
  \A o \in Owners :
    opc[o] \in {"stopped", "destroyed"} /\ state = "Drain" => accepted = executed \union overrun

(***************************************************************************)
(* No task is lost or duplicated (thread_pool.cc:44-57): an accepted task  *)
(* is in exactly one place: pushed out, in the queue once, with one        *)
(* worker, or done.                                                        *)
(***************************************************************************)
Places(x) ==
  (IF x \in overrun THEN 1 ELSE 0) + (IF x \in executed THEN 1 ELSE 0)
    + Cardinality({k \in 1..size(q) : Contents(q)[k] = x})
    + Cardinality({w \in Workers : Held(w) /\ result[w] = x})

EachTaskInOnePlace == \A x \in Item : Places(x) = (IF x \in accepted THEN 1 ELSE 0)

(***************************************************************************)
(* Liveness (thread_pool.cc:24-57): an accepted task is run, unless it is  *)
(* pushed out or the pool is stopped at once; a submitter gets an answer;  *)
(* stop and the destructor return.                                         *)
(***************************************************************************)
AcceptedTasksRun ==
  \A x \in Item : x \in accepted ~> (x \in executed \/ x \in overrun \/ state = "Immediate")

SubmitReturns == \A p \in Producers : pc[p] # "out" ~> pc[p] = "out"

StopReturns == \A o \in Owners : opc[o] = "joining" ~> opc[o] = "stopped"

(* The three together: nothing that was begun stays undone.                *)
PoolProgresses == AcceptedTasksRun /\ SubmitReturns /\ StopReturns
=============================================================================
