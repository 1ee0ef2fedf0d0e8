----------------------------- MODULE AsyncLogger -----------------------------
(***************************************************************************)
(* logger::AsyncLogger (src/src/logger/AsyncLogger.cc) with the thread     *)
(* pool it submits to, the LoggerManager that owns both (drop_all,         *)
(* set_thread_pool, flush_all and shutdown of LoggerManager.cc) and the    *)
(* threads that log.  The pool's queue is the bounded FIFO that            *)
(* MpmcBlockingQueue implements.  A thread that logs or flushes holds a    *)
(* reference to the logger, and one to the pool from thread_pool_.lock()   *)
(* to the end of the function; a task holds one to the logger, except the  *)
(* one the destructor submits.  Whoever gives up the last reference runs   *)
(* the destructor.  Sinks that throw are left out.                         *)
(***************************************************************************)
EXTENDS Integers, FiniteSets, Sequences, SequencesExt, FiniteSetsExt

CONSTANTS
  Threads,       \* threads that log and flush
  Workers,       \* the workers of the pool
  Manager,       \* the thread that calls drop_all, shutdown and stop_gracefully
  None,
  BatchSize,     \* batch_size_
  QueueSize,     \* capacity of the pool's queue
  MaxEvents,     \* bound on the events
  MaxFlushes,    \* bound on the calls of flush
  ReleaseEarly   \* shutdown may release the pool while a worker destroys a logger

ASSUME LoggerAssumption ==
  /\ BatchSize \in Nat \ {0} /\ QueueSize \in Nat \ {0} /\ MaxEvents \in Nat /\ MaxFlushes \in Nat
  /\ ReleaseEarly \in BOOLEAN /\ Threads \intersect Workers = {} /\ Manager \notin Threads \union Workers
  /\ None \notin Threads \union Workers \union {Manager}

Actors == Threads \union Workers \union {Manager}
Strategies == {"Block", "DiscardNew", "DiscardOldest"}

VARIABLES
  strategy,   \* overflow_strategy_
  at,         \* where each actor is
  held,       \* the actors that hold a pool_ptr
  bag,        \* the batch an actor has taken and not passed on; a worker's task, its events to come
  job,        \* the kind of a worker's task: "batch", "flush", "rest"
  lock,       \* who holds batch_mutex_
  mapLock,    \* who holds logger_map_mutex_ in flush_all
  pending,    \* pending_batch_
  queue,      \* the pool's tasks
  pool,       \* "up", "stopped" (stop_gracefully was called) or "expired" (its destructor has begun)
  poolOwned,  \* LoggerManager::thread_pool_
  handle,     \* the manager's reference to the logger
  alive,      \* ~AsyncLogger has not begun
  file,       \* what the sinks have written
  synced,     \* how much of it is flushed
  logged,     \* history: how many events each thread passed to log
  pushed,     \* history: events a call of log has taken in
  promised,   \* history: events pushed before a flush whose barrier has run
  flushes

vars == <<strategy, at, held, bag, job, lock, mapLock, pending, queue, pool, poolOwned, handle, alive, file,
          synced, logged, pushed, promised, flushes>>
sinks == <<file, synced>>
poolState == <<queue, pool>>

Init ==
  /\ strategy \in Strategies
  /\ at = [a \in Actors |-> "idle"]
  /\ held = {} /\ lock = None /\ mapLock = None
  /\ bag = [a \in Actors |-> <<>>] /\ job = [w \in Workers |-> [kind |-> None]]
  /\ pending = <<>> /\ queue = <<>>
  /\ pool = "up" /\ poolOwned = TRUE /\ handle = TRUE /\ alive = TRUE
  /\ file = <<>> /\ synced = 0
  /\ logged = [t \in Threads |-> 0] /\ pushed = {} /\ promised = {} /\ flushes = 0

Goto(a, s) == at' = [at EXCEPT ![a] = s]
WriteSync(batch) == file' = file \o batch
FlushSinks == synced' = Len(file')
Urgent(batch) == \E e \in Range(batch) : e.urgent
Room == Len(queue) < QueueSize

(* The references to a living logger and to the pool, those of actor a aside.  *)
References(a) ==
  \/ \E t \in Threads \ {a} : at[t] # "idle"
  \/ \E i \in DOMAIN queue : queue[i].kind # "rest"
  \/ \E w \in Workers \ {a} : job[w].kind \in {"batch", "flush"}
LoggerHeld(a) == handle \/ References(a)
PoolHeld(a) == poolOwned \/ held \ {a} # {}

-----------------------------------------------------------------------------
(* log: sink_it_ finds the pool gone, or puts the event into the batch.        *)
LogCall(t, urgent) ==
  /\ at[t] = "idle" /\ handle /\ MapThenSumSet(LAMBDA a : logged[a], Threads) < MaxEvents
  /\ logged' = [logged EXCEPT ![t] = @ + 1]
  /\ bag' = [bag EXCEPT ![t] = <<[by |-> t, n |-> logged[t], urgent |-> urgent]>>]
  /\ IF pool = "expired"
     THEN Goto(t, "alone") /\ UNCHANGED held
     ELSE Goto(t, "log") /\ held' = held \union {t}
  /\ UNCHANGED <<strategy, job, lock, mapLock, pending, poolState, poolOwned, handle, alive, sinks, pushed, promised, flushes>>

LogAlone(t) ==
  /\ at[t] = "alone"
  /\ WriteSync(bag[t])
  /\ IF Urgent(bag[t]) THEN FlushSinks ELSE UNCHANGED synced
  /\ pushed' = pushed \union Range(bag[t])
  /\ bag' = [bag EXCEPT ![t] = <<>>]
  /\ Goto(t, "leave")
  /\ UNCHANGED <<strategy, held, job, lock, mapLock, pending, poolState, poolOwned, handle, alive, logged, promised, flushes>>

(* The batch is taken, under the mutex, when it is full, old enough or urgent; *)
(* the mutex stays locked until it is in the queue.                            *)
Push(t) ==
  /\ at[t] = "log" /\ lock = None
  /\ pushed' = pushed \union Range(bag[t])
  /\ LET batch == pending \o bag[t]
     IN \E expired \in BOOLEAN :
          IF Len(batch) >= BatchSize \/ expired \/ Urgent(bag[t])
          THEN /\ pending' = <<>> /\ bag' = [bag EXCEPT ![t] = batch]
               /\ lock' = t /\ Goto(t, "submit")
          ELSE /\ pending' = batch /\ bag' = [bag EXCEPT ![t] = <<>>]
               /\ UNCHANGED lock /\ Goto(t, "leave")
  /\ UNCHANGED <<strategy, held, job, mapLock, poolState, poolOwned, handle, alive, sinks, logged, promised, flushes>>

(* Mutant: nobody asks whether the stopped pool took the task.                 *)
EnqueueAndForget(task, Alone) ==
  /\ UNCHANGED sinks
  /\ \/ pool = "stopped" /\ UNCHANGED queue
     \/ /\ pool # "stopped"
        /\ \/ Room /\ queue' = Append(queue, task)
           \/ ~Room /\ strategy = "DiscardNew" /\ UNCHANGED queue
           \/ ~Room /\ strategy = "DiscardOldest" /\ queue' = Append(Tail(queue), task)

(* A task into the pool's queue by the overflow strategy; on a pool that was   *)
(* stopped only Block does anything, the work itself: Alone.                   *)
Enqueue(task, Alone) ==
  \/ /\ pool = "stopped"
     /\ UNCHANGED queue
     /\ IF strategy = "Block" THEN Alone ELSE UNCHANGED sinks
  \/ /\ pool # "stopped" /\ UNCHANGED sinks
     /\ \/ Room /\ queue' = Append(queue, task)
        \/ ~Room /\ strategy = "DiscardNew" /\ UNCHANGED queue
        \/ ~Room /\ strategy = "DiscardOldest" /\ queue' = Append(Tail(queue), task)

Submit(t) ==
  /\ at[t] = "submit"
  /\ Enqueue([kind |-> "batch", events |-> bag[t], covers |-> {}], WriteSync(bag[t]) /\ FlushSinks)
  /\ bag' = [bag EXCEPT ![t] = <<>>]
  /\ lock' = None /\ Goto(t, "leave")
  /\ UNCHANGED <<strategy, held, job, mapLock, pending, pool, poolOwned, handle, alive, logged, pushed, promised, flushes>>

-----------------------------------------------------------------------------
(* flush, of the logger or by flush_all under the manager's mutex.             *)
FlushCall(t, all) ==
  /\ at[t] = "idle" /\ handle /\ flushes < MaxFlushes
  /\ flushes' = flushes + 1
  /\ mapLock' = IF all THEN t ELSE mapLock
  /\ all => mapLock = None
  /\ IF pool = "expired"
     THEN Goto(t, "flushAlone") /\ UNCHANGED held
     ELSE Goto(t, "flush") /\ held' = held \union {t}
  /\ UNCHANGED <<strategy, bag, job, lock, pending, poolState, poolOwned, handle, alive, sinks, logged, pushed, promised>>

FlushAlone(t) ==
  /\ at[t] = "flushAlone" /\ lock = None
  /\ WriteSync(pending) /\ FlushSinks /\ pending' = <<>>
  /\ Goto(t, "leave")
  /\ UNCHANGED <<strategy, held, bag, job, lock, mapLock, poolState, poolOwned, handle, alive, logged, pushed, promised, flushes>>

(* Mutant: the barrier does not wait for the batch being filled.               *)
FlushTakesNothing(t) ==
  /\ at[t] = "flush" /\ lock = None /\ lock' = t
  /\ Goto(t, "barrier")
  /\ UNCHANGED <<strategy, held, bag, pending, job, mapLock, poolState, poolOwned, handle, alive, sinks, logged, pushed, promised, flushes>>

(* Mutant: flush takes the batch and lets the mutex go.                        *)
FlushTakeUnlocks(t) ==
  /\ at[t] = "flush" /\ lock = None
  /\ bag' = [bag EXCEPT ![t] = pending] /\ pending' = <<>>
  /\ Goto(t, IF pending = <<>> THEN "barrier" ELSE "flushSubmit")
  /\ UNCHANGED <<strategy, held, job, lock, mapLock, poolState, poolOwned, handle, alive, sinks, logged, pushed, promised, flushes>>

(* The batch first, the barrier behind it, in one critical section.            *)
FlushTake(t) ==
  /\ at[t] = "flush" /\ lock = None /\ lock' = t
  /\ bag' = [bag EXCEPT ![t] = pending] /\ pending' = <<>>
  /\ Goto(t, IF pending = <<>> THEN "barrier" ELSE "flushSubmit")
  /\ UNCHANGED <<strategy, held, job, mapLock, poolState, poolOwned, handle, alive, sinks, logged, pushed, promised, flushes>>

FlushSubmit(t) ==
  /\ at[t] = "flushSubmit"
  /\ Enqueue([kind |-> "batch", events |-> bag[t], covers |-> {}], WriteSync(bag[t]) /\ FlushSinks)
  /\ bag' = [bag EXCEPT ![t] = <<>>]
  /\ Goto(t, "barrier")
  /\ UNCHANGED <<strategy, held, job, lock, mapLock, pending, pool, poolOwned, handle, alive, logged, pushed, promised, flushes>>

Barrier(t) ==
  /\ at[t] = "barrier"
  /\ Enqueue([kind |-> "flush", events |-> <<>>, covers |-> pushed], UNCHANGED file /\ FlushSinks)
  /\ lock' = None /\ Goto(t, "leave")
  /\ UNCHANGED <<strategy, held, bag, job, mapLock, pending, pool, poolOwned, handle, alive, logged, pushed, promised, flushes>>

-----------------------------------------------------------------------------
(* The end of a call: the pool_ptr goes first, then the reference to the logger. *)
ReleasePoolOf(a, next) ==
  /\ held' = held \ {a}
  /\ IF a \in held /\ ~PoolHeld(a)
     THEN pool' = "expired" /\ Goto(a, "join")
     ELSE UNCHANGED pool /\ Goto(a, next)

ReleaseLogger(a, next) ==
  IF alive /\ ~LoggerHeld(a)
  THEN alive' = FALSE /\ Goto(a, "dtor")
  ELSE UNCHANGED alive /\ Goto(a, next)

Leave(t) ==
  /\ at[t] = "leave"
  /\ ReleasePoolOf(t, "left")
  /\ mapLock' = IF mapLock = t THEN None ELSE mapLock
  /\ UNCHANGED <<strategy, bag, job, lock, pending, queue, poolOwned, handle, alive, sinks, logged, pushed, promised, flushes>>

Left(t) ==
  /\ at[t] = "left" /\ ReleaseLogger(t, "idle")
  /\ UNCHANGED <<strategy, held, bag, job, lock, mapLock, pending, poolState, poolOwned, handle, sinks, logged, pushed, promised, flushes>>

(* ~ThreadPool: the workers end once the queue is empty.  A worker that joins  *)
(* itself never gets past here (std::system_error out of a destructor).        *)
Join(a) ==
  /\ at[a] = "join" /\ a \notin Workers
  /\ \A w \in Workers : at[w] = "exited"
  /\ Goto(a, IF a \in Threads /\ alive THEN "left" ELSE "idle")
  /\ UNCHANGED <<strategy, held, bag, job, lock, mapLock, pending, poolState, poolOwned, handle, alive, sinks, logged, pushed, promised, flushes>>

(* Mutant: a batch the stopped pool refuses is given up.                       *)
DestroyGivesUp(a) ==
  /\ at[a] = "dsubmit" /\ UNCHANGED sinks
  /\ \/ pool = "stopped" /\ UNCHANGED queue
     \/ /\ pool = "up" /\ Room
        /\ queue' = Append(queue, [kind |-> "rest", events |-> bag[a], covers |-> {}])
  /\ bag' = [bag EXCEPT ![a] = <<>>]
  /\ Goto(a, "dleave")
  /\ UNCHANGED <<strategy, held, job, lock, mapLock, pending, pool, poolOwned, handle, alive, logged, pushed, promised, flushes>>

(* ~AsyncLogger: what is left of the batch to the pool, or to the sinks.       *)
Destroy(a) ==
  /\ at[a] = "dtor"
  /\ \/ /\ pending = <<>>
        /\ Goto(a, "idle")
        /\ UNCHANGED <<held, bag, pending, sinks>>
     \/ /\ pending # <<>> /\ pool = "expired"
        /\ WriteSync(pending) /\ FlushSinks /\ pending' = <<>>
        /\ Goto(a, "idle")
        /\ UNCHANGED <<held, bag>>
     \/ /\ pending # <<>> /\ pool # "expired"
        /\ held' = held \union {a} /\ bag' = [bag EXCEPT ![a] = pending] /\ pending' = <<>>
        /\ Goto(a, "dsubmit")
        /\ UNCHANGED sinks
  /\ UNCHANGED <<strategy, job, lock, mapLock, poolState, poolOwned, handle, alive, logged, pushed, promised, flushes>>

DestroySubmit(a) ==
  /\ at[a] = "dsubmit"
  /\ \/ /\ pool = "stopped" /\ UNCHANGED queue
        /\ WriteSync(bag[a]) /\ FlushSinks
     \/ /\ pool = "up" /\ Room /\ UNCHANGED sinks
        /\ queue' = Append(queue, [kind |-> "rest", events |-> bag[a], covers |-> {}])
  /\ bag' = [bag EXCEPT ![a] = <<>>]
  /\ Goto(a, "dleave")
  /\ UNCHANGED <<strategy, held, job, lock, mapLock, pending, pool, poolOwned, handle, alive, logged, pushed, promised, flushes>>

DestroyLeave(a) ==
  /\ at[a] = "dleave" /\ ReleasePoolOf(a, "idle")
  /\ UNCHANGED <<strategy, bag, job, lock, mapLock, pending, queue, poolOwned, handle, alive, sinks, logged, pushed, promised, flushes>>

-----------------------------------------------------------------------------
(* A worker takes a task, or ends when the pool was stopped and none is left.  *)
Take(w) ==
  /\ at[w] = "idle" /\ queue # <<>>
  /\ job' = [job EXCEPT ![w] = Head(queue)]
  /\ bag' = [bag EXCEPT ![w] = Head(queue).events]
  /\ queue' = Tail(queue)
  /\ Goto(w, "write")
  /\ UNCHANGED <<strategy, held, lock, mapLock, pending, pool, poolOwned, handle, alive, sinks, logged, pushed, promised, flushes>>

Exit(w) ==
  /\ at[w] = "idle" /\ queue = <<>> /\ pool # "up"
  /\ Goto(w, "exited")
  /\ UNCHANGED <<strategy, held, bag, job, lock, mapLock, pending, poolState, poolOwned, handle, alive, sinks, logged, pushed, promised, flushes>>

(* backend_sink_it_batch_ and the destructor's task write the events.          *)
Write(w) ==
  /\ at[w] = "write" /\ bag[w] # <<>>
  /\ file' = file \o bag[w] /\ bag' = [bag EXCEPT ![w] = <<>>]
  /\ UNCHANGED <<strategy, at, held, job, lock, mapLock, pending, poolState, poolOwned, handle, alive, synced, logged, pushed, promised, flushes>>

(* Mutant: the worker submits a barrier to its own pool.                       *)
BackendSubmits(w) ==
  /\ at[w] = "write" /\ bag[w] = <<>>
  /\ IF job[w].kind = "batch" /\ Urgent(job[w].events)
     THEN Enqueue([kind |-> "flush", events |-> <<>>, covers |-> {}], UNCHANGED file /\ FlushSinks)
     ELSE UNCHANGED <<file, queue>> /\ IF job[w].kind = "flush" THEN FlushSinks ELSE UNCHANGED synced
  /\ promised' = promised \union job[w].covers
  /\ Goto(w, "release")
  /\ UNCHANGED <<strategy, held, bag, job, lock, mapLock, pending, pool, poolOwned, handle, alive, logged, pushed, flushes>>

(* backend_flush_, for a barrier or an urgent event of the batch.              *)
Backend(w) ==
  /\ at[w] = "write" /\ bag[w] = <<>>
  /\ UNCHANGED file
  /\ IF job[w].kind = "flush" \/ (job[w].kind = "batch" /\ Urgent(job[w].events))
     THEN FlushSinks ELSE UNCHANGED synced
  /\ promised' = promised \union job[w].covers
  /\ Goto(w, "release")
  /\ UNCHANGED <<strategy, held, bag, job, lock, mapLock, pending, poolState, poolOwned, handle, alive, logged, pushed, flushes>>

(* The task is destroyed, and with it the worker's reference.                  *)
Release(w) ==
  /\ at[w] = "release"
  /\ job' = [job EXCEPT ![w] = [kind |-> None]]
  /\ IF job[w].kind = "rest" THEN UNCHANGED alive /\ Goto(w, "idle") ELSE ReleaseLogger(w, "idle")
  /\ UNCHANGED <<strategy, held, bag, lock, mapLock, pending, poolState, poolOwned, handle, sinks, logged, pushed, promised, flushes>>

-----------------------------------------------------------------------------
(* LoggerManager: drop_all (and drop); the manager's pointer to the pool,      *)
(* which set_thread_pool gives away under living loggers and shutdown after    *)
(* drop_all; and a pool that its owner stops before.                           *)
DropAll ==
  /\ at[Manager] = "idle" /\ handle /\ mapLock = None
  /\ handle' = FALSE
  /\ IF References(Manager) THEN UNCHANGED <<alive, at>> ELSE alive' = FALSE /\ Goto(Manager, "dtor")
  /\ UNCHANGED <<strategy, held, bag, job, lock, mapLock, pending, poolState, poolOwned, sinks, logged, pushed, promised, flushes>>

ResetPool ==
  /\ at[Manager] = "idle" /\ poolOwned
  /\ ReleaseEarly \/ held \intersect Workers = {}
  /\ poolOwned' = FALSE
  /\ IF held = {} THEN pool' = "expired" /\ Goto(Manager, "join") ELSE UNCHANGED <<pool, at>>
  /\ UNCHANGED <<strategy, held, bag, job, lock, mapLock, pending, queue, handle, alive, sinks, logged, pushed, promised, flushes>>

SetThreadPool == handle /\ ResetPool
ReleasePool == ~handle /\ ResetPool

StopPool ==
  /\ at[Manager] = "idle" /\ pool = "up" /\ poolOwned
  /\ pool' = "stopped" /\ Goto(Manager, "join")
  /\ UNCHANGED <<strategy, held, bag, job, lock, mapLock, pending, queue, poolOwned, handle, alive, sinks, logged, pushed, promised, flushes>>

ThreadStep(t) ==
  \/ LogAlone(t) \/ Push(t) \/ Submit(t) \/ FlushAlone(t) \/ FlushTake(t) \/ FlushSubmit(t) \/ Barrier(t)
  \/ Leave(t) \/ Left(t)
WorkerStep(w) == Take(w) \/ Exit(w) \/ Write(w) \/ Backend(w) \/ Release(w)
DestroyStep(a) == Join(a) \/ Destroy(a) \/ DestroySubmit(a) \/ DestroyLeave(a)

Next ==
  \/ \E t \in Threads : \/ \E b \in BOOLEAN : LogCall(t, b) \/ FlushCall(t, b)
                        \/ ThreadStep(t)
  \/ \E w \in Workers : WorkerStep(w)
  \/ \E a \in Actors : DestroyStep(a)
  \/ DropAll \/ SetThreadPool \/ ReleasePool \/ StopPool

Spec == Init /\ [][Next]_vars
FairSpec == /\ Spec
            /\ \A t \in Threads : WF_vars(ThreadStep(t))
            /\ \A w \in Workers : WF_vars(WorkerStep(w))
            /\ \A a \in Actors : WF_vars(DestroyStep(a))

-----------------------------------------------------------------------------
(* With one worker and the pool running, the events of a thread are in the     *)
(* file in the order the thread logged them.                                   *)
ThreadOrder ==
  pool = "up" => \A i, j \in DOMAIN file : i < j /\ file[i].by = file[j].by => file[i].n < file[j].n

(* With one worker and the pool running: when a flush barrier has run, every   *)
(* event that was taken in before the flush submitted it is written and        *)
(* flushed (nothing is discarded under Block).                                 *)
FlushCovers ==
  strategy = "Block" /\ pool = "up" => promised \subseteq {file[i] : i \in 1..synced}

(* Under Block no event that was taken in is ever lost: it is written, or in   *)
(* somebody's hands, in the batch or in the queue, whatever becomes of the     *)
(* logger and of its pool and however many workers it has.                     *)
NothingLost ==
  strategy = "Block" =>
    \A e \in pushed :
      \/ e \in Range(file) \/ e \in Range(pending)
      \/ \E a \in Actors : e \in Range(bag[a])
      \/ \E i \in DOMAIN queue : e \in Range(queue[i].events)

(* log and flush return, and so do the manager's calls: nobody waits for room  *)
(* in the pool's queue, for a mutex or in a join for ever.                     *)
CallsReturn == \A a \in Threads \union {Manager} : at[a] # "idle" ~> at[a] = "idle"

(* Under Block a destroyed logger has lost nothing: what it took in gets to    *)
(* the sinks, whoever destroyed it and whether the pool still runs or not.     *)
DestroyedIsWritten ==
  (strategy = "Block" /\ ~alive) ~> (pushed \subseteq Range(file))

(* No worker runs the destructor of its own pool.                              *)
WorkerNeverJoins == \A w \in Workers : at[w] # "join"
=============================================================================
