-------------------------- MODULE AsyncLoggerProofs --------------------------
(***************************************************************************)
(* Proofs about the asynchronous logger, for any threads, capacity of the  *)
(* pool's queue and size of a batch.  With any number of workers no event  *)
(* is lost under Block.  With one worker, which is what the default pool   *)
(* has (AsynchronousFactory.h:25, 44, 63) and what logger/README.md:101    *)
(* asks for where the order matters, the file keeps the order of each      *)
(* thread's events while the pool is up, and a barrier of flush that has   *)
(* run covers what was taken in before it.                                 *)
(***************************************************************************)
EXTENDS AsyncLogger, SequenceTheorems, TLAPS

Event == [by : Threads, n : Nat, urgent : BOOLEAN]
Task == [kind : {"batch", "flush", "rest"}, events : Seq(Event), covers : SUBSET Event]

Locking == {"submit", "flushSubmit", "barrier"}
Destroying == {"dtor", "dsubmit", "dleave"}
Labels ==
  {"idle", "alone", "log", "flush", "flushAlone", "leave", "left", "join", "write", "release", "exited"}
    \union Locking \union Destroying

Types ==
  /\ strategy \in Strategies
  /\ at \in [Actors -> Labels]
  /\ bag \in [Actors -> Seq(Event)]
  /\ job \in [Workers -> Task \union {[kind |-> None]}]
  /\ \A w \in Workers : at[w] \in {"write", "release"} => job[w] \in Task
  /\ pending \in Seq(Event) /\ queue \in Seq(Task) /\ file \in Seq(Event)
  /\ synced \in 0..Len(file)
  /\ logged \in [Threads -> Nat] /\ pushed \subseteq Event

(* The types hold at the start.                                              *)
LEMMA TypesInit == Init => Types
<1> SUFFICES ASSUME Init PROVE Types
  OBVIOUS
<1>1. at \in [Actors -> Labels] /\ bag \in [Actors -> Seq(Event)]
  BY DEF Init, Labels
<1>2. job \in [Workers -> Task \union {[kind |-> None]}] /\ \A w \in Workers : at[w] = "idle"
  BY DEF Init, Actors
<1>3. file = <<>> /\ synced \in 0..Len(file)
  BY DEF Init
<1> QED BY <1>1, <1>2, <1>3 DEF Init, Types

(* LogCall. *)
LEMMA TypesLogCall == ASSUME Types, NEW t \in Threads, NEW b \in BOOLEAN, LogCall(t, b) PROVE Types'
<1>1. t \in Actors /\ t \notin Workers /\ Workers \subseteq Actors
  BY LoggerAssumption DEF Actors
<1>2. [by |-> t, n |-> logged[t], urgent |-> b] \in Event
  BY DEF Types, Event
<1>3. bag' \in [Actors -> Seq(Event)]
  BY <1>1, <1>2 DEF Types, LogCall
<1>4. logged' \in [Threads -> Nat]
  BY DEF Types, LogCall
<1>5. at' \in [Actors -> Labels] /\ \A w \in Workers : at'[w] = at[w]
  BY <1>1 DEF Types, LogCall, Goto, Labels
<1>6. UNCHANGED <<strategy, job, pending, queue, file, synced, pushed>>
  BY DEF LogCall, poolState, sinks
<1> QED BY <1>3, <1>4, <1>5, <1>6 DEF Types

(* The actors are threads, workers and the manager, and None is none of them. *)
LEMMA ActorsAre ==
  /\ Threads \subseteq Actors /\ Workers \subseteq Actors /\ Manager \in Actors
  /\ Threads \intersect Workers = {} /\ Manager \notin Threads /\ Manager \notin Workers
  /\ None \notin Actors
BY LoggerAssumption DEF Actors

(* What is written and flushed stays within the file.                        *)
LEMMA SinksTyped ==
  ASSUME Types, NEW s \in Seq(Event), WriteSync(s), FlushSinks \/ UNCHANGED synced
  PROVE  file' \in Seq(Event) /\ synced' \in 0..Len(file')
<1>1. file' \in Seq(Event) /\ Len(file') >= Len(file) /\ Len(file') \in Nat
  BY DEF Types, WriteSync
<1> QED BY <1>1 DEF Types, FlushSinks

(* A flush of what is written.                                               *)
LEMMA FlushTyped ==
  ASSUME Types, UNCHANGED file, FlushSinks \/ UNCHANGED synced
  PROVE  file' \in Seq(Event) /\ synced' \in 0..Len(file')
<1>1. Len(file) \in Nat
  BY DEF Types
<1> QED BY <1>1 DEF Types, FlushSinks

(* What Enqueue does to the queue, for a task of its type.                   *)
LEMMA QueueTyped ==
  ASSUME Types, NEW task \in Task,
         \/ UNCHANGED queue
         \/ queue' = Append(queue, task)
         \/ ~Room /\ queue' = Append(Tail(queue), task)
  PROVE  queue' \in Seq(Task)
<1>1. queue \in Seq(Task) /\ Append(queue, task) \in Seq(Task)
  BY DEF Types
<1>2. ASSUME ~Room PROVE Append(Tail(queue), task) \in Seq(Task)
  <2>1. Len(queue) >= QueueSize /\ QueueSize \in Nat \ {0}
    BY <1>2, <1>1, LoggerAssumption DEF Room
  <2>2. Tail(queue) \in Seq(Task)
    BY <1>1, <2>1
  <2> QED BY <2>2
<1> QED BY <1>1, <1>2

(* Enqueue with a batch, and with a barrier.                                 *)
LEMMA BatchTyped ==
  ASSUME Types, NEW s \in Seq(Event),
         Enqueue([kind |-> "batch", events |-> s, covers |-> {}], WriteSync(s) /\ FlushSinks)
  PROVE  queue' \in Seq(Task) /\ file' \in Seq(Event) /\ synced' \in 0..Len(file')
<1>1. [kind |-> "batch", events |-> s, covers |-> {}] \in Task
  BY DEF Task
<1>2. queue' \in Seq(Task)
  <2>1. PICK task \in Task : task = [kind |-> "batch", events |-> s, covers |-> {}]
    BY <1>1
  <2> QED BY <2>1, QueueTyped DEF Enqueue
<1>3. (WriteSync(s) /\ FlushSinks) \/ UNCHANGED <<file, synced>>
  BY DEF Enqueue, sinks
<1> QED BY <1>2, <1>3, SinksTyped, FlushTyped

(* So does the barrier of a flush, which only flushes if it is refused.      *)
LEMMA BarrierTyped ==
  ASSUME Types,
         Enqueue([kind |-> "flush", events |-> <<>>, covers |-> pushed], UNCHANGED file /\ FlushSinks)
  PROVE  queue' \in Seq(Task) /\ file' \in Seq(Event) /\ synced' \in 0..Len(file')
<1>1. [kind |-> "flush", events |-> <<>>, covers |-> pushed] \in Task
  BY DEF Task, Types
<1>2. queue' \in Seq(Task)
  <2>1. PICK task \in Task : task = [kind |-> "flush", events |-> <<>>, covers |-> pushed]
    BY <1>1
  <2> QED BY <2>1, QueueTyped DEF Enqueue
<1>3. UNCHANGED file /\ (FlushSinks \/ UNCHANGED synced)
  BY DEF Enqueue, sinks
<1> QED BY <1>2, <1>3, FlushTyped

(* The steps of a thread keep the types.                                     *)
LEMMA TypesThread ==
  ASSUME Types, NEW t \in Threads, ThreadStep(t) \/ \E b \in BOOLEAN : FlushCall(t, b)
  PROVE  Types'
<1> USE ActorsAre
<1>0. bag[t] \in Seq(Event) /\ <<>> \in Seq(Event) /\ Range(bag[t]) \subseteq Event
  BY RangeOfSeq DEF Types
<1>1. at' \in [Actors -> Labels] /\ \A w \in Workers : at'[w] = at[w]
  BY DEF Types, ThreadStep, LogAlone, Push, Submit, FlushAlone, FlushTake, FlushSubmit, Barrier, Leave, Left,
     FlushCall, Goto, Labels, Locking, Destroying, ReleasePoolOf, ReleaseLogger
<1>2. UNCHANGED <<strategy, job, logged>>
  BY DEF ThreadStep, LogAlone, Push, Submit, FlushAlone, FlushTake, FlushSubmit, Barrier, Leave, Left, FlushCall
<1>3. CASE LogAlone(t)
  <2>1. file' \in Seq(Event) /\ synced' \in 0..Len(file')
    BY <1>0, <1>3, SinksTyped DEF LogAlone
  <2>2. bag' \in [Actors -> Seq(Event)] /\ pushed' \subseteq Event /\ UNCHANGED <<pending, queue>>
    BY <1>0, <1>3 DEF LogAlone, Types, poolState
  <2> QED BY <1>1, <1>2, <2>1, <2>2 DEF Types
<1>4. CASE Push(t)
  <2>1. pending \o bag[t] \in Seq(Event)
    BY <1>0 DEF Types
  <2>2. bag' \in [Actors -> Seq(Event)] /\ pending' \in Seq(Event)
    <3>1. PICK batch \in Seq(Event) : batch = pending \o bag[t]
      BY <2>1
    <3>2. \/ pending' = <<>> /\ bag' = [bag EXCEPT ![t] = batch]
          \/ pending' = batch /\ bag' = [bag EXCEPT ![t] = <<>>]
      BY <1>4, <3>1 DEF Push
    <3>3. pending' \in Seq(Event) /\ \E v \in Seq(Event) : bag' = [bag EXCEPT ![t] = v]
      BY <1>0, <3>2
    <3>4. bag \in [Actors -> Seq(Event)]
      BY DEF Types
    <3> QED BY <3>3, <3>4
  <2>3. pushed' \subseteq Event /\ UNCHANGED <<file, synced, queue>>
    BY <1>0, <1>4 DEF Push, Types, poolState, sinks
  <2> QED BY <1>1, <1>2, <2>2, <2>3 DEF Types
<1>5. CASE Submit(t) \/ FlushSubmit(t)
  <2>1. Enqueue([kind |-> "batch", events |-> bag[t], covers |-> {}], WriteSync(bag[t]) /\ FlushSinks)
    BY <1>5 DEF Submit, FlushSubmit
  <2>2. queue' \in Seq(Task) /\ file' \in Seq(Event) /\ synced' \in 0..Len(file')
    BY <1>0, <2>1, BatchTyped
  <2>3. bag' \in [Actors -> Seq(Event)] /\ UNCHANGED <<pending, pushed>>
    <3>1. bag' = [bag EXCEPT ![t] = <<>>] /\ UNCHANGED <<pending, pushed>>
      BY <1>5 DEF Submit, FlushSubmit
    <3>2. bag \in [Actors -> Seq(Event)]
      BY DEF Types
    <3> QED BY <1>0, <3>1, <3>2
  <2> QED BY <1>1, <1>2, <2>2, <2>3 DEF Types
<1>6. CASE FlushAlone(t)
  <2>1. WriteSync(pending) /\ FlushSinks /\ pending' = <<>> /\ UNCHANGED <<bag, queue, pushed>>
    BY <1>6 DEF FlushAlone, poolState
  <2>2. file' \in Seq(Event) /\ synced' \in 0..Len(file')
    BY <2>1, SinksTyped DEF Types
  <2> QED BY <1>0, <1>1, <1>2, <2>1, <2>2 DEF Types
<1>7. CASE FlushTake(t)
  <2>1. bag' \in [Actors -> Seq(Event)] /\ pending' = <<>> /\ UNCHANGED <<file, synced, queue, pushed>>
    BY <1>7 DEF FlushTake, Types, poolState, sinks
  <2> QED BY <1>0, <1>1, <1>2, <2>1 DEF Types
<1>8. CASE Barrier(t)
  <2>1. Enqueue([kind |-> "flush", events |-> <<>>, covers |-> pushed], UNCHANGED file /\ FlushSinks)
        /\ UNCHANGED <<bag, pending, pushed>>
    BY <1>8 DEF Barrier
  <2>2. queue' \in Seq(Task) /\ file' \in Seq(Event) /\ synced' \in 0..Len(file')
    BY <2>1, BarrierTyped
  <2> QED BY <1>1, <1>2, <2>1, <2>2 DEF Types
<1>9. CASE Leave(t) \/ Left(t) \/ \E b \in BOOLEAN : FlushCall(t, b)
  <2>1. UNCHANGED <<bag, pending, queue, file, synced, pushed>>
    BY <1>9 DEF Leave, Left, FlushCall, poolState, sinks
  <2> QED BY <1>1, <1>2, <2>1 DEF Types
<1> QED BY <1>3, <1>4, <1>5, <1>6, <1>7, <1>8, <1>9 DEF ThreadStep

(* The steps of a worker keep the types.                                     *)
LEMMA TypesWorker == ASSUME Types, NEW w \in Workers, WorkerStep(w) PROVE Types'
<1> USE ActorsAre
<1>0. bag[w] \in Seq(Event) /\ <<>> \in Seq(Event)
  BY DEF Types
<1>1. at' \in [Actors -> Labels] /\ UNCHANGED <<strategy, pending, logged, pushed>>
  BY DEF Types, WorkerStep, Take, Exit, Write, Backend, Release, Goto, Labels, Locking, Destroying, ReleaseLogger
<1>2. CASE Take(w)
  <2>1. Head(queue) \in Task /\ Tail(queue) \in Seq(Task)
    BY <1>2 DEF Take, Types
  <2>2. Head(queue).events \in Seq(Event)
    BY <2>1 DEF Task
  <2>3. bag' \in [Actors -> Seq(Event)] /\ queue' \in Seq(Task) /\ UNCHANGED <<file, synced>>
    BY <1>2, <2>1, <2>2 DEF Take, Types, sinks
  <2>4. job' \in [Workers -> Task \union {[kind |-> None]}]
    BY <1>2, <2>1 DEF Take, Types
  <2>5. \A v \in Workers : at'[v] \in {"write", "release"} => job'[v] \in Task
    BY <1>2, <2>1 DEF Take, Types, Goto
  <2> QED BY <1>1, <2>3, <2>4, <2>5 DEF Types
<1>3. CASE Exit(w)
  <2>1. UNCHANGED <<bag, job, queue, file, synced>> /\ at' = [at EXCEPT ![w] = "exited"]
    BY <1>3 DEF Exit, poolState, sinks, Goto
  <2>2. \A v \in Workers : at'[v] \in {"write", "release"} => job'[v] \in Task
    BY <2>1 DEF Types
  <2> QED BY <1>1, <2>1, <2>2 DEF Types
<1>4. CASE Write(w)
  <2>1. file' \in Seq(Event) /\ synced' \in 0..Len(file')
    BY <1>0, <1>4, SinksTyped DEF Write, WriteSync
  <2>2. bag' \in [Actors -> Seq(Event)] /\ UNCHANGED <<at, job, queue>>
    BY <1>0, <1>4 DEF Write, Types, poolState
  <2> QED BY <1>1, <2>1, <2>2 DEF Types
<1>5. CASE Backend(w)
  <2>1. file' \in Seq(Event) /\ synced' \in 0..Len(file')
    BY <1>5, FlushTyped DEF Backend
  <2>2. UNCHANGED <<bag, job, queue>> /\ at[w] = "write" /\ at' = [at EXCEPT ![w] = "release"]
    BY <1>5 DEF Backend, Goto, poolState
  <2>3. \A v \in Workers : at'[v] \in {"write", "release"} => job'[v] \in Task
    BY <2>2 DEF Types
  <2> QED BY <1>1, <2>1, <2>2, <2>3 DEF Types
<1>6. CASE Release(w)
  <2>1. UNCHANGED <<bag, queue, file, synced>>
    BY <1>6 DEF Release, poolState, sinks
  <2>2. job' \in [Workers -> Task \union {[kind |-> None]}] /\ \A v \in Workers \ {w} : job'[v] = job[v]
    BY <1>6 DEF Release, Types
  <2>3. at'[w] \in {"idle", "dtor"} /\ \A v \in Workers \ {w} : at'[v] = at[v]
    BY <1>6 DEF Release, ReleaseLogger, Goto, Types
  <2>4. \A v \in Workers : at'[v] \in {"write", "release"} => job'[v] \in Task
    BY <2>2, <2>3 DEF Types
  <2> QED BY <1>1, <2>1, <2>2, <2>4 DEF Types
<1> QED BY <1>2, <1>3, <1>4, <1>5, <1>6 DEF WorkerStep

(* The end of a pool and of a logger, and the manager's calls keep them.     *)
LEMMA TypesRest ==
  ASSUME Types, (\E a \in Actors : DestroyStep(a)) \/ DropAll \/ SetThreadPool \/ ReleasePool \/ StopPool
  PROVE  Types'
<1> USE ActorsAre
<1>1. /\ at' \in [Actors -> Labels]
      /\ \A w \in Workers : at'[w] \in {"write", "release"} => at'[w] = at[w]
      /\ UNCHANGED <<strategy, job, logged, pushed>>
  <2>1. \/ UNCHANGED at
        \/ \E a \in Actors, s \in {"idle", "left", "join"} \union Destroying : Goto(a, s)
    <3>1. ASSUME NEW a \in Actors, DestroyStep(a)
          PROVE  \E s \in {"idle", "left", "join"} \union Destroying : Goto(a, s)
      BY <3>1 DEF DestroyStep, Join, Destroy, DestroySubmit, DestroyLeave, ReleasePoolOf, Destroying
    <3>2. CASE DropAll \/ SetThreadPool \/ ReleasePool \/ StopPool
      BY <3>2 DEF DropAll, SetThreadPool, ReleasePool, ResetPool, StopPool, Destroying, Actors
    <3> QED BY <3>1, <3>2
  <2>2. UNCHANGED <<strategy, job, logged, pushed>>
    BY DEF DestroyStep, Join, Destroy, DestroySubmit, DestroyLeave, DropAll, SetThreadPool, ReleasePool,
       ResetPool, StopPool
  <2> QED BY <2>1, <2>2 DEF Types, Goto, Labels, Destroying
<1>2. \A w \in Workers : at'[w] \in {"write", "release"} => job'[w] \in Task
  BY <1>1 DEF Types
<1>3. ASSUME NEW a \in Actors, Destroy(a) PROVE Types'
  <2>1. <<>> \in Seq(Event) /\ pending \in Seq(Event)
    BY DEF Types
  <2>2. bag' \in [Actors -> Seq(Event)] /\ pending' \in Seq(Event) /\ UNCHANGED queue
    <3>1. \/ UNCHANGED <<bag, pending>>
          \/ UNCHANGED bag /\ pending' = <<>>
          \/ bag' = [bag EXCEPT ![a] = pending] /\ pending' = <<>>
      BY <1>3 DEF Destroy
    <3>2. UNCHANGED queue
      BY <1>3 DEF Destroy, poolState
    <3>3. bag \in [Actors -> Seq(Event)]
      BY DEF Types
    <3>4. bag' \in [Actors -> Seq(Event)]
      BY <2>1, <3>1, <3>3
    <3> QED BY <2>1, <3>1, <3>2, <3>4
  <2>3. UNCHANGED <<file, synced>> \/ (WriteSync(pending) /\ FlushSinks)
    BY <1>3 DEF Destroy, sinks
  <2>4. file' \in Seq(Event) /\ synced' \in 0..Len(file')
    BY <2>1, <2>3, SinksTyped, FlushTyped
  <2> QED BY <1>1, <1>2, <2>2, <2>4 DEF Types
<1>4. ASSUME NEW a \in Actors, DestroySubmit(a) PROVE Types'
  <2>1. <<>> \in Seq(Event) /\ bag[a] \in Seq(Event)
    BY DEF Types
  <2>2. [kind |-> "rest", events |-> bag[a], covers |-> {}] \in Task
    BY <2>1 DEF Task
  <2>3. bag' \in [Actors -> Seq(Event)] /\ UNCHANGED pending
    BY <1>4, <2>1 DEF DestroySubmit, Types
  <2>4. queue' \in Seq(Task)
    <3>1. PICK task \in Task : task = [kind |-> "rest", events |-> bag[a], covers |-> {}]
      BY <2>2
    <3> QED BY <1>4, <3>1, QueueTyped DEF DestroySubmit
  <2>5. UNCHANGED <<file, synced>> \/ (WriteSync(bag[a]) /\ FlushSinks)
    BY <1>4 DEF DestroySubmit, sinks
  <2>6. file' \in Seq(Event) /\ synced' \in 0..Len(file')
    BY <2>1, <2>5, SinksTyped, FlushTyped
  <2> QED BY <1>1, <1>2, <2>3, <2>4, <2>6 DEF Types
<1>5. CASE (\E a \in Actors : Join(a) \/ DestroyLeave(a)) \/ DropAll \/ SetThreadPool \/ ReleasePool \/ StopPool
  <2>1. UNCHANGED <<bag, pending, queue, file, synced>>
    BY <1>5 DEF Join, DestroyLeave, DropAll, SetThreadPool, ReleasePool, ResetPool, StopPool, poolState, sinks
  <2> QED BY <1>1, <1>2, <2>1 DEF Types
<1> QED BY <1>3, <1>4, <1>5 DEF DestroyStep

(***************************************************************************)
(* The state of the logger and of its pool keeps its types                 *)
(* (AsyncLogger.h, AsyncLogger.cc), for any number of workers.             *)
(***************************************************************************)
THEOREM LoggerTypes == Spec => []Types
<1>1. Types /\ [Next]_vars => Types'
  <2> SUFFICES ASSUME Types, [Next]_vars PROVE Types'
    OBVIOUS
  <2>1. CASE UNCHANGED vars
    <3>1. UNCHANGED <<strategy, at, bag, job, pending, queue, file, synced, logged, pushed>>
      BY <2>1 DEF vars
    <3> QED BY <3>1 DEF Types
  <2>2. CASE Next
    BY <2>2, TypesLogCall, TypesThread, TypesWorker, TypesRest DEF Next
  <2> QED BY <2>1, <2>2
<1> QED BY <1>1, TypesInit, PTL DEF Spec

-----------------------------------------------------------------------------
(* While the pool is up: where each actor can be.                            *)
UpLabels ==
  /\ \A t \in Threads : at[t] \in {"idle", "log", "flush", "leave", "left"} \union Locking \union Destroying
  /\ \A w \in Workers : at[w] \in {"idle", "write", "release"} \union Destroying
  /\ at[Manager] \in {"idle"} \union Destroying

(* One thread at a time submits, with nothing in the batch behind what it    *)
(* submits: the one that holds the mutex or, once the logger is dead and     *)
(* every call over, the one that destroys it.                                *)
OneSubmits ==
  /\ \A t \in Threads : at[t] \in Locking => lock = t /\ pending = <<>>
  /\ \A a \in Actors : at[a] \in Destroying => ~alive
  /\ \A a, b \in Actors : at[a] \in Destroying /\ at[b] \in Destroying => a = b
  /\ \A a \in Actors : at[a] = "dsubmit" => pending = <<>>
  /\ ~alive => ~handle /\ \A t \in Threads : at[t] \in {"idle"} \union Destroying

Control == UpLabels /\ OneSubmits

(* A pool that is up was up before.                                          *)
LEMMA UpBefore == ASSUME [Next]_vars, pool' = "up" PROVE pool = "up"
<1>1. CASE UNCHANGED vars
  BY <1>1 DEF vars, poolState
<1>2. ASSUME NEW t \in Threads, ThreadStep(t) \/ \E b \in BOOLEAN : LogCall(t, b) \/ FlushCall(t, b)
      PROVE  pool = "up"
  BY <1>2 DEF ThreadStep, LogAlone, Push, Submit, FlushAlone, FlushTake, FlushSubmit, Barrier, Leave, Left,
     LogCall, FlushCall, ReleasePoolOf, poolState
<1>3. ASSUME NEW w \in Workers, WorkerStep(w) PROVE pool = "up"
  BY <1>3 DEF WorkerStep, Take, Exit, Write, Backend, Release, poolState
<1>4. ASSUME NEW a \in Actors, DestroyStep(a) PROVE pool = "up"
  BY <1>4 DEF DestroyStep, Join, Destroy, DestroySubmit, DestroyLeave, ReleasePoolOf, poolState
<1>5. CASE DropAll \/ SetThreadPool \/ ReleasePool \/ StopPool
  BY <1>5 DEF DropAll, SetThreadPool, ReleasePool, ResetPool, StopPool, poolState
<1> QED BY <1>1, <1>2, <1>3, <1>4, <1>5 DEF Next

(* A step of an actor moves nobody else.                                     *)
LEMMA Moved ==
  ASSUME Types, NEW a \in Actors, NEW s, Goto(a, s)
  PROVE  at'[a] = s /\ \A b \in Actors : b # a => at'[b] = at[b]
BY DEF Types, Goto

(* The calls of log and flush.                                               *)
LEMMA ControlCall ==
  ASSUME Types, Control, pool' = "up", pool = "up", NEW t \in Threads, NEW b \in BOOLEAN,
         LogCall(t, b) \/ FlushCall(t, b)
  PROVE  Control'
<1> USE ActorsAre DEF Control, UpLabels, OneSubmits, Locking, Destroying
<1>1. /\ Goto(t, "log") \/ Goto(t, "flush")
      /\ handle /\ alive /\ UNCHANGED <<lock, pending, alive, handle>>
  BY DEF LogCall, FlushCall, poolState
<1>2. at'[t] \in {"log", "flush"} /\ \A b2 \in Actors : b2 # t => at'[b2] = at[b2]
  BY <1>1, Moved
<1>3. UpLabels'
  BY <1>2
<1>4. \A a \in Actors : at[a] \notin Destroying /\ at'[a] \notin Destroying
  BY <1>1, <1>2
<1> QED BY <1>1, <1>2, <1>3, <1>4

(* The critical sections and the end of a call.                              *)
LEMMA ControlThread ==
  ASSUME Types, Control, pool' = "up", pool = "up", NEW t \in Threads, ThreadStep(t)
  PROVE  Control'
<1> USE ActorsAre DEF Control, UpLabels, OneSubmits, Locking, Destroying
<1>1. CASE LogAlone(t) \/ FlushAlone(t)
  BY <1>1 DEF LogAlone, FlushAlone
<1>2. CASE Push(t) \/ FlushTake(t)
  <2>1. at[t] \in {"log", "flush"} /\ lock = None /\ alive /\ UNCHANGED <<alive, handle>>
    BY <1>2 DEF Push, FlushTake
  <2>2. \/ /\ pending' = <<>> /\ lock' = t
           /\ Goto(t, "submit") \/ Goto(t, "barrier") \/ Goto(t, "flushSubmit")
        \/ lock' = None /\ Goto(t, "leave")
    BY <1>2, <2>1 DEF Push, FlushTake
  <2>3. \A a \in Actors : at[a] \notin Locking \union Destroying
    <3>1. \A a \in Threads : at[a] \notin Locking
      BY <2>1
    <3> QED BY <2>1, <3>1 DEF Actors
  <2>4. at'[t] \in Locking \union {"leave"} /\ \A a \in Actors : a # t => at'[a] = at[a]
    BY <2>2, Moved
  <2>5. at'[t] \in Locking => pending' = <<>> /\ lock' = t
    BY <2>2, Moved
  <2>6. UpLabels'
    BY <2>4
  <2>7. \A a \in Actors : at'[a] \notin Destroying
    BY <2>3, <2>4
  <2> QED BY <2>1, <2>3, <2>4, <2>5, <2>6, <2>7
<1>3. CASE Submit(t) \/ FlushSubmit(t) \/ Barrier(t)
  <2>1. at[t] \in Locking /\ lock = t /\ pending = <<>> /\ alive /\ UNCHANGED <<pending, alive, handle>>
    BY <1>3 DEF Submit, FlushSubmit, Barrier
  <2>2. (lock' = lock /\ Goto(t, "barrier")) \/ Goto(t, "leave")
    BY <1>3 DEF Submit, FlushSubmit, Barrier
  <2>3. \A a \in Actors : a # t => at[a] \notin Locking \union Destroying
    <3>1. \A a \in Threads : a # t => at[a] \notin Locking
      BY <2>1
    <3> QED BY <2>1, <3>1 DEF Actors
  <2>4. at'[t] \in {"barrier", "leave"} /\ \A a \in Actors : a # t => at'[a] = at[a]
    BY <2>2, Moved
  <2>5. at'[t] = "barrier" => lock' = t
    BY <2>1, <2>2, Moved
  <2>6. UpLabels'
    BY <2>4
  <2>7. \A a \in Actors : at'[a] \notin Destroying
    BY <2>3, <2>4
  <2> QED BY <2>1, <2>3, <2>4, <2>5, <2>6, <2>7
<1>4. CASE Leave(t)
  <2>1. at[t] = "leave" /\ at' = [at EXCEPT ![t] = "left"] /\ UNCHANGED <<lock, pending, alive, handle>>
    BY <1>4 DEF Leave, ReleasePoolOf, Goto
  <2> QED BY <2>1 DEF Types
<1>5. CASE Left(t)
  <2>1. at[t] = "left" /\ alive /\ UNCHANGED <<lock, pending, handle>>
    BY <1>5 DEF Left
  <2>2. CASE LoggerHeld(t)
    <3>1. at' = [at EXCEPT ![t] = "idle"] /\ UNCHANGED alive
      BY <1>5, <2>2 DEF Left, ReleaseLogger, Goto
    <3> QED BY <2>1, <3>1 DEF Types
  <2>3. CASE ~LoggerHeld(t)
    <3>1. at' = [at EXCEPT ![t] = "dtor"] /\ alive' = FALSE /\ ~handle /\ \A s \in Threads \ {t} : at[s] = "idle"
      BY <1>5, <2>1, <2>3 DEF Left, ReleaseLogger, Goto, LoggerHeld, References
    <3> QED BY <2>1, <3>1 DEF Types
  <2> QED BY <2>2, <2>3
<1> QED BY <1>1, <1>2, <1>3, <1>4, <1>5 DEF ThreadStep

(* The workers.                                                              *)
LEMMA ControlWorker ==
  ASSUME Types, Control, pool' = "up", pool = "up", NEW w \in Workers, WorkerStep(w)
  PROVE  Control'
<1> USE ActorsAre DEF Control, UpLabels, OneSubmits, Locking, Destroying
<1>0. UNCHANGED <<lock, pending, handle>>
  BY DEF WorkerStep, Take, Exit, Write, Backend, Release, poolState
<1>1. CASE Take(w) \/ Exit(w) \/ Write(w) \/ Backend(w)
  <2>1. /\ at[w] \in {"idle", "write"} /\ UNCHANGED alive
        /\ at' = at \/ Goto(w, "write") \/ Goto(w, "release")
    BY <1>1 DEF Take, Exit, Write, Backend, poolState
  <2>2. at'[w] \in {"idle", "write", "release"} /\ \A a \in Actors : a # w => at'[a] = at[a]
    BY <2>1, Moved
  <2>3. UpLabels'
    BY <2>2
  <2>4. \A a \in Actors : at'[a] \in Destroying => at[a] \in Destroying /\ at'[a] = at[a]
    BY <2>2
  <2>5. \A t \in Threads : at'[t] = at[t]
    BY <2>2
  <2> QED BY <1>0, <2>1, <2>3, <2>4, <2>5
<1>2. CASE Release(w)
  <2>1. at[w] = "release"
    BY <1>2 DEF Release
  <2>2. CASE at' = [at EXCEPT ![w] = "idle"] /\ UNCHANGED alive
    BY <1>0, <2>1, <2>2 DEF Types
  <2>3. CASE alive /\ ~LoggerHeld(w) /\ alive' = FALSE /\ at' = [at EXCEPT ![w] = "dtor"]
    <3>1. ~handle /\ \A s \in Threads : at[s] = "idle"
      BY <2>3 DEF LoggerHeld, References
    <3> QED BY <1>0, <2>1, <2>3, <3>1 DEF Types
  <2> QED BY <1>2, <2>2, <2>3 DEF Release, ReleaseLogger, Goto
<1> QED BY <1>1, <1>2 DEF WorkerStep

(* The destructor and the manager.                                           *)
LEMMA ControlRest ==
  ASSUME Types, Control, pool' = "up", pool = "up",
         (\E a \in Actors : DestroyStep(a)) \/ DropAll \/ SetThreadPool \/ ReleasePool \/ StopPool
  PROVE  Control'
<1> USE ActorsAre DEF Control, UpLabels, OneSubmits, Locking, Destroying
<1>1. ASSUME NEW a \in Actors, DestroyStep(a) PROVE Control'
  <2>1. ~Join(a)
    BY DEF Join, Actors
  <2>2. /\ at[a] \in Destroying /\ (pending' = pending \/ pending' = <<>>)
        /\ UNCHANGED <<lock, alive, handle>>
    BY <1>1, <2>1 DEF DestroyStep, Destroy, DestroySubmit, DestroyLeave
  <2>3. \/ Goto(a, "idle")
        \/ Goto(a, "dsubmit") /\ pending' = <<>>
        \/ Goto(a, "dleave")
    BY <1>1, <2>1 DEF DestroyStep, Destroy, DestroySubmit, DestroyLeave, ReleasePoolOf
  <2>4. ~alive /\ ~handle /\ \A t \in Threads : at[t] \notin Locking
    BY <2>2
  <2>5. at'[a] \in {"idle"} \union Destroying /\ \A b \in Actors : b # a => at'[b] = at[b]
    BY <2>3, Moved
  <2>6. at'[a] = "dsubmit" => pending' = <<>>
    BY <2>3, Moved
  <2>7. \A b \in Actors : b # a => at'[b] \notin Destroying
    BY <2>2, <2>5
  <2>8. UpLabels'
    BY <2>5
  <2>9. \A t \in Threads : at'[t] \in {"idle"} \union Destroying
    BY <2>4, <2>5
  <2> QED BY <2>2, <2>4, <2>6, <2>7, <2>8, <2>9
<1>2. CASE DropAll
  <2>1. at[Manager] = "idle" /\ handle /\ alive /\ handle' = FALSE /\ UNCHANGED <<lock, pending>>
    BY <1>2 DEF DropAll
  <2>2. CASE References(Manager)
    BY <1>2, <2>1, <2>2 DEF DropAll
  <2>3. CASE ~References(Manager)
    <3>1. alive' = FALSE /\ at' = [at EXCEPT ![Manager] = "dtor"] /\ \A t \in Threads : at[t] = "idle"
      BY <1>2, <2>3 DEF DropAll, Goto, References
    <3> QED BY <2>1, <3>1 DEF Types
  <2> QED BY <2>2, <2>3
<1>3. CASE SetThreadPool \/ ReleasePool \/ StopPool
  BY <1>3 DEF SetThreadPool, ReleasePool, ResetPool, StopPool, poolState
<1> QED BY <1>1, <1>2, <1>3

(* While the pool is up, control is where it should be, with any workers.    *)
LEMMA ControlHolds == Spec => [](pool = "up" => Control)
<1>1. Init => Control
  BY ActorsAre DEF Init, Control, UpLabels, OneSubmits, Locking, Destroying
<1>2. Types /\ (pool = "up" => Control) /\ [Next]_vars => (pool = "up" => Control)'
  <2> SUFFICES ASSUME Types, pool = "up" => Control, [Next]_vars, pool' = "up" PROVE Control'
    OBVIOUS
  <2>1. pool = "up" /\ Control
    BY UpBefore
  <2>2. CASE UNCHANGED vars
    <3>1. UNCHANGED <<at, lock, pending, alive, handle>>
      BY <2>2 DEF vars
    <3> QED BY <2>1, <3>1 DEF Control, UpLabels, OneSubmits
  <2>3. CASE Next
    BY <2>1, <2>3, ControlCall, ControlThread, ControlWorker, ControlRest DEF Next
  <2> QED BY <2>2, <2>3
<1> QED BY <1>1, <1>2, LoggerTypes, PTL DEF Spec

-----------------------------------------------------------------------------
(* Events of one thread have the order of their numbers, within a sequence   *)
(* and from one sequence to a later one; a sequence holds only events whose  *)
(* numbers were issued.                                                      *)
Sorted(s) == \A i, j \in 1..Len(s) : i < j /\ s[i].by = s[j].by => s[i].n < s[j].n
Below(s, u) == \A i \in 1..Len(s), j \in 1..Len(u) : s[i].by = u[j].by => s[i].n < u[j].n
Known(s, issued) == \A i \in 1..Len(s) : s[i].n < issued[s[i].by]

(* The sequences line[0] to line[last] are in this order, one after another. *)
Ordered(line, last, issued) ==
  /\ \A k \in 0..last : line[k] \in Seq(Event) /\ Sorted(line[k]) /\ Known(line[k], issued)
  /\ \A k, l \in 0..last : k < l => Below(line[k], line[l])

(* An empty sequence is in order with any.                                   *)
LEMMA EmptyOrder ==
  /\ <<>> \in Seq(Event) /\ Sorted(<<>>)
  /\ \A issued : Known(<<>>, issued)
  /\ \A s : Below(<<>>, s) /\ Below(s, <<>>)
BY DEF Sorted, Known, Below

(* Putting a sequence behind one that it may follow.                         *)
LEMMA ConcatOrder ==
  ASSUME NEW s \in Seq(Event), NEW u \in Seq(Event)
  PROVE  /\ s \o u \in Seq(Event)
         /\ Sorted(s) /\ Sorted(u) /\ Below(s, u) => Sorted(s \o u)
         /\ \A issued : Known(s, issued) /\ Known(u, issued) => Known(s \o u, issued)
         /\ \A v \in Seq(Event) : Below(s, v) /\ Below(u, v) => Below(s \o u, v)
         /\ \A v \in Seq(Event) : Below(v, s) /\ Below(v, u) => Below(v, s \o u)
<1>0. s \o u \in Seq(Event)
  OBVIOUS
<1>1. PICK c \in Seq(Event) : c = s \o u
  BY <1>0
<1>2. /\ Len(c) = Len(s) + Len(u) /\ Len(s) \in Nat /\ Len(u) \in Nat
      /\ \A i \in 1..Len(s) : c[i] = s[i]
      /\ \A i \in 1..Len(c) : i > Len(s) => i - Len(s) \in 1..Len(u) /\ c[i] = u[i - Len(s)]
  BY <1>1
<1>3. \A i \in 1..Len(c) : (i \in 1..Len(s) /\ c[i] = s[i]) \/ (i > Len(s) /\ i - Len(s) \in 1..Len(u) /\ c[i] = u[i - Len(s)])
  BY <1>2
<1>4. Sorted(s) /\ Sorted(u) /\ Below(s, u) => Sorted(c)
  <2> SUFFICES ASSUME Sorted(s), Sorted(u), Below(s, u), NEW i \in 1..Len(c), NEW j \in 1..Len(c), i < j,
                      c[i].by = c[j].by
               PROVE  c[i].n < c[j].n
    BY DEF Sorted
  <2>1. CASE j \in 1..Len(s)
    <3>1. i \in 1..Len(s)
      BY <2>1, <1>2
    <3> QED BY <2>1, <3>1, <1>2 DEF Sorted
  <2>2. CASE i \in 1..Len(s) /\ j > Len(s)
    BY <2>2, <1>2 DEF Below
  <2>3. CASE i > Len(s)
    <3>1. i - Len(s) \in 1..Len(u) /\ j - Len(s) \in 1..Len(u) /\ c[i] = u[i - Len(s)] /\ c[j] = u[j - Len(s)]
      BY <2>3, <1>2
    <3>2. i - Len(s) < j - Len(s)
      BY <1>2
    <3> QED BY <3>1, <3>2 DEF Sorted
  <2> QED BY <2>1, <2>2, <2>3, <1>2
<1>5. \A issued : Known(s, issued) /\ Known(u, issued) => Known(c, issued)
  BY <1>3 DEF Known
<1>6. \A v \in Seq(Event) : Below(s, v) /\ Below(u, v) => Below(c, v)
  BY <1>3 DEF Below
<1>7. \A v \in Seq(Event) : Below(v, s) /\ Below(v, u) => Below(v, c)
  BY <1>3 DEF Below
<1> QED BY <1>1, <1>4, <1>5, <1>6, <1>7

-----------------------------------------------------------------------------
(* What a step can do to a line of sequences f[0] to f[m]: nothing, pass the *)
(* last one on and begin another, drop it, also drop the third, fetch what   *)
(* is third into an empty second place, write the second place out behind    *)
(* the first, or let the last one grow.                                      *)
Still(f, m, g, n) == n = m /\ \A k \in 0..m : g[k] = f[k]
Passed(f, m, g, n) == n = m + 1 /\ g[n] = <<>> /\ \A k \in 0..m : g[k] = f[k]
Dropped(f, m, g, n) == n = m /\ g[n] = <<>> /\ \A k \in 0..(m - 1) : g[k] = f[k]
Shifted(f, m, g, n) ==
  n = m /\ g[n] = <<>> /\ (\A k \in 0..1 : g[k] = f[k]) /\ \A k \in 2..(m - 1) : g[k] = f[k + 1]
Fetched(f, m, g, n) ==
  n = m - 1 /\ f[1] = <<>> /\ g[0] = f[0] /\ \A k \in 1..n : g[k] = f[k + 1]
Written(f, m, g, n) ==
  n = m /\ g[0] = f[0] \o f[1] /\ g[1] = <<>> /\ \A k \in 2..m : g[k] = f[k]
Grown(f, m, g, n, s) ==
  n = m /\ g[n] = f[m] \o s /\ \A k \in 0..(m - 1) : g[k] = f[k]

(* Numbers that are issued stay issued.                                      *)
LEMMA KnownMore ==
  ASSUME NEW c \in [Threads -> Nat], NEW d \in [Threads -> Nat], \A t \in Threads : c[t] <= d[t],
         NEW s \in Seq(Event), Known(s, c)
  PROVE  Known(s, d)
<1>1. \A i \in 1..Len(s) : s[i] \in Event
  OBVIOUS
<1>2. \A e \in Event : e.by \in Threads /\ e.n \in Nat
  BY DEF Event
<1>3. \A i \in 1..Len(s) : s[i].by \in Threads /\ s[i].n \in Nat
  BY <1>1, <1>2
<1> QED BY <1>3 DEF Known

(* Everything but writing and growing chooses from the line, in order.       *)
LEMMA ChosenOrdered ==
  ASSUME NEW m \in Nat, m >= 2, NEW n \in Nat, NEW f, NEW g,
         NEW c \in [Threads -> Nat], NEW d \in [Threads -> Nat], \A t \in Threads : c[t] <= d[t],
         Ordered(f, m, c),
         \/ Still(f, m, g, n) \/ Passed(f, m, g, n) \/ Dropped(f, m, g, n)
         \/ Shifted(f, m, g, n) \/ Fetched(f, m, g, n)
  PROVE  Ordered(g, n, d)
<1>1. \A k \in 0..m : f[k] \in Seq(Event) /\ Sorted(f[k]) /\ Known(f[k], d)
  BY KnownMore DEF Ordered
<1>2. \A k, l \in 0..m : k < l => Below(f[k], f[l])
  BY DEF Ordered
<1>3. \A k \in 0..n : g[k] = <<>> \/ \E j \in 0..m : g[k] = f[j]
  BY DEF Still, Passed, Dropped, Shifted, Fetched
<1>4. \A k, l \in 0..n : k < l => g[k] = <<>> \/ g[l] = <<>> \/ \E i, j \in 0..m : i < j /\ g[k] = f[i] /\ g[l] = f[j]
  <2>1. CASE Still(f, m, g, n)
    BY <2>1 DEF Still
  <2>2. CASE Passed(f, m, g, n)
    BY <2>2 DEF Passed
  <2>3. CASE Dropped(f, m, g, n)
    BY <2>3 DEF Dropped
  <2>4. CASE Shifted(f, m, g, n)
    <3>1. \A k \in 0..n : k = n \/ (k <= 1 /\ g[k] = f[k]) \/ (k >= 2 /\ k + 1 \in 0..m /\ g[k] = f[k + 1])
      BY <2>4 DEF Shifted
    <3>2. ASSUME NEW k \in 0..n, NEW l \in 0..n, k < l
          PROVE  g[k] = <<>> \/ g[l] = <<>> \/ \E i, j \in 0..m : i < j /\ g[k] = f[i] /\ g[l] = f[j]
      <4>1. CASE l = n \/ k = n
        BY <2>4, <4>1 DEF Shifted
      <4>2. CASE l # n /\ k <= 1 /\ l <= 1
        <5>1. k \in 0..m /\ l \in 0..m /\ g[k] = f[k] /\ g[l] = f[l]
          BY <2>4, <3>1, <3>2, <4>2 DEF Shifted
        <5> QED BY <3>2, <5>1
      <4>3. CASE l # n /\ k <= 1 /\ l >= 2
        <5>1. k \in 0..m /\ l + 1 \in 0..m /\ g[k] = f[k] /\ g[l] = f[l + 1] /\ k < l + 1
          BY <2>4, <3>1, <3>2, <4>3 DEF Shifted
        <5> QED BY <5>1
      <4>4. CASE l # n /\ k # n /\ k >= 2
        <5>1. k + 1 \in 0..m /\ l + 1 \in 0..m /\ g[k] = f[k + 1] /\ g[l] = f[l + 1] /\ k + 1 < l + 1
          BY <2>4, <3>1, <3>2, <4>4 DEF Shifted
        <5> QED BY <5>1
      <4> QED BY <4>1, <4>2, <4>3, <4>4
    <3> QED BY <3>2
  <2>5. CASE Fetched(f, m, g, n)
    <3>1. \A k \in 0..n : (k = 0 /\ g[k] = f[k]) \/ (k >= 1 /\ k + 1 \in 0..m /\ g[k] = f[k + 1])
      BY <2>5 DEF Fetched
    <3> QED BY <3>1, <2>5 DEF Fetched
  <2> QED BY <2>1, <2>2, <2>3, <2>4, <2>5
<1> QED BY <1>1, <1>2, <1>3, <1>4, EmptyOrder DEF Ordered

(* Writing out keeps the order.                                              *)
LEMMA WrittenOrdered ==
  ASSUME NEW m \in Nat, m >= 2, NEW n \in Nat, NEW f, NEW g, NEW c, Ordered(f, m, c), Written(f, m, g, n)
  PROVE  Ordered(g, n, c)
<1>1. /\ n = m /\ g[0] = f[0] \o f[1] /\ g[1] = <<>>
      /\ \A k \in 0..n : k = 0 \/ k = 1 \/ (k >= 2 /\ g[k] = f[k])
  BY DEF Written
<1>2. \A k \in 0..m : f[k] \in Seq(Event) /\ Sorted(f[k]) /\ Known(f[k], c)
  BY DEF Ordered
<1>3. \A k, l \in 0..m : k < l => Below(f[k], f[l])
  BY DEF Ordered
<1>4. 0 \in 0..m /\ 1 \in 0..m
  OBVIOUS
<1>5. f[0] \o f[1] \in Seq(Event) /\ Sorted(f[0] \o f[1]) /\ Known(f[0] \o f[1], c)
  BY <1>2, <1>3, <1>4, ConcatOrder
<1>6. \A k \in 2..m : Below(f[0] \o f[1], f[k])
  BY <1>2, <1>3, <1>4, ConcatOrder
<1>7. \A k \in 0..n : g[k] \in Seq(Event) /\ Sorted(g[k]) /\ Known(g[k], c)
  BY <1>1, <1>2, <1>5, EmptyOrder
<1>8. ASSUME NEW k \in 0..n, NEW l \in 0..n, k < l PROVE Below(g[k], g[l])
  <2>1. CASE l = 1
    BY <2>1, <1>1, EmptyOrder
  <2>2. CASE k = 0 /\ l >= 2
    BY <2>2, <1>1, <1>6
  <2>3. CASE k = 1
    BY <2>3, <1>1, EmptyOrder
  <2>4. CASE k >= 2
    BY <2>4, <1>8, <1>1, <1>3
  <2> QED BY <1>8, <2>1, <2>2, <2>3, <2>4
<1> QED BY <1>7, <1>8 DEF Ordered

(* Growing by one event with the number that is issued next keeps the order. *)
LEMMA GrownOrdered ==
  ASSUME NEW m \in Nat, m >= 2, NEW n \in Nat, NEW f, NEW g,
         NEW c \in [Threads -> Nat], NEW d \in [Threads -> Nat], \A t \in Threads : c[t] <= d[t],
         Ordered(f, m, c), NEW s \in Seq(Event), Len(s) = 1, s[1].n = c[s[1].by], s[1].n < d[s[1].by],
         Grown(f, m, g, n, s)
  PROVE  Ordered(g, n, d)
<1>1. /\ n = m /\ g[n] = f[m] \o s
      /\ \A k \in 0..n : k = n \/ (k < n /\ g[k] = f[k])
  BY DEF Grown
<1>2. \A k \in 0..m : f[k] \in Seq(Event) /\ Sorted(f[k]) /\ Known(f[k], d)
  BY KnownMore DEF Ordered
<1>3. \A k, l \in 0..m : k < l => Below(f[k], f[l])
  BY DEF Ordered
<1>4. m \in 0..m /\ Sorted(s) /\ Known(s, d)
  BY DEF Sorted, Known
<1>5. \A k \in 0..m : Below(f[k], s)
  <2>1. \A k \in 0..m : Known(f[k], c)
    BY DEF Ordered
  <2> QED BY <2>1 DEF Known, Below
<1>6. f[m] \o s \in Seq(Event) /\ Sorted(f[m] \o s) /\ Known(f[m] \o s, d)
  BY <1>2, <1>4, <1>5, ConcatOrder
<1>7. \A k \in 0..m : k < m => Below(f[k], f[m] \o s)
  BY <1>2, <1>3, <1>4, <1>5, ConcatOrder
<1>8. \A k \in 0..n : g[k] \in Seq(Event) /\ Sorted(g[k]) /\ Known(g[k], d)
  BY <1>1, <1>2, <1>6
<1>9. ASSUME NEW k \in 0..n, NEW l \in 0..n, k < l PROVE Below(g[k], g[l])
  <2>1. k \in 0..m /\ k < m /\ g[k] = f[k]
    BY <1>9, <1>1
  <2>2. CASE l = m
    BY <2>1, <2>2, <1>1, <1>7
  <2>3. CASE l < m
    BY <1>9, <2>1, <2>3, <1>1, <1>3
  <2> QED BY <2>2, <2>3, <1>1
<1> QED BY <1>8, <1>9 DEF Ordered

-----------------------------------------------------------------------------
(* The events on their way, oldest first: the file, what the worker has      *)
(* taken and not written, the batches of the queue, and the batch that is    *)
(* being filled or, already taken by someone, submitted.                     *)
TheWorker == CHOOSE w \in Workers : TRUE
OneWorker == Workers = {TheWorker}

Submitting == {"submit", "flushSubmit", "dsubmit"}
Hands == {a \in Actors : at[a] \in Submitting}
Batch == IF Hands = {} THEN pending ELSE bag[CHOOSE a \in Hands : TRUE]
Work == IF at[TheWorker] = "write" THEN bag[TheWorker] ELSE <<>>

End == Len(queue) + 2
Line ==
  [k \in 0..End |-> IF k = 0 THEN file
                    ELSE IF k = 1 THEN Work
                    ELSE IF k = End THEN Batch
                    ELSE queue[k - 1].events]

LineIs ==
  /\ End \in Nat /\ End >= 2 /\ Len(queue) \in Nat /\ End = Len(queue) + 2
  /\ Line[0] = file /\ Line[1] = Work /\ Line[End] = Batch
  /\ \A k \in 2..(End - 1) : Line[k] = queue[k - 1].events /\ k - 1 \in 1..Len(queue)
  /\ \A k \in 0..End : Line[k] \in Seq(Event)
  /\ (\A a \in Actors : at[a] \notin Submitting) => Batch = pending
  /\ \A a \in Actors : at[a] \in Submitting =>
       Batch = bag[a] /\ pending = <<>> /\ \A b \in Actors : b # a => at[b] \notin Submitting
  /\ at[TheWorker] = "write" => Work = bag[TheWorker]
  /\ at[TheWorker] # "write" => Work = <<>>

(* While the pool is up, one actor at most has its hands on a batch.         *)
LEMMA OneHand ==
  ASSUME Types, Control, NEW a \in Actors, at[a] \in Submitting
  PROVE  pending = <<>> /\ \A b \in Actors : b # a => at[b] \notin Submitting
<1> USE ActorsAre DEF Control, UpLabels, OneSubmits, Locking, Destroying, Submitting
<1>1. CASE a \in Threads /\ at[a] \in Locking
  <2>1. alive /\ lock = a /\ pending = <<>>
    BY <1>1
  <2>2. ASSUME NEW b \in Actors, b # a, at[b] \in Submitting PROVE FALSE
    <3>1. CASE b \in Threads
      BY <2>1, <2>2, <3>1
    <3>2. CASE b \notin Threads
      <4>1. at[b] = "dsubmit"
        BY <2>2, <3>2 DEF Actors
      <4> QED BY <2>1, <4>1
    <3> QED BY <3>1, <3>2
  <2> QED BY <2>1, <2>2
<1>2. CASE at[a] = "dsubmit"
  <2>1. ~alive /\ pending = <<>>
    BY <1>2
  <2>2. ASSUME NEW b \in Actors, b # a, at[b] \in Submitting PROVE FALSE
    <3>1. CASE b \in Threads
      BY <1>2, <2>1, <2>2, <3>1
    <3>2. CASE b \notin Threads
      <4>1. at[b] = "dsubmit"
        BY <2>2, <3>2 DEF Actors
      <4> QED BY <1>2, <2>2, <4>1
    <3> QED BY <3>1, <3>2
  <2> QED BY <2>1, <2>2
<1> QED BY <1>1, <1>2 DEF Actors

(* The line by its parts.                                                    *)
LEMMA LineParts == ASSUME OneWorker, Types, Control PROVE LineIs
<1>1. End \in Nat /\ End >= 2 /\ Len(queue) \in Nat /\ End = Len(queue) + 2
  BY DEF Types, End
<1>2. /\ Line[0] = file /\ Line[1] = Work /\ Line[End] = Batch
      /\ \A k \in 2..(End - 1) : Line[k] = queue[k - 1].events
  <2>1. 0 \in 0..End /\ 1 \in 0..End /\ End \in 0..End /\ End # 0 /\ End # 1
    BY <1>1
  <2>2. \A k \in 2..(End - 1) : k \in 0..End /\ k # 0 /\ k # 1 /\ k # End
    BY <1>1
  <2> HIDE DEF End
  <2> QED BY <2>1, <2>2 DEF Line
<1>3. \A k \in 2..(End - 1) : k - 1 \in 1..Len(queue)
  BY <1>1
<1>4. (\A a \in Actors : at[a] \notin Submitting) => Hands = {} /\ Batch = pending
  BY DEF Hands, Batch
<1>5. ASSUME NEW a \in Actors, at[a] \in Submitting
      PROVE  Batch = bag[a] /\ pending = <<>> /\ \A b \in Actors : b # a => at[b] \notin Submitting
  <2>1. pending = <<>> /\ \A b \in Actors : b # a => at[b] \notin Submitting
    BY <1>5, OneHand
  <2>2. Hands = {a}
    BY <1>5, <2>1 DEF Hands
  <2>3. (CHOOSE b \in {a} : TRUE) = a
    OBVIOUS
  <2> QED BY <2>1, <2>2, <2>3 DEF Batch
<1>6. at[TheWorker] = "write" => Work = bag[TheWorker]
  BY DEF Work
<1>7. at[TheWorker] # "write" => Work = <<>>
  BY DEF Work
<1>8. ASSUME NEW k \in 0..End PROVE Line[k] \in Seq(Event)
  <2>1. file \in Seq(Event) /\ pending \in Seq(Event) /\ <<>> \in Seq(Event) /\ \A a \in Actors : bag[a] \in Seq(Event)
    BY DEF Types
  <2>2. Work \in Seq(Event)
    BY <2>1, <1>6, <1>7, ActorsAre DEF OneWorker
  <2>3. Batch \in Seq(Event)
    BY <2>1, <1>4, <1>5
  <2>4. ASSUME k \in 2..(End - 1) PROVE queue[k - 1].events \in Seq(Event)
    <3>1. queue[k - 1] \in Task
      BY <1>3, <2>4 DEF Types
    <3> QED BY <3>1 DEF Task
  <2>5. k = 0 \/ k = 1 \/ k = End \/ k \in 2..(End - 1)
    BY <1>1
  <2> QED BY <1>2, <2>1, <2>2, <2>3, <2>4, <2>5
<1> QED BY <1>1, <1>2, <1>3, <1>4, <1>5, <1>6, <1>7, <1>8 DEF LineIs

-----------------------------------------------------------------------------
(* A batch nobody touches stays.                                             *)
LEMMA BatchStill ==
  ASSUME LineIs, LineIs', UNCHANGED pending,
         \A a \in Actors : at'[a] \in Submitting <=> at[a] \in Submitting,
         \A a \in Actors : at[a] \in Submitting => bag'[a] = bag[a]
  PROVE  Batch' = Batch
<1>1. CASE \A a \in Actors : at[a] \notin Submitting
  <2>1. Batch = pending /\ Batch' = pending'
    BY <1>1 DEF LineIs
  <2> QED BY <2>1
<1>2. ASSUME NEW a \in Actors, at[a] \in Submitting PROVE Batch' = Batch
  <2>1. Batch = bag[a] /\ Batch' = bag'[a]
    BY <1>2 DEF LineIs
  <2> QED BY <1>2, <2>1
<1> QED BY <1>1, <1>2

(* A step that moves no event.                                               *)
LEMMA LineStill ==
  ASSUME LineIs, LineIs', UNCHANGED <<file, queue>>, Batch' = Batch, Work' = Work
  PROVE  Still(Line, End, Line', End')
<1>1. End' = End
  BY DEF LineIs
<1>2. PICK f, g, m : f = Line /\ g = Line' /\ m = End
  OBVIOUS
<1>3. /\ m \in Nat /\ m >= 2 /\ \A k \in 0..m : k = 0 \/ k = 1 \/ k = m \/ k \in 2..(m - 1)
  BY <1>2 DEF LineIs
<1>4. f[0] = file /\ f[1] = Work /\ f[m] = Batch /\ \A k \in 2..(m - 1) : f[k] = queue[k - 1].events
  BY <1>2 DEF LineIs
<1>5. g[0] = file /\ g[1] = Work /\ g[m] = Batch /\ \A k \in 2..(m - 1) : g[k] = queue[k - 1].events
  BY <1>1, <1>2 DEF LineIs
<1>6. \A k \in 0..m : g[k] = f[k]
  BY <1>3, <1>4, <1>5
<1> QED BY <1>1, <1>2, <1>6 DEF Still

(* The batch goes into a task at the end of the queue, or is discarded, or   *)
(* takes the place of the oldest task.                                       *)
LEMMA LineEnqueue ==
  ASSUME Types, LineIs, LineIs', UNCHANGED file, Work' = Work, Batch' = <<>>,
         NEW task \in Task, task.events = Batch
  PROVE  /\ UNCHANGED queue => Dropped(Line, End, Line', End')
         /\ queue' = Append(queue, task) => Passed(Line, End, Line', End')
         /\ ~Room /\ queue' = Append(Tail(queue), task) => Shifted(Line, End, Line', End')
<1>1. PICK f, g, m, n, q, r : f = Line /\ g = Line' /\ m = End /\ n = End' /\ q = queue /\ r = queue'
  OBVIOUS
<1>2. q \in Seq(Task) /\ m \in Nat /\ m >= 2 /\ m = Len(q) + 2 /\ n \in Nat /\ n >= 2 /\ n = Len(r) + 2
  BY <1>1 DEF LineIs, Types
<1>3. f[0] = file /\ f[1] = Work /\ f[m] = Batch /\ \A k \in 2..(m - 1) : f[k] = q[k - 1].events
  BY <1>1 DEF LineIs
<1>4. g[0] = file /\ g[1] = Work /\ g[n] = <<>> /\ \A k \in 2..(n - 1) : g[k] = r[k - 1].events
  BY <1>1 DEF LineIs
<1>5. \A k \in 0..m : k = 0 \/ k = 1 \/ k = m \/ k \in 2..(m - 1)
  BY <1>2
<1>6. ASSUME UNCHANGED queue PROVE Dropped(Line, End, Line', End')
  <2>1. n = m /\ r = q
    BY <1>1, <1>2, <1>6
  <2>2. \A k \in 0..(m - 1) : g[k] = f[k]
    BY <1>2, <1>3, <1>4, <1>5, <2>1
  <2> QED BY <1>1, <1>4, <1>6, <2>1, <2>2 DEF Dropped
<1>7. ASSUME queue' = Append(queue, task) PROVE Passed(Line, End, Line', End')
  <2>1. r = Append(q, task)
    BY <1>1, <1>7
  <2>2. n = m + 1 /\ r[m - 1] = task /\ \A k \in 2..(m - 1) : r[k - 1] = q[k - 1]
    BY <1>2, <2>1
  <2>3. g[m] = f[m]
    <3>1. m \in 2..(n - 1)
      BY <1>2, <2>2
    <3>2. g[m] = r[m - 1].events
      BY <1>4, <3>1
    <3> QED BY <1>3, <2>2, <3>2
  <2>4. \A k \in 2..(m - 1) : g[k] = f[k]
    BY <1>2, <1>3, <1>4, <2>2
  <2>5. \A k \in 0..m : g[k] = f[k]
    BY <1>3, <1>4, <1>5, <2>3, <2>4
  <2> QED BY <1>1, <1>4, <1>7, <2>2, <2>5 DEF Passed
<1>8. ASSUME ~Room, queue' = Append(Tail(queue), task) PROVE Shifted(Line, End, Line', End')
  <2>1. r = Append(Tail(q), task)
    BY <1>1, <1>8
  <2>2. Len(q) >= 1
    BY <1>1, <1>2, <1>8, LoggerAssumption DEF Room
  <2>3. n = m /\ r[m - 2] = task /\ \A k \in 2..(m - 2) : r[k - 1] = q[k]
    <3>0. Tail(q) \in Seq(Task)
      BY <1>2, <2>2
    <3>1. PICK s \in Seq(Task) : s = Tail(q)
      BY <3>0
    <3>2. Len(s) = m - 3 /\ \A k \in 2..(m - 2) : s[k - 1] = q[k]
      BY <1>2, <2>2, <3>1
    <3>3. r = Append(s, task)
      BY <2>1, <3>1
    <3> QED BY <1>2, <2>2, <3>2, <3>3
  <2>4. \A k \in 2..(m - 2) : g[k] = f[k + 1]
    <3>1. \A k \in 2..(m - 2) : k \in 2..(n - 1) /\ k + 1 \in 2..(m - 1) /\ (k + 1) - 1 = k
      BY <1>2, <2>3
    <3>2. \A k \in 2..(m - 2) : g[k] = r[k - 1].events /\ f[k + 1] = q[(k + 1) - 1].events
      BY <1>3, <1>4, <3>1
    <3> QED BY <2>3, <3>1, <3>2
  <2>5. g[m - 1] = f[m]
    <3>1. m - 1 \in 2..(n - 1) /\ (m - 1) - 1 = m - 2
      BY <1>2, <2>2, <2>3
    <3> QED BY <1>3, <1>4, <2>3, <3>1
  <2>6. \A k \in 2..(m - 1) : g[k] = f[k + 1]
    <3>1. \A k \in 2..(m - 1) : k \in 2..(m - 2) \/ (k = m - 1 /\ k + 1 = m)
      BY <1>2
    <3> QED BY <2>4, <2>5, <3>1
  <2>7. \A k \in 0..1 : g[k] = f[k]
    BY <1>3, <1>4
  <2> QED BY <1>1, <1>4, <2>3, <2>6, <2>7 DEF Shifted
<1> QED BY <1>6, <1>7, <1>8

(* The worker takes the first task of the queue.                             *)
LEMMA LineTake ==
  ASSUME Types, LineIs, LineIs', UNCHANGED file, Batch' = Batch, Work = <<>>,
         queue # <<>>, queue' = Tail(queue), Work' = Head(queue).events
  PROVE  Fetched(Line, End, Line', End')
<1>1. PICK f, g, m, n, q, r : f = Line /\ g = Line' /\ m = End /\ n = End' /\ q = queue /\ r = queue'
  OBVIOUS
<1>2. q \in Seq(Task) /\ m \in Nat /\ m >= 2 /\ m = Len(q) + 2 /\ n \in Nat /\ n >= 2 /\ n = Len(r) + 2
  BY <1>1 DEF LineIs, Types
<1>3. f[0] = file /\ f[1] = <<>> /\ f[m] = Batch /\ \A k \in 2..(m - 1) : f[k] = q[k - 1].events
  BY <1>1 DEF LineIs
<1>4. g[0] = file /\ g[1] = Head(q).events /\ g[n] = Batch /\ \A k \in 2..(n - 1) : g[k] = r[k - 1].events
  BY <1>1 DEF LineIs
<1>5. q # <<>> /\ r = Tail(q)
  BY <1>1
<1>6. n = m - 1 /\ Head(q) = q[1] /\ \A k \in 2..(n - 1) : r[k - 1] = q[k]
  BY <1>2, <1>5
<1>7. g[1] = f[2]
  BY <1>2, <1>3, <1>4, <1>6
<1>8. \A k \in 2..(n - 1) : g[k] = f[k + 1]
  <2>1. \A k \in 2..(n - 1) : k + 1 \in 2..(m - 1) /\ (k + 1) - 1 = k
    BY <1>2, <1>6
  <2>2. \A k \in 2..(n - 1) : f[k + 1] = q[(k + 1) - 1].events
    BY <1>3, <2>1
  <2> QED BY <1>4, <1>6, <2>1, <2>2
<1>9. g[n] = f[n + 1]
  BY <1>2, <1>3, <1>4, <1>6
<1>10. \A k \in 1..n : g[k] = f[k + 1]
  <2>1. \A k \in 1..n : k = 1 \/ k = n \/ k \in 2..(n - 1)
    BY <1>2
  <2> QED BY <1>7, <1>8, <1>9, <2>1
<1> QED BY <1>1, <1>3, <1>4, <1>6, <1>10 DEF Fetched

(* The worker writes what it took.                                           *)
LEMMA LineWrite ==
  ASSUME LineIs, LineIs', UNCHANGED queue, Batch' = Batch, file' = file \o Work, Work' = <<>>
  PROVE  Written(Line, End, Line', End')
<1>1. End' = End
  BY DEF LineIs
<1>2. PICK f, g, m : f = Line /\ g = Line' /\ m = End
  OBVIOUS
<1>3. /\ m \in Nat /\ m >= 2 /\ \A k \in 2..m : k = m \/ k \in 2..(m - 1)
  BY <1>2 DEF LineIs
<1>4. f[0] = file /\ f[1] = Work /\ f[m] = Batch /\ \A k \in 2..(m - 1) : f[k] = queue[k - 1].events
  BY <1>2 DEF LineIs
<1>5. g[0] = file \o Work /\ g[1] = <<>> /\ g[m] = Batch /\ \A k \in 2..(m - 1) : g[k] = queue[k - 1].events
  BY <1>1, <1>2 DEF LineIs
<1>6. \A k \in 2..m : g[k] = f[k]
  BY <1>3, <1>4, <1>5
<1> QED BY <1>1, <1>2, <1>4, <1>5, <1>6 DEF Written

(* The batch grows.                                                          *)
LEMMA LineGrow ==
  ASSUME LineIs, LineIs', UNCHANGED <<file, queue>>, Work' = Work, NEW s, Batch' = Batch \o s
  PROVE  Grown(Line, End, Line', End', s)
<1>1. End' = End
  BY DEF LineIs
<1>2. PICK f, g, m : f = Line /\ g = Line' /\ m = End
  OBVIOUS
<1>3. /\ m \in Nat /\ m >= 2 /\ \A k \in 0..(m - 1) : k = 0 \/ k = 1 \/ k \in 2..(m - 1)
  BY <1>2 DEF LineIs
<1>4. f[0] = file /\ f[1] = Work /\ f[m] = Batch /\ \A k \in 2..(m - 1) : f[k] = queue[k - 1].events
  BY <1>2 DEF LineIs
<1>5. g[0] = file /\ g[1] = Work /\ g[m] = Batch \o s /\ \A k \in 2..(m - 1) : g[k] = queue[k - 1].events
  BY <1>1, <1>2 DEF LineIs
<1>6. \A k \in 0..(m - 1) : g[k] = f[k]
  BY <1>3, <1>4, <1>5
<1> QED BY <1>1, <1>2, <1>4, <1>5, <1>6 DEF Grown

-----------------------------------------------------------------------------
(* What each step does to the line, while the pool is up.                    *)
Ready == Types /\ Control /\ LineIs
Up == pool = "up" /\ pool' = "up"

(* Nobody has a hand on the batch while a living logger's mutex is free.     *)
LEMMA NoHands ==
  ASSUME Types, Control, alive, \A t \in Threads : at[t] \in Locking => t \in Threads /\ at[t] \notin Submitting
  PROVE  \A a \in Actors : at[a] \notin Submitting
<1>1. \A a \in Actors : at[a] \notin Destroying
  BY DEF Control, OneSubmits
<1>2. ASSUME NEW a \in Actors, at[a] \in Submitting PROVE FALSE
  <2>1. at[a] \in {"submit", "flushSubmit"}
    BY <1>1, <1>2 DEF Submitting, Destroying
  <2>2. a \in Threads
    BY <2>1, ActorsAre DEF Actors, Control, UpLabels, Destroying
  <2> QED BY <1>2, <2>1, <2>2 DEF Locking
<1> QED BY <1>2

(* What the worker has taken stays with it.                                  *)
LEMMA WorkStill ==
  ASSUME LineIs, LineIs', at'[TheWorker] = at[TheWorker], bag'[TheWorker] = bag[TheWorker]
  PROVE  Work' = Work
BY DEF LineIs

(* log and flush are called.                                                 *)
LEMMA StepCall ==
  ASSUME OneWorker, Ready, Ready', Up, NEW t \in Threads, NEW b \in BOOLEAN, LogCall(t, b) \/ FlushCall(t, b)
  PROVE  Still(Line, End, Line', End')
<1> USE ActorsAre
<1>1. Types /\ LineIs /\ LineIs' /\ t # TheWorker /\ TheWorker \in Actors
  BY DEF Ready, OneWorker
<1>2. Goto(t, "log") \/ Goto(t, "flush")
  BY DEF LogCall, FlushCall, Up
<1>3. at[t] = "idle" /\ at'[t] \in {"log", "flush"} /\ \A a \in Actors : a # t => at'[a] = at[a] /\ bag'[a] = bag[a]
  BY <1>1, <1>2, Moved DEF LogCall, FlushCall, Types
<1>4. UNCHANGED <<file, queue, pending>>
  BY DEF LogCall, FlushCall, poolState, sinks
<1>5. Batch' = Batch
  BY <1>1, <1>3, <1>4, BatchStill DEF Submitting
<1>6. Work' = Work
  BY <1>1, <1>3, WorkStill
<1> QED BY <1>1, <1>4, <1>5, <1>6, LineStill

(* sink_it_ puts its event behind the others of the batch.                   *)
LEMMA StepPush ==
  ASSUME OneWorker, Ready, Ready', Up, NEW t \in Threads, Push(t)
  PROVE  Grown(Line, End, Line', End', bag[t]) /\ UNCHANGED <<file, queue>>
<1> USE ActorsAre
<1>1. Types /\ LineIs /\ LineIs' /\ t # TheWorker /\ TheWorker \in Actors
  BY DEF Ready, OneWorker
<1>2. at[t] = "log" /\ lock = None /\ UNCHANGED <<file, queue>>
  BY DEF Push, poolState, sinks
<1>3. \A a \in Actors : at[a] \notin Submitting
  <2>1. alive
    BY <1>2 DEF Ready, Control, OneSubmits, Destroying
  <2>2. \A a \in Threads : at[a] \notin Locking
    BY <1>2 DEF Ready, Control, OneSubmits
  <2> QED BY <1>1, <2>1, <2>2, NoHands DEF Ready
<1>4. Batch = pending
  BY <1>1, <1>3 DEF LineIs
<1>5. \/ Goto(t, "submit") /\ bag' = [bag EXCEPT ![t] = pending \o bag[t]]
      \/ Goto(t, "leave") /\ pending' = pending \o bag[t] /\ bag' = [bag EXCEPT ![t] = <<>>]
  BY DEF Push
<1>6. at'[t] \in {"submit", "leave"} /\ \A a \in Actors : a # t => at'[a] = at[a] /\ bag'[a] = bag[a]
  BY <1>1, <1>5, Moved DEF Types
<1>7. Batch' = Batch \o bag[t]
  <2>1. CASE Goto(t, "submit") /\ bag' = [bag EXCEPT ![t] = pending \o bag[t]]
    <3>1. at'[t] \in Submitting /\ bag'[t] = pending \o bag[t]
      BY <1>1, <2>1, Moved DEF Types, Submitting
    <3>2. Batch' = bag'[t]
      BY <1>1, <3>1 DEF LineIs
    <3> QED BY <1>4, <3>1, <3>2
  <2>2. CASE Goto(t, "leave") /\ pending' = pending \o bag[t]
    <3>1. \A a \in Actors : at'[a] \notin Submitting
      BY <1>1, <1>3, <1>6, <2>2, Moved DEF Submitting
    <3>2. Batch' = pending'
      BY <1>1, <3>1 DEF LineIs
    <3> QED BY <1>4, <2>2, <3>2
  <2> QED BY <1>5, <2>1, <2>2
<1>8. Work' = Work
  BY <1>1, <1>6, WorkStill
<1> QED BY <1>1, <1>2, <1>7, <1>8, LineGrow

(* What a submission does to the queue by the overflow strategy.             *)
EnqueuedBy(task) ==
  \/ UNCHANGED queue /\ strategy # "Block" /\ Dropped(Line, End, Line', End')
  \/ queue' = Append(queue, task) /\ Passed(Line, End, Line', End')
  \/ strategy # "Block" /\ Shifted(Line, End, Line', End')

(* Enqueue on a pool that is up.                                             *)
LEMMA EnqueueUp ==
  ASSUME Types, LineIs, LineIs', Work' = Work, Batch' = <<>>, UNCHANGED file,
         NEW task \in Task, task.events = Batch,
         \/ queue' = Append(queue, task)
         \/ UNCHANGED queue /\ strategy # "Block"
         \/ ~Room /\ strategy # "Block" /\ queue' = Append(Tail(queue), task)
  PROVE  EnqueuedBy(task)
<1>1. CASE strategy # "Block"
  BY <1>1, LineEnqueue DEF EnqueuedBy
<1>2. CASE queue' = Append(queue, task)
  BY <1>2, LineEnqueue DEF EnqueuedBy
<1> QED BY <1>1, <1>2

(* submitBatch_, after log or in flush.                                      *)
LEMMA StepSubmit ==
  ASSUME OneWorker, Ready, Ready', Up, NEW t \in Threads, Submit(t) \/ FlushSubmit(t)
  PROVE  EnqueuedBy([kind |-> "batch", events |-> bag[t], covers |-> {}]) /\ UNCHANGED <<file, synced>>
<1> USE ActorsAre
<1>1. Types /\ LineIs /\ LineIs' /\ t # TheWorker /\ TheWorker \in Actors
  BY DEF Ready, OneWorker
<1>2. at[t] \in Submitting /\ UNCHANGED pending /\ (Goto(t, "leave") \/ Goto(t, "barrier"))
  BY DEF Submit, FlushSubmit, Submitting
<1>3. Batch = bag[t] /\ pending = <<>> /\ \A a \in Actors : a # t => at[a] \notin Submitting
  BY <1>1, <1>2 DEF LineIs
<1>4. at'[t] \in {"leave", "barrier"} /\ \A a \in Actors : a # t => at'[a] = at[a] /\ bag'[a] = bag[a]
  BY <1>1, <1>2, Moved DEF Submit, FlushSubmit, Types
<1>5. Batch' = <<>>
  <2>1. \A a \in Actors : at'[a] \notin Submitting
    BY <1>3, <1>4 DEF Submitting
  <2> QED BY <1>1, <1>2, <1>3, <2>1 DEF LineIs
<1>6. Work' = Work
  BY <1>1, <1>4, WorkStill
<1>7. bag[t] \in Seq(Event)
  BY <1>1 DEF Types
<1>8. PICK task \in Task : task = [kind |-> "batch", events |-> bag[t], covers |-> {}]
  BY <1>7 DEF Task
<1>9. /\ UNCHANGED <<file, synced>>
      /\ \/ queue' = Append(queue, task)
         \/ UNCHANGED queue /\ strategy # "Block"
         \/ ~Room /\ strategy # "Block" /\ queue' = Append(Tail(queue), task)
  BY <1>8 DEF Submit, FlushSubmit, Enqueue, Up, sinks
<1>10. task.events = Batch
  BY <1>3, <1>8
<1> QED BY <1>1, <1>5, <1>6, <1>8, <1>9, <1>10, EnqueueUp

(* The barrier of flush: it has no events, and there are none in the batch.  *)
LEMMA StepBarrier ==
  ASSUME OneWorker, Ready, Ready', Up, NEW t \in Threads, Barrier(t)
  PROVE  /\ EnqueuedBy([kind |-> "flush", events |-> <<>>, covers |-> pushed]) /\ UNCHANGED <<file, synced>>
         /\ Line[End] = <<>>
<1> USE ActorsAre
<1>1. Types /\ LineIs /\ LineIs' /\ t # TheWorker /\ TheWorker \in Actors
  BY DEF Ready, OneWorker
<1>2. at[t] = "barrier" /\ UNCHANGED <<bag, pending>> /\ Goto(t, "leave")
  BY DEF Barrier
<1>3. pending = <<>> /\ \A a \in Actors : at[a] \notin Submitting
  <2>1. alive /\ lock = t /\ pending = <<>>
    BY <1>2 DEF Ready, Control, OneSubmits, Destroying, Locking
  <2>2. \A a \in Threads : at[a] \in Locking => a = t
    BY <2>1 DEF Ready, Control, OneSubmits
  <2> QED BY <1>1, <1>2, <2>1, <2>2, NoHands DEF Ready, Submitting
<1>4. at'[t] = "leave" /\ \A a \in Actors : a # t => at'[a] = at[a]
  BY <1>1, <1>2, Moved
<1>5. Batch = <<>> /\ Batch' = <<>>
  <2>1. \A a \in Actors : at'[a] \notin Submitting
    BY <1>3, <1>4 DEF Submitting
  <2> QED BY <1>1, <1>2, <1>3, <2>1 DEF LineIs
<1>6. Work' = Work
  BY <1>1, <1>2, <1>4, WorkStill
<1>7. pushed \subseteq Event /\ <<>> \in Seq(Event)
  BY <1>1 DEF Types
<1>8. PICK task \in Task : task = [kind |-> "flush", events |-> <<>>, covers |-> pushed]
  BY <1>7 DEF Task
<1>9. /\ UNCHANGED <<file, synced>>
      /\ \/ queue' = Append(queue, task)
         \/ UNCHANGED queue /\ strategy # "Block"
         \/ ~Room /\ strategy # "Block" /\ queue' = Append(Tail(queue), task)
  BY <1>8 DEF Barrier, Enqueue, Up, sinks
<1>10. task.events = Batch /\ Line[End] = <<>>
  BY <1>1, <1>5, <1>8 DEF LineIs
<1> QED BY <1>1, <1>5, <1>6, <1>8, <1>9, <1>10, EnqueueUp

(* flush_ takes what is pending; and the end of a call.                      *)
LEMMA StepFlushTake ==
  ASSUME OneWorker, Ready, Ready', Up, NEW t \in Threads, FlushTake(t) \/ Leave(t) \/ Left(t)
  PROVE  Still(Line, End, Line', End')
<1> USE ActorsAre
<1>1. Types /\ LineIs /\ LineIs' /\ t # TheWorker /\ TheWorker \in Actors
  BY DEF Ready, OneWorker
<1>2. CASE FlushTake(t)
  <2>1. at[t] = "flush" /\ lock = None /\ UNCHANGED <<file, queue>> /\ pending' = <<>>
    BY <1>2 DEF FlushTake, poolState, sinks
  <2>2. \A a \in Actors : at[a] \notin Submitting
    <3>1. alive
      BY <2>1 DEF Ready, Control, OneSubmits, Destroying
    <3>2. \A a \in Threads : at[a] \notin Locking
      BY <2>1 DEF Ready, Control, OneSubmits
    <3> QED BY <1>1, <3>1, <3>2, NoHands DEF Ready
  <2>3. Batch = pending
    BY <1>1, <2>2 DEF LineIs
  <2>4. \/ Goto(t, "barrier") /\ pending = <<>>
        \/ Goto(t, "flushSubmit")
    BY <1>2 DEF FlushTake
  <2>5. bag'[t] = pending /\ \A a \in Actors : a # t => at'[a] = at[a] /\ bag'[a] = bag[a]
    BY <1>1, <1>2, <2>4, Moved DEF Types, FlushTake
  <2>6. Batch' = Batch
    <3>1. CASE Goto(t, "barrier") /\ pending = <<>>
      <4>1. \A a \in Actors : at'[a] \notin Submitting
        BY <1>1, <2>2, <2>5, <3>1, Moved DEF Submitting
      <4>2. Batch' = pending'
        BY <1>1, <4>1 DEF LineIs
      <4> QED BY <2>1, <2>3, <3>1, <4>2
    <3>2. CASE Goto(t, "flushSubmit")
      <4>1. at'[t] \in Submitting
        BY <1>1, <3>2, Moved DEF Submitting
      <4>2. Batch' = bag'[t]
        BY <1>1, <4>1 DEF LineIs
      <4> QED BY <2>3, <2>5, <4>2
    <3> QED BY <2>4, <3>1, <3>2
  <2>7. Work' = Work
    BY <1>1, <2>5, WorkStill
  <2> QED BY <1>1, <2>1, <2>6, <2>7, LineStill
<1>3. CASE Leave(t) \/ Left(t)
  <2>1. /\ at[t] \in {"leave", "left"} /\ UNCHANGED <<file, queue, pending, bag>>
        /\ Goto(t, "left") \/ Goto(t, "join") \/ Goto(t, "idle") \/ Goto(t, "dtor")
    BY <1>3 DEF Leave, Left, ReleasePoolOf, ReleaseLogger, poolState, sinks
  <2>2. at'[t] \in {"left", "join", "idle", "dtor"} /\ \A a \in Actors : a # t => at'[a] = at[a]
    BY <1>1, <2>1, Moved
  <2>3. Batch' = Batch
    BY <1>1, <2>1, <2>2, BatchStill DEF Submitting
  <2>4. Work' = Work
    BY <1>1, <2>1, <2>2, WorkStill
  <2> QED BY <1>1, <2>1, <2>3, <2>4, LineStill
<1> QED BY <1>2, <1>3

(* The worker takes a task.                                                  *)
LEMMA StepTake ==
  ASSUME OneWorker, Ready, Ready', Up, NEW w \in Workers, Take(w)
  PROVE  Fetched(Line, End, Line', End') /\ at[TheWorker] = "idle" /\ w = TheWorker
<1> USE ActorsAre
<1>1. Types /\ LineIs /\ LineIs' /\ w = TheWorker /\ w \in Actors
  BY DEF Ready, OneWorker
<1>2. at[w] = "idle" /\ Goto(w, "write") /\ queue # <<>> /\ queue' = Tail(queue) /\ UNCHANGED <<file, pending>>
  BY DEF Take, sinks
<1>3. /\ at'[w] = "write" /\ bag'[w] = Head(queue).events
      /\ \A a \in Actors : a # w => at'[a] = at[a] /\ bag'[a] = bag[a]
  BY <1>1, <1>2, Moved DEF Take, Types
<1>4. Batch' = Batch
  BY <1>1, <1>2, <1>3, BatchStill DEF Submitting
<1>5. Work = <<>> /\ Work' = Head(queue).events
  BY <1>1, <1>2, <1>3 DEF LineIs
<1> QED BY <1>1, <1>2, <1>4, <1>5, LineTake

(* backend_sink_it_batch_ writes the events of its batch.                    *)
LEMMA StepWrite ==
  ASSUME OneWorker, Ready, Ready', Up, NEW w \in Workers, Write(w)
  PROVE  Written(Line, End, Line', End') /\ file' = file \o Work
<1> USE ActorsAre
<1>1. Types /\ LineIs /\ LineIs' /\ w = TheWorker /\ w \in Actors
  BY DEF Ready, OneWorker
<1>2. at[w] = "write" /\ UNCHANGED <<at, queue, pending>> /\ file' = file \o bag[w]
  BY DEF Write, poolState
<1>3. bag'[w] = <<>> /\ \A a \in Actors : a # w => bag'[a] = bag[a]
  BY <1>1 DEF Write, Types
<1>4. Batch' = Batch
  BY <1>1, <1>2, <1>3, BatchStill DEF Submitting
<1>5. Work = bag[w] /\ Work' = <<>>
  BY <1>1, <1>2, <1>3 DEF LineIs
<1> QED BY <1>1, <1>2, <1>4, <1>5, LineWrite

(* It flushes, and lets its task go.                                         *)
LEMMA StepBackend ==
  ASSUME OneWorker, Ready, Ready', Up, NEW w \in Workers, Backend(w) \/ Release(w)
  PROVE  Still(Line, End, Line', End')
<1> USE ActorsAre
<1>1. Types /\ LineIs /\ LineIs' /\ w = TheWorker /\ w \in Actors
  BY DEF Ready, OneWorker
<1>2. /\ UNCHANGED <<file, queue, pending, bag>>
      /\ (at[w] = "write" /\ bag[w] = <<>>) \/ at[w] = "release"
      /\ Goto(w, "release") \/ Goto(w, "idle") \/ Goto(w, "dtor")
  BY DEF Backend, Release, ReleaseLogger, poolState, sinks
<1>3. at'[w] \in {"release", "idle", "dtor"} /\ \A a \in Actors : a # w => at'[a] = at[a]
  BY <1>1, <1>2, Moved
<1>4. Batch' = Batch
  BY <1>1, <1>2, <1>3, BatchStill DEF Submitting
<1>5. Work = <<>> /\ Work' = <<>>
  BY <1>1, <1>2, <1>3 DEF LineIs
<1> QED BY <1>1, <1>2, <1>4, <1>5, LineStill

(* ~AsyncLogger takes what is pending, and is done.                          *)
LEMMA StepDestroy ==
  ASSUME OneWorker, Ready, Ready', Up, NEW a \in Actors, Destroy(a) \/ DestroyLeave(a)
  PROVE  Still(Line, End, Line', End')
<1> USE ActorsAre
<1>1. Types /\ LineIs /\ LineIs' /\ TheWorker \in Actors
  BY DEF Ready, OneWorker
<1>2. /\ UNCHANGED <<file, queue>> /\ at[a] \in {"dtor", "dleave"}
      /\ \/ UNCHANGED <<bag, pending>> /\ (Goto(a, "idle") \/ Goto(a, "join"))
         \/ pending' = <<>> /\ bag' = [bag EXCEPT ![a] = pending] /\ Goto(a, "dsubmit")
  BY DEF Destroy, DestroyLeave, ReleasePoolOf, poolState, sinks, Up
<1>3. \A b \in Actors : at[b] \notin Submitting
  <2>1. ~alive /\ \A b \in Actors : b # a => at[b] \notin Destroying
    BY <1>2 DEF Ready, Control, OneSubmits, Destroying
  <2>2. \A t \in Threads : at[t] \in {"idle"} \union Destroying
    BY <2>1 DEF Ready, Control, OneSubmits
  <2>3. \A b \in Actors : b \notin Threads => at[b] \notin {"submit", "flushSubmit"}
    BY DEF Ready, Control, UpLabels, Actors, Destroying
  <2> QED BY <1>2, <2>1, <2>2, <2>3 DEF Submitting, Destroying
<1>4. Batch = pending
  BY <1>1, <1>3 DEF LineIs
<1>5. CASE UNCHANGED <<bag, pending>> /\ (Goto(a, "idle") \/ Goto(a, "join"))
  <2>1. at'[a] \in {"idle", "join"} /\ \A b \in Actors : b # a => at'[b] = at[b]
    BY <1>1, <1>5, Moved
  <2>2. Batch' = Batch
    BY <1>1, <1>2, <1>3, <1>5, <2>1, BatchStill DEF Submitting
  <2>3. Work' = Work
    BY <1>1, <1>2, <1>5, <2>1 DEF LineIs
  <2> QED BY <1>1, <1>2, <2>2, <2>3, LineStill
<1>6. CASE pending' = <<>> /\ bag' = [bag EXCEPT ![a] = pending] /\ Goto(a, "dsubmit")
  <2>1. at'[a] = "dsubmit" /\ \A b \in Actors : b # a => at'[b] = at[b]
    BY <1>1, <1>6, Moved
  <2>2. bag'[a] = pending /\ \A b \in Actors : b # a => bag'[b] = bag[b]
    BY <1>1, <1>6 DEF Types
  <2>3. Batch' = Batch
    BY <1>1, <1>4, <2>1, <2>2 DEF LineIs, Submitting
  <2>4. Work' = Work
    BY <1>1, <1>2, <2>1, <2>2 DEF LineIs
  <2> QED BY <1>1, <1>2, <2>3, <2>4, LineStill
<1> QED BY <1>2, <1>5, <1>6

(* It submits what it took.                                                  *)
LEMMA StepDestroySubmit ==
  ASSUME OneWorker, Ready, Ready', Up, NEW a \in Actors, DestroySubmit(a)
  PROVE  /\ EnqueuedBy([kind |-> "rest", events |-> bag[a], covers |-> {}])
         /\ queue' # queue /\ UNCHANGED <<file, synced>>
<1> USE ActorsAre
<1>1. Types /\ LineIs /\ LineIs' /\ TheWorker \in Actors
  BY DEF Ready, OneWorker
<1>2. /\ at[a] = "dsubmit" /\ UNCHANGED <<file, synced, pending>> /\ Goto(a, "dleave")
      /\ queue' = Append(queue, [kind |-> "rest", events |-> bag[a], covers |-> {}])
      /\ bag' = [bag EXCEPT ![a] = <<>>]
  BY DEF DestroySubmit, Up, sinks
<1>3. Batch = bag[a] /\ pending = <<>> /\ \A b \in Actors : b # a => at[b] \notin Submitting
  BY <1>1, <1>2 DEF LineIs, Submitting
<1>4. at'[a] = "dleave" /\ \A b \in Actors : b # a => at'[b] = at[b] /\ bag'[b] = bag[b]
  BY <1>1, <1>2, Moved DEF Types
<1>5. Batch' = <<>>
  <2>1. \A b \in Actors : at'[b] \notin Submitting
    BY <1>3, <1>4 DEF Submitting
  <2> QED BY <1>1, <1>2, <1>3, <2>1 DEF LineIs
<1>6. Work' = Work
  BY <1>1, <1>2, <1>4 DEF LineIs
<1>7. bag[a] \in Seq(Event)
  BY <1>1 DEF Types
<1>8. PICK task \in Task : task = [kind |-> "rest", events |-> bag[a], covers |-> {}]
  BY <1>7 DEF Task
<1>9. queue' = Append(queue, task) /\ task.events = Batch
  BY <1>2, <1>3, <1>8
<1>10. queue' # queue
  <2>1. PICK q \in Seq(Task) : q = queue
    BY <1>1 DEF Types
  <2>2. Append(q, task) # q
    OBVIOUS
  <2> QED BY <1>9, <2>1, <2>2
<1> QED BY <1>1, <1>2, <1>5, <1>6, <1>8, <1>9, <1>10, EnqueueUp

(* The manager moves no event.                                               *)
LEMMA StepManager ==
  ASSUME OneWorker, Ready, Ready', Up, DropAll \/ SetThreadPool \/ ReleasePool \/ StopPool
  PROVE  Still(Line, End, Line', End')
<1> USE ActorsAre
<1>1. Types /\ LineIs /\ LineIs' /\ TheWorker \in Actors
  BY DEF Ready, OneWorker
<1>2. UNCHANGED <<file, queue, pending, bag>> /\ (UNCHANGED at \/ (at[Manager] = "idle" /\ Goto(Manager, "dtor")))
  BY DEF DropAll, SetThreadPool, ReleasePool, ResetPool, StopPool, poolState, sinks, Up
<1>3. \A a \in Actors : at'[a] = at[a] \/ (at[a] = "idle" /\ at'[a] = "dtor")
  BY <1>1, <1>2, Moved
<1>4. Batch' = Batch
  BY <1>1, <1>2, <1>3, BatchStill DEF Submitting
<1>5. Work' = Work
  BY <1>1, <1>2, <1>3 DEF LineIs
<1> QED BY <1>1, <1>2, <1>4, <1>5, LineStill

-----------------------------------------------------------------------------
(* How many of its events each thread has put into the batch.                *)
Issued == [t \in Threads |-> IF at[t] = "log" THEN logged[t] - 1 ELSE logged[t]]

(* A thread in log holds its newest event.                                   *)
NewestHeld ==
  \A t \in Threads : at[t] = "log" =>
    /\ Len(bag[t]) = 1 /\ bag[t][1].by = t
    /\ bag[t][1].n = logged[t] - 1 /\ logged[t] >= 1

OrderInv == NewestHeld /\ Ordered(Line, End, Issued)

(* Steps that neither log an event nor touch one that is being logged.       *)
Quiet == UNCHANGED logged /\ \A t \in Threads : at'[t] = "log" => at[t] = "log" /\ bag'[t] = bag[t]

(* Such steps keep the events that are being logged.                         *)
LEMMA QuietKeeps ==
  ASSUME Types, NewestHeld, Quiet
  PROVE  NewestHeld' /\ \A t \in Threads : Issued[t] <= Issued'[t]
<1>1. logged \in [Threads -> Nat]
  BY DEF Types
<1>2. \A t \in Threads : Issued[t] = (IF at[t] = "log" THEN logged[t] - 1 ELSE logged[t])
  BY DEF Issued
<1>3. \A t \in Threads : Issued'[t] = (IF at'[t] = "log" THEN logged[t] - 1 ELSE logged[t])
  BY DEF Issued, Quiet
<1>4. \A t \in Threads : Issued[t] <= Issued'[t]
  BY <1>1, <1>2, <1>3 DEF Quiet
<1> QED BY <1>4 DEF NewestHeld, Quiet

(* A call of log takes the next number.                                      *)
LEMMA LogCallKeeps ==
  ASSUME Types, Types', Up, NewestHeld, NEW t \in Threads, NEW b \in BOOLEAN, LogCall(t, b)
  PROVE  NewestHeld' /\ \A u \in Threads : Issued[u] <= Issued'[u]
<1> USE ActorsAre
<1>1. logged \in [Threads -> Nat] /\ logged' = [logged EXCEPT ![t] = @ + 1]
  BY DEF Types, LogCall
<1>2. at[t] = "idle" /\ Goto(t, "log")
  BY DEF LogCall, Up
<1>3. at'[t] = "log" /\ \A u \in Threads : u # t => at'[u] = at[u] /\ bag'[u] = bag[u] /\ logged'[u] = logged[u]
  BY <1>1, <1>2, Moved DEF LogCall, Types
<1>4. bag'[t] = <<[by |-> t, n |-> logged[t], urgent |-> b]>> /\ logged'[t] = logged[t] + 1
  BY <1>1 DEF LogCall, Types
<1>5. Len(bag'[t]) = 1 /\ bag'[t][1].by = t /\ bag'[t][1].n = logged'[t] - 1 /\ logged'[t] >= 1
  BY <1>1, <1>4
<1>6. NewestHeld'
  BY <1>3, <1>5 DEF NewestHeld
<1>7. \A u \in Threads : Issued[u] <= Issued'[u]
  BY <1>1, <1>2, <1>3, <1>4 DEF Issued
<1> QED BY <1>6, <1>7

(* Every step but a call of log is such a step.                              *)
LEMMA StepsAreQuiet ==
  ASSUME Types, Up,
         \/ \E t \in Threads : ThreadStep(t) \/ \E b \in BOOLEAN : FlushCall(t, b)
         \/ \E w \in Workers : WorkerStep(w)
         \/ \E a \in Actors : DestroyStep(a)
         \/ DropAll \/ SetThreadPool \/ ReleasePool \/ StopPool
  PROVE  Quiet
<1> USE ActorsAre
<1>1. UNCHANGED logged
  BY DEF ThreadStep, LogAlone, Push, Submit, FlushAlone, FlushTake, FlushSubmit, Barrier, Leave, Left, FlushCall,
     WorkerStep, Take, Exit, Write, Backend, Release, DestroyStep, Join, Destroy, DestroySubmit, DestroyLeave,
     DropAll, SetThreadPool, ReleasePool, ResetPool, StopPool
<1>2. ASSUME NEW a \in Actors, \A u \in Actors : u # a => at'[u] = at[u] /\ bag'[u] = bag[u], at'[a] # "log"
      PROVE  Quiet
  BY <1>1, <1>2 DEF Quiet
<1>3. ASSUME NEW t \in Threads, ThreadStep(t) PROVE Quiet
  <2>1. \E s \in Labels \ {"log"} : Goto(t, s)
    BY <1>3 DEF ThreadStep, LogAlone, Push, Submit, FlushAlone, FlushTake, FlushSubmit, Barrier, Leave, Left,
       ReleasePoolOf, ReleaseLogger, Labels, Locking, Destroying
  <2>2. \A u \in Actors : u # t => bag'[u] = bag[u]
    BY <1>3 DEF ThreadStep, LogAlone, Push, Submit, FlushAlone, FlushTake, FlushSubmit, Barrier, Leave, Left, Types
  <2> QED BY <1>2, <2>1, <2>2, Moved
<1>4. ASSUME NEW t \in Threads, NEW b \in BOOLEAN, FlushCall(t, b) PROVE Quiet
  <2>1. Goto(t, "flush") /\ UNCHANGED bag
    BY <1>4 DEF FlushCall, Up
  <2> QED BY <1>2, <2>1, Moved
<1>5. ASSUME NEW w \in Workers, WorkerStep(w) PROVE Quiet
  <2>1. (\E s \in Labels \ {"log"} : Goto(w, s)) \/ UNCHANGED at
    BY <1>5 DEF WorkerStep, Take, Exit, Write, Backend, Release, ReleaseLogger, Labels, Locking, Destroying
  <2>2. \A u \in Actors : u # w => bag'[u] = bag[u]
    BY <1>5 DEF WorkerStep, Take, Exit, Write, Backend, Release, Types
  <2>3. \A u \in Threads : at'[u] = at[u]
    BY <2>1, Moved
  <2> QED BY <1>1, <2>2, <2>3 DEF Quiet
<1>6. ASSUME NEW a \in Actors, DestroyStep(a) PROVE Quiet
  <2>1. \E s \in Labels \ {"log"} : Goto(a, s)
    BY <1>6 DEF DestroyStep, Join, Destroy, DestroySubmit, DestroyLeave, ReleasePoolOf, Labels, Locking, Destroying
  <2>2. \A u \in Actors : u # a => bag'[u] = bag[u]
    BY <1>6 DEF DestroyStep, Join, Destroy, DestroySubmit, DestroyLeave, Types
  <2> QED BY <1>2, <2>1, <2>2, Moved
<1>7. CASE DropAll \/ SetThreadPool \/ ReleasePool \/ StopPool
  <2>1. UNCHANGED bag /\ (UNCHANGED at \/ \E s \in Labels \ {"log"} : Goto(Manager, s))
    BY <1>7 DEF DropAll, SetThreadPool, ReleasePool, ResetPool, StopPool, Labels, Locking, Destroying
  <2>2. \A u \in Threads : at'[u] = at[u]
    BY <2>1, Moved
  <2> QED BY <1>1, <2>1, <2>2 DEF Quiet
<1> QED BY <1>3, <1>4, <1>5, <1>6, <1>7

(* What has been issued is counted.                                          *)
LEMMA IssuedIs == ASSUME Types, NewestHeld PROVE Issued \in [Threads -> Nat]
<1>1. \A t \in Threads : logged[t] \in Nat /\ (at[t] = "log" => logged[t] >= 1)
  BY DEF Types, NewestHeld
<1>2. \A t \in Threads : (IF at[t] = "log" THEN logged[t] - 1 ELSE logged[t]) \in Nat
  BY <1>1
<1> QED BY <1>2 DEF Issued

(* A step that chooses from the line in order, or writes, keeps the order.   *)
LEMMA OrderByLine ==
  ASSUME Ready, Ready', OrderInv, NewestHeld', \A t \in Threads : Issued[t] <= Issued'[t],
         \/ Still(Line, End, Line', End') \/ Passed(Line, End, Line', End') \/ Dropped(Line, End, Line', End')
         \/ Shifted(Line, End, Line', End') \/ Fetched(Line, End, Line', End')
  PROVE  OrderInv'
<1>1. PICK f, g, m, n, c, d : f = Line /\ g = Line' /\ m = End /\ n = End' /\ c = Issued /\ d = Issued'
  OBVIOUS
<1>2. m \in Nat /\ m >= 2 /\ n \in Nat
  BY <1>1 DEF Ready, LineIs
<1>3. c \in [Threads -> Nat] /\ d \in [Threads -> Nat] /\ \A t \in Threads : c[t] <= d[t]
  <2>1. Issued \in [Threads -> Nat]
    BY IssuedIs DEF Ready, OrderInv
  <2>2. Issued' \in [Threads -> Nat]
    <3>1. \A t \in Threads : logged'[t] \in Nat /\ (at'[t] = "log" => logged'[t] >= 1)
      BY DEF Ready, Types, NewestHeld
    <3>2. \A t \in Threads : (IF at'[t] = "log" THEN logged'[t] - 1 ELSE logged'[t]) \in Nat
      BY <3>1
    <3> QED BY <3>2 DEF Issued
  <2> QED BY <1>1, <2>1, <2>2
<1>4. Ordered(f, m, c)
  BY <1>1 DEF OrderInv
<1>5. \/ Still(f, m, g, n) \/ Passed(f, m, g, n) \/ Dropped(f, m, g, n) \/ Shifted(f, m, g, n) \/ Fetched(f, m, g, n)
  BY <1>1
<1>6. Ordered(g, n, d)
  BY <1>2, <1>3, <1>4, <1>5, ChosenOrdered
<1> QED BY <1>1, <1>6 DEF OrderInv

(* At the start nothing is on its way.                                       *)
LEMMA OrderInit == ASSUME OneWorker, Init, Ready PROVE OrderInv /\ \A k \in 0..End : Line[k] = <<>>
<1>1. file = <<>> /\ pending = <<>> /\ queue = <<>> /\ at = [a \in Actors |-> "idle"]
  BY DEF Init
<1>2. End = 2
  BY <1>1 DEF End
<1>3. \A a \in Actors : at[a] = "idle"
  BY <1>1
<1>4. Work = <<>> /\ Batch = <<>>
  BY <1>1, <1>3, ActorsAre DEF Ready, LineIs, OneWorker, Submitting
<1>5. \A k \in 0..End : Line[k] = <<>>
  <2>1. Line[0] = <<>> /\ Line[1] = <<>> /\ Line[2] = <<>>
    BY <1>1, <1>2, <1>4 DEF Ready, LineIs
  <2>2. \A k \in 0..2 : k = 0 \/ k = 1 \/ k = 2
    OBVIOUS
  <2> QED BY <1>2, <2>1, <2>2
<1>6. NewestHeld
  BY <1>3, ActorsAre DEF NewestHeld
<1> QED BY <1>5, <1>6, EmptyOrder DEF OrderInv, Ordered

(* The order is kept while the pool is up.                                   *)
LEMMA OrderKept ==
  ASSUME OneWorker, Ready, Ready', Up, OrderInv, [Next]_vars
  PROVE  OrderInv'
<1> USE ActorsAre
<1>1. CASE UNCHANGED vars
  <2>1. UNCHANGED <<at, bag, pending, queue, file, logged>>
    BY <1>1 DEF vars, poolState, sinks
  <2>2. Issued' = Issued /\ Line' = Line /\ End' = End
    BY <2>1 DEF Issued, Line, End, Work, Batch, Hands
  <2> QED BY <2>1, <2>2 DEF OrderInv, NewestHeld
<1>2. ASSUME NEW t \in Threads, NEW b \in BOOLEAN, LogCall(t, b) PROVE OrderInv'
  BY <1>2, LogCallKeeps, StepCall, OrderByLine DEF Ready, OrderInv
<1>3. CASE Quiet
  <2>0. NewestHeld' /\ \A t \in Threads : Issued[t] <= Issued'[t]
    BY <1>3, QuietKeeps DEF Ready, OrderInv
  <2>1. ASSUME NEW t \in Threads, ThreadStep(t) PROVE OrderInv'
    <3>1. CASE Push(t)
      <4>1. Grown(Line, End, Line', End', bag[t])
        BY <3>1, StepPush
      <4>2. at[t] = "log" /\ at'[t] # "log" /\ logged' = logged
        <5>1. at[t] = "log" /\ (Goto(t, "submit") \/ Goto(t, "leave")) /\ logged' = logged
          BY <3>1 DEF Push
        <5> QED BY <5>1, Moved DEF Ready
      <4>3. Issued[t] = logged[t] - 1 /\ Issued'[t] = logged[t] /\ logged[t] \in Nat /\ logged[t] >= 1
        BY <4>2 DEF Issued, OrderInv, NewestHeld, Ready, Types
      <4>4. PICK f, g, m, n, c, d, s : f = Line /\ g = Line' /\ m = End /\ n = End' /\ c = Issued /\ d = Issued' /\ s = bag[t]
        OBVIOUS
      <4>5. m \in Nat /\ m >= 2 /\ n \in Nat
        BY <4>4 DEF Ready, LineIs
      <4>6. c \in [Threads -> Nat] /\ d \in [Threads -> Nat] /\ \A u \in Threads : c[u] <= d[u]
        <5>1. Issued \in [Threads -> Nat]
          BY IssuedIs DEF Ready, OrderInv
        <5>2. \A u \in Threads : logged'[u] \in Nat /\ (at'[u] = "log" => logged'[u] >= 1)
          BY <2>0 DEF Ready, Types, NewestHeld
        <5>3. \A u \in Threads : (IF at'[u] = "log" THEN logged'[u] - 1 ELSE logged'[u]) \in Nat
          BY <5>2
        <5>4. Issued' \in [Threads -> Nat]
          BY <5>3 DEF Issued
        <5> QED BY <2>0, <4>4, <5>1, <5>4
      <4>7. s \in Seq(Event) /\ Len(s) = 1 /\ s[1].by = t /\ s[1].n = c[t] /\ s[1].n < d[t]
        BY <4>2, <4>3, <4>4 DEF Ready, Types, OrderInv, NewestHeld
      <4>8. Ordered(f, m, c) /\ Grown(f, m, g, n, s)
        BY <4>1, <4>4 DEF OrderInv
      <4>9. Ordered(g, n, d)
        BY <4>5, <4>6, <4>7, <4>8, GrownOrdered
      <4> QED BY <2>0, <4>4, <4>9 DEF OrderInv
    <3>2. CASE Submit(t) \/ FlushSubmit(t)
      BY <3>2, <2>0, StepSubmit, OrderByLine DEF EnqueuedBy
    <3>3. CASE Barrier(t)
      BY <3>3, <2>0, StepBarrier, OrderByLine DEF EnqueuedBy
    <3>4. CASE FlushTake(t) \/ Leave(t) \/ Left(t)
      BY <3>4, <2>0, StepFlushTake, OrderByLine
    <3>5. CASE LogAlone(t) \/ FlushAlone(t)
      BY <3>5 DEF LogAlone, FlushAlone, Ready, Control, UpLabels, Locking, Destroying
    <3> QED BY <2>1, <3>1, <3>2, <3>3, <3>4, <3>5 DEF ThreadStep
  <2>2. ASSUME NEW t \in Threads, NEW b \in BOOLEAN, FlushCall(t, b) PROVE OrderInv'
    BY <2>0, <2>2, StepCall, OrderByLine
  <2>3. ASSUME NEW w \in Workers, WorkerStep(w) PROVE OrderInv'
    <3>1. CASE Take(w)
      BY <3>1, <2>0, StepTake, OrderByLine
    <3>2. CASE Write(w)
      <4>1. Written(Line, End, Line', End')
        BY <3>2, StepWrite
      <4>2. Issued' = Issued
        BY <3>2 DEF Write, Issued
      <4>3. PICK f, g, m, n, c : f = Line /\ g = Line' /\ m = End /\ n = End' /\ c = Issued
        OBVIOUS
      <4>4. m \in Nat /\ m >= 2 /\ n \in Nat
        BY <4>3 DEF Ready, LineIs
      <4>5. Ordered(f, m, c) /\ Written(f, m, g, n)
        BY <4>1, <4>3 DEF OrderInv
      <4>6. Ordered(g, n, c)
        BY <4>4, <4>5, WrittenOrdered
      <4> QED BY <2>0, <4>2, <4>3, <4>6 DEF OrderInv
    <3>3. CASE Backend(w) \/ Release(w)
      BY <3>3, <2>0, StepBackend, OrderByLine
    <3>4. CASE Exit(w)
      BY <3>4 DEF Exit, Up
    <3> QED BY <2>3, <3>1, <3>2, <3>3, <3>4 DEF WorkerStep
  <2>4. ASSUME NEW a \in Actors, DestroyStep(a) PROVE OrderInv'
    <3>1. CASE Destroy(a) \/ DestroyLeave(a)
      BY <3>1, <2>0, StepDestroy, OrderByLine
    <3>2. CASE DestroySubmit(a)
      BY <3>2, <2>0, StepDestroySubmit, OrderByLine DEF EnqueuedBy
    <3>3. CASE Join(a)
      BY <3>3 DEF Join, Ready, Control, UpLabels, Actors, Locking, Destroying
    <3> QED BY <2>4, <3>1, <3>2, <3>3 DEF DestroyStep
  <2>5. CASE DropAll \/ SetThreadPool \/ ReleasePool \/ StopPool
    BY <2>5, <2>0, StepManager, OrderByLine
  <2>6. ASSUME NEW t \in Threads, NEW b \in BOOLEAN, LogCall(t, b) PROVE OrderInv'
    BY <1>2, <2>6
  <2>7. CASE UNCHANGED vars
    BY <1>1, <2>7
  <2> QED BY <2>1, <2>2, <2>3, <2>4, <2>5, <2>6, <2>7 DEF Next
<1>4. Quiet \/ UNCHANGED vars \/ \E t \in Threads, b \in BOOLEAN : LogCall(t, b)
  BY StepsAreQuiet DEF Next, Ready
<1> QED BY <1>1, <1>2, <1>3, <1>4

(* While the pool is up, types, control and line are as they should be.      *)
LEMMA ReadyHolds == ASSUME OneWorker PROVE Spec => [](pool = "up" => Ready)
<1>1. Types /\ Control => LineIs
  BY LineParts
<1> QED BY <1>1, LoggerTypes, ControlHolds, PTL DEF Ready

(* While the pool is up, all events on their way are in order.               *)
LEMMA OrderHolds == ASSUME OneWorker PROVE Spec => [](pool = "up" => OrderInv)
<1>1. Init /\ (pool = "up" => Ready) => (pool = "up" => OrderInv)
  BY OrderInit
<1>2. (pool = "up" => Ready) /\ (pool = "up" => Ready)' /\ (pool = "up" => OrderInv) /\ [Next]_vars
      => (pool = "up" => OrderInv)'
  BY UpBefore, OrderKept DEF Up
<1> QED BY <1>1, <1>2, ReadyHolds, PTL DEF Spec

(***************************************************************************)
(* With one worker and the pool up, the events of a thread are written in  *)
(* the order in which the thread logged them, for any number of threads,   *)
(* events and flushes and under every overflow policy                      *)
(* (AsyncLogger.cc:118-198, 245-271).                                      *)
(***************************************************************************)
THEOREM FileInThreadOrder == ASSUME NEW w, Workers = {w} PROVE Spec => []ThreadOrder
<1>1. OneWorker
  BY DEF OneWorker, TheWorker
<1>2. (pool = "up" => Ready) /\ (pool = "up" => OrderInv) => ThreadOrder
  <2> SUFFICES ASSUME pool = "up", Ready, OrderInv
               PROVE  \A i, j \in DOMAIN file : i < j /\ file[i].by = file[j].by => file[i].n < file[j].n
    BY DEF ThreadOrder
  <2>1. Line[0] = file /\ 0 \in 0..End /\ file \in Seq(Event)
    BY DEF Ready, LineIs, Types
  <2>2. Sorted(file)
    BY <2>1 DEF OrderInv, Ordered
  <2>3. DOMAIN file = 1..Len(file)
    BY <2>1
  <2> QED BY <2>2, <2>3 DEF Sorted
<1> QED BY <1>1, <1>2, ReadyHolds, OrderHolds, PTL
-----------------------------------------------------------------------------
(* An event is in the first k + 1 sequences of a line; every event taken in  *)
(* is somewhere in it, and what a barrier covers is before the barrier.      *)
Within(line, e, k) == \E j \in 0..k : e \in Range(line[j])
Covers(line, last, q, taken) ==
  /\ \A e \in taken : Within(line, e, last)
  /\ \A i \in 1..Len(q) : \A e \in q[i].covers : q[i].kind = "flush" /\ Within(line, e, i)

(* What an empty sequence and two in a row contain.                          *)
LEMMA RangeOfConcat ==
  /\ Range(<<>>) = {}
  /\ \A s, u \in Seq(Event) : Range(s \o u) = Range(s) \union Range(u)
<1>1. Range(<<>>) = {}
  BY DEF Range
<1>2. ASSUME NEW s \in Seq(Event), NEW u \in Seq(Event) PROVE Range(s \o u) = Range(s) \union Range(u)
  <2>0. s \o u \in Seq(Event)
    OBVIOUS
  <2>1. PICK c \in Seq(Event) : c = s \o u
    BY <2>0
  <2>2. /\ Len(s) \in Nat /\ Len(u) \in Nat /\ Len(c) = Len(s) + Len(u)
        /\ \A i \in 1..Len(s) : c[i] = s[i]
        /\ \A i \in 1..Len(u) : c[i + Len(s)] = u[i]
        /\ \A i \in 1..Len(c) : i > Len(s) => i - Len(s) \in 1..Len(u) /\ c[i] = u[i - Len(s)]
    BY <2>1
  <2>3. Range(s) = {s[i] : i \in 1..Len(s)} /\ Range(u) = {u[i] : i \in 1..Len(u)} /\ Range(c) = {c[i] : i \in 1..Len(c)}
    BY DEF Range
  <2>4. \A i \in 1..Len(c) : c[i] \in Range(s) \union Range(u)
    <3>1. \A i \in 1..Len(c) : i > Len(s) => c[i] \in Range(u)
      BY <2>2, <2>3
    <3>2. \A i \in 1..Len(c) : i <= Len(s) => c[i] \in Range(s)
      BY <2>2, <2>3
    <3> QED BY <2>2, <3>1, <3>2
  <2>5. \A i \in 1..Len(s) : s[i] \in Range(c)
    BY <2>2, <2>3
  <2>6. \A i \in 1..Len(u) : u[i] \in Range(c)
    <3>1. \A i \in 1..Len(u) : i + Len(s) \in 1..Len(c)
      BY <2>2
    <3> QED BY <2>2, <2>3, <3>1
  <2>7. \A x \in Range(c) : x \in Range(s) \union Range(u)
    BY <2>3, <2>4
  <2>8. \A x \in Range(s) : x \in Range(c)
    BY <2>3, <2>5
  <2>9. \A x \in Range(u) : x \in Range(c)
    BY <2>3, <2>6
  <2>10. Range(c) = Range(s) \union Range(u)
    BY ONLY <2>7, <2>8, <2>9
  <2> QED BY <2>1, <2>10
<1> QED BY <1>1, <1>2

(* A line that does not change.                                              *)
LEMMA StillCovers ==
  ASSUME NEW m \in Nat, NEW n, NEW f, NEW g, NEW q \in Seq(Task), m = Len(q) + 2, NEW p,
         Covers(f, m, q, p), Still(f, m, g, n)
  PROVE  Covers(g, n, q, p)
<1>1. \A k \in 0..m : \A e : Within(f, e, k) => Within(g, e, k)
  BY DEF Within, Still
<1>2. \A i \in 1..Len(q) : i \in 0..m
  OBVIOUS
<1> QED BY <1>1, <1>2 DEF Covers, Still

(* A batch that grows by what is taken in.                                   *)
LEMMA GrownCovers ==
  ASSUME NEW m \in Nat, NEW n, NEW f, NEW g, NEW q \in Seq(Task), m = Len(q) + 2, NEW p,
         NEW s \in Seq(Event), f[m] \in Seq(Event), Covers(f, m, q, p), Grown(f, m, g, n, s)
  PROVE  Covers(g, n, q, p \union Range(s))
<1>1. Range(g[m]) = Range(f[m]) \union Range(s)
  BY RangeOfConcat DEF Grown
<1>2. \A k \in 0..m : Range(f[k]) \subseteq Range(g[k])
  <2>1. \A k \in 0..m : k = m \/ k \in 0..(m - 1)
    OBVIOUS
  <2>2. \A k \in 0..(m - 1) : g[k] = f[k]
    BY DEF Grown
  <2> QED BY <1>1, <2>1, <2>2
<1>3. \A k \in 0..m : \A e : Within(f, e, k) => Within(g, e, k)
  BY <1>2 DEF Within
<1>4. \A i \in 1..Len(q) : i \in 0..m
  OBVIOUS
<1>5. \A e \in Range(s) : Within(g, e, m)
  BY <1>1 DEF Within
<1> QED BY <1>3, <1>4, <1>5 DEF Covers, Grown

(* A task at the end of the queue, that covers at most what is before it.    *)
LEMMA PassedCovers ==
  ASSUME NEW m \in Nat, NEW n, NEW f, NEW g, NEW q \in Seq(Task), m = Len(q) + 2, NEW p, NEW task \in Task,
         \A e \in task.covers : task.kind = "flush" /\ Within(f, e, m - 1),
         Covers(f, m, q, p), Passed(f, m, g, n)
  PROVE  Covers(g, n, Append(q, task), p)
<1>1. PICK r : r = Append(q, task)
  OBVIOUS
<1>2. Len(r) = m - 1 /\ r[m - 1] = task /\ \A i \in 1..Len(r) : i = m - 1 \/ (i \in 1..Len(q) /\ r[i] = q[i])
  BY <1>1
<1>3. \A k \in 0..m : \A e : Within(f, e, k) => Within(g, e, k)
  BY DEF Within, Passed
<1>4. \A e \in p : Within(g, e, n)
  <2>1. n = m + 1 /\ \A e \in p : Within(g, e, m)
    BY <1>3 DEF Covers, Passed
  <2> QED BY <2>1 DEF Within
<1>5. \A i \in 1..Len(q) : i \in 0..m
  OBVIOUS
<1>6. m - 1 \in 0..m
  OBVIOUS
<1>7. ASSUME NEW i \in 1..Len(r), NEW e \in r[i].covers PROVE r[i].kind = "flush" /\ Within(g, e, i)
  <2>1. CASE i = m - 1
    BY <1>2, <1>3, <1>6, <2>1
  <2>2. CASE i \in 1..Len(q) /\ r[i] = q[i]
    BY <1>3, <1>5, <2>2 DEF Covers
  <2> QED BY <1>2, <2>1, <2>2
<1> QED BY <1>1, <1>4, <1>7 DEF Covers

(* The first task of the queue covers only what is in the file already.      *)
LEMMA FetchedCovers ==
  ASSUME NEW m \in Nat, NEW n, NEW f, NEW g, NEW q \in Seq(Task), m = Len(q) + 2, NEW p, q # <<>>,
         Covers(f, m, q, p), Fetched(f, m, g, n)
  PROVE  /\ Covers(g, n, Tail(q), p)
         /\ \A e \in Head(q).covers : Head(q).kind = "flush" /\ e \in Range(g[0])
<1>1. Tail(q) \in Seq(Task)
  OBVIOUS
<1>2. PICK r \in Seq(Task) : r = Tail(q)
  BY <1>1
<1>3. n = m - 1 /\ m >= 3 /\ Len(r) = Len(q) - 1 /\ \A i \in 1..Len(r) : i + 1 \in 1..Len(q) /\ r[i] = q[i + 1]
  BY <1>2 DEF Fetched
<1>4. ASSUME NEW k \in 1..m, NEW e, Within(f, e, k) PROVE Within(g, e, k - 1)
  <2>1. PICK j \in 0..k : e \in Range(f[j])
    BY <1>4 DEF Within
  <2>2. j # 1
    BY <2>1, RangeOfConcat DEF Fetched
  <2>3. CASE j = 0
    <3>1. 0 \in 0..(k - 1) /\ e \in Range(g[0])
      BY <2>1, <2>3 DEF Fetched
    <3> QED BY <3>1 DEF Within
  <2>4. CASE j >= 2
    <3>1. j - 1 \in 1..n /\ j - 1 \in 0..(k - 1) /\ (j - 1) + 1 = j
      BY <1>3, <2>4
    <3>2. g[j - 1] = f[j]
      BY <3>1 DEF Fetched
    <3> QED BY <2>1, <3>1, <3>2 DEF Within
  <2> QED BY <2>2, <2>3, <2>4
<1>5. \A e \in p : Within(g, e, n)
  BY <1>3, <1>4 DEF Covers
<1>6. ASSUME NEW i \in 1..Len(r), NEW e \in r[i].covers PROVE r[i].kind = "flush" /\ Within(g, e, i)
  <2>1. i + 1 \in 1..Len(q) /\ r[i] = q[i + 1] /\ i + 1 \in 1..m /\ (i + 1) - 1 = i
    BY <1>3
  <2>2. r[i].kind = "flush" /\ Within(f, e, i + 1)
    BY <2>1 DEF Covers
  <2> QED BY <1>4, <2>1, <2>2
<1>7. ASSUME NEW e \in Head(q).covers PROVE Head(q).kind = "flush" /\ e \in Range(g[0])
  <2>1. 1 \in 1..Len(q) /\ 1 \in 1..m /\ Head(q) = q[1]
    BY <1>3
  <2>2. Head(q).kind = "flush" /\ Within(f, e, 1)
    BY <2>1 DEF Covers
  <2>3. Within(g, e, 0)
    BY <1>4, <2>1, <2>2
  <2> QED BY <2>2, <2>3 DEF Within
<1> QED BY <1>2, <1>5, <1>6, <1>7 DEF Covers

(* Writing takes no event out of the line, and puts none behind a barrier.   *)
LEMMA WrittenCovers ==
  ASSUME NEW m \in Nat, NEW n, NEW f, NEW g, NEW q \in Seq(Task), m = Len(q) + 2, NEW p,
         f[0] \in Seq(Event), f[1] \in Seq(Event), Covers(f, m, q, p), Written(f, m, g, n)
  PROVE  Covers(g, n, q, p)
<1>1. Range(g[0]) = Range(f[0]) \union Range(f[1])
  BY RangeOfConcat DEF Written
<1>2. ASSUME NEW k \in 1..m, NEW e, Within(f, e, k) PROVE Within(g, e, k)
  <2>1. PICK j \in 0..k : e \in Range(f[j])
    BY <1>2 DEF Within
  <2>2. CASE j \in 0..1
    <3>1. e \in Range(g[0]) /\ 0 \in 0..k
      BY <1>1, <2>1, <2>2
    <3> QED BY <3>1 DEF Within
  <2>3. CASE j >= 2
    BY <2>1, <2>3 DEF Within, Written
  <2> QED BY <2>2, <2>3
<1>3. m \in 1..m /\ n = m /\ \A i \in 1..Len(q) : i \in 1..m
  BY DEF Written
<1> QED BY <1>2, <1>3 DEF Covers
-----------------------------------------------------------------------------
(* The events under way hold what was taken in; what a barrier covers is in  *)
(* front of it, so that the worker that has the barrier finds it written;    *)
(* and what was promised is flushed.                                         *)
BarrierCovered ==
  at[TheWorker] = "write" =>
    \A e \in job[TheWorker].covers : job[TheWorker].kind = "flush" /\ e \in Range(file)
Promised == promised \subseteq {file[i] : i \in 1..synced}
CoverInv == Covers(Line, End, queue, pushed) /\ BarrierCovered /\ Promised

(* Steps that neither take a task nor finish one.                            *)
Keeps ==
  /\ UNCHANGED <<synced, promised>>
  /\ file' = file \/ file' = file \o Work
  /\ at'[TheWorker] = "write" => at[TheWorker] = "write" /\ job'[TheWorker] = job[TheWorker]

(* Such steps keep what was promised, and what the worker will promise.      *)
LEMMA KeepsCovered ==
  ASSUME OneWorker, Ready, BarrierCovered, Promised, Keeps
  PROVE  BarrierCovered' /\ Promised'
<1>1. file \in Seq(Event) /\ Work \in Seq(Event) /\ synced \in 0..Len(file)
  <2>1. 1 \in 0..End /\ Line[1] = Work
    BY DEF Ready, LineIs
  <2> QED BY <2>1 DEF Ready, LineIs, Types
<1>2. Range(file) \subseteq Range(file')
  BY <1>1, RangeOfConcat DEF Keeps
<1>3. \A i \in 1..synced : file'[i] = file[i]
  BY <1>1 DEF Keeps
<1>4. Promised'
  <2>1. {file'[i] : i \in 1..synced} = {file[i] : i \in 1..synced}
    BY <1>3
  <2> QED BY <2>1 DEF Promised, Keeps
<1> QED BY <1>2, <1>4 DEF BarrierCovered, Keeps

(* The steps of a thread, of the destructor and of the manager keep them.    *)
LEMMA StepsKeep ==
  ASSUME OneWorker, Ready, Ready', Up,
         \/ \E t \in Threads : ThreadStep(t) \/ \E b \in BOOLEAN : LogCall(t, b) \/ FlushCall(t, b)
         \/ \E w \in Workers : Write(w) \/ Release(w)
         \/ \E a \in Actors : DestroyStep(a)
         \/ DropAll \/ SetThreadPool \/ ReleasePool \/ StopPool
  PROVE  Keeps
<1> USE ActorsAre
<1>0. Types /\ TheWorker \in Actors /\ TheWorker \notin Threads /\ TheWorker # Manager
  BY DEF Ready, OneWorker
<1>1. ASSUME NEW t \in Threads, ThreadStep(t) \/ \E b \in BOOLEAN : LogCall(t, b) \/ FlushCall(t, b) PROVE Keeps
  <2>1. \E s \in Labels : Goto(t, s)
    BY <1>1 DEF ThreadStep, LogAlone, Push, Submit, FlushAlone, FlushTake, FlushSubmit, Barrier, Leave, Left,
       LogCall, FlushCall, ReleasePoolOf, ReleaseLogger, Labels, Locking, Destroying
  <2>2. at'[TheWorker] = at[TheWorker]
    BY <1>0, <2>1, Moved
  <2>3. UNCHANGED <<job, promised>>
    BY <1>1 DEF ThreadStep, LogAlone, Push, Submit, FlushAlone, FlushTake, FlushSubmit, Barrier, Leave, Left,
       LogCall, FlushCall
  <2>4. ~LogAlone(t) /\ ~FlushAlone(t)
    BY DEF LogAlone, FlushAlone, Ready, Control, UpLabels, Locking, Destroying
  <2>5. UNCHANGED <<file, synced>>
    <3>1. CASE Submit(t) \/ FlushSubmit(t)
      BY <3>1, StepSubmit
    <3>2. CASE Barrier(t)
      BY <3>2, StepBarrier
    <3>3. CASE Push(t) \/ FlushTake(t) \/ Leave(t) \/ Left(t) \/ \E b \in BOOLEAN : LogCall(t, b) \/ FlushCall(t, b)
      BY <3>3 DEF Push, FlushTake, Leave, Left, LogCall, FlushCall, sinks
    <3> QED BY <1>1, <2>4, <3>1, <3>2, <3>3 DEF ThreadStep
  <2> QED BY <2>2, <2>3, <2>5 DEF Keeps
<1>2. ASSUME NEW w \in Workers, Write(w) PROVE Keeps
  <2>1. file' = file \o Work
    BY <1>2, StepWrite
  <2> QED BY <1>2, <2>1 DEF Keeps, Write
<1>3. ASSUME NEW w \in Workers, Release(w) PROVE Keeps
  <2>1. w = TheWorker /\ (Goto(w, "idle") \/ Goto(w, "dtor")) /\ UNCHANGED <<file, synced, promised>>
    BY <1>3 DEF Release, ReleaseLogger, OneWorker, sinks
  <2>2. at'[TheWorker] # "write"
    BY <1>0, <2>1, Moved
  <2> QED BY <2>1, <2>2 DEF Keeps
<1>4. ASSUME NEW a \in Actors, DestroyStep(a) PROVE Keeps
  <2>1. \E s \in Labels \ {"write"} : Goto(a, s)
    BY <1>4 DEF DestroyStep, Join, Destroy, DestroySubmit, DestroyLeave, ReleasePoolOf, Labels, Locking, Destroying
  <2>2. at'[TheWorker] = "write" => at[TheWorker] = "write"
    BY <1>0, <2>1, Moved
  <2>3. UNCHANGED <<job, promised>>
    BY <1>4 DEF DestroyStep, Join, Destroy, DestroySubmit, DestroyLeave
  <2>4. UNCHANGED <<file, synced>>
    BY <1>4 DEF DestroyStep, Join, Destroy, DestroySubmit, DestroyLeave, sinks, Up
  <2> QED BY <2>2, <2>3, <2>4 DEF Keeps
<1>5. CASE DropAll \/ SetThreadPool \/ ReleasePool \/ StopPool
  <2>1. UNCHANGED at \/ \E s \in Labels : Goto(Manager, s)
    BY <1>5 DEF DropAll, SetThreadPool, ReleasePool, ResetPool, StopPool, Labels, Locking, Destroying
  <2>2. at'[TheWorker] = at[TheWorker]
    BY <1>0, <2>1, Moved
  <2>3. UNCHANGED <<file, synced, job, promised>>
    BY <1>5 DEF DropAll, SetThreadPool, ReleasePool, ResetPool, StopPool, sinks
  <2> QED BY <2>2, <2>3 DEF Keeps
<1> QED BY <1>1, <1>2, <1>3, <1>4, <1>5

(* The worker takes a task: a barrier has its promise written in front of it. *)
LEMMA CoverTake ==
  ASSUME OneWorker, Ready, Ready', Up, CoverInv, NEW w \in Workers, Take(w)
  PROVE  CoverInv'
<1>1. Fetched(Line, End, Line', End') /\ w = TheWorker
  BY StepTake
<1>2. /\ queue # <<>> /\ queue' = Tail(queue) /\ job' = [job EXCEPT ![w] = Head(queue)]
      /\ UNCHANGED <<file, synced, pushed, promised>>
  BY DEF Take, sinks
<1>3. PICK f, g, m, n, q, p : f = Line /\ g = Line' /\ m = End /\ n = End' /\ q = queue /\ p = pushed
  OBVIOUS
<1>4. q \in Seq(Task) /\ m \in Nat /\ m = Len(q) + 2 /\ q # <<>> /\ g[0] = file
  BY <1>2, <1>3 DEF Ready, LineIs, Types
<1>5. Covers(f, m, q, p) /\ Fetched(f, m, g, n)
  BY <1>1, <1>3 DEF CoverInv
<1>6. /\ Covers(g, n, Tail(q), p)
      /\ \A e \in Head(q).covers : Head(q).kind = "flush" /\ e \in Range(g[0])
  BY <1>4, <1>5, FetchedCovers
<1>7. job'[TheWorker] = Head(q)
  BY <1>1, <1>2, <1>3 DEF Ready, Types
<1>8. BarrierCovered'
  BY <1>2, <1>4, <1>6, <1>7 DEF BarrierCovered
<1>9. Promised'
  BY <1>2 DEF CoverInv, Promised
<1>10. Covers(Line', End', queue', pushed')
  BY <1>2, <1>3, <1>6
<1> QED BY <1>8, <1>9, <1>10 DEF CoverInv

(* The worker finishes its task: a barrier flushes what it covers.           *)
LEMMA CoverBackend ==
  ASSUME OneWorker, Ready, Ready', Up, CoverInv, NEW w \in Workers, Backend(w)
  PROVE  CoverInv'
<1>1. Still(Line, End, Line', End') /\ w = TheWorker
  BY StepBackend DEF OneWorker
<1>2. /\ at[w] = "write" /\ Goto(w, "release") /\ UNCHANGED <<file, queue, pushed>>
      /\ job[w].kind = "flush" => synced' = Len(file)
      /\ synced' = synced \/ synced' = Len(file)
      /\ promised' = promised \union job[w].covers
  BY DEF Backend, FlushSinks, poolState
<1>3. at'[TheWorker] = "release"
  BY <1>1, <1>2, Moved, ActorsAre DEF Ready
<1>4. file \in Seq(Event) /\ synced \in 0..Len(file) /\ Len(file) \in Nat
  BY DEF Ready, Types
<1>5. ASSUME NEW e \in promised' PROVE e \in {file'[i] : i \in 1..synced'}
  <2>1. CASE e \in promised
    <3>1. PICK i \in 1..synced : e = file[i]
      BY <2>1 DEF CoverInv, Promised
    <3>2. i \in 1..synced'
      BY <1>2, <1>4
    <3> QED BY <1>2, <3>1, <3>2
  <2>2. CASE e \in job[w].covers
    <3>1. synced' = Len(file) /\ e \in Range(file)
      BY <1>1, <1>2, <2>2 DEF CoverInv, BarrierCovered
    <3>2. PICK i \in 1..Len(file) : e = file[i]
      BY <1>4, <3>1 DEF Range
    <3> QED BY <1>2, <3>1, <3>2
  <2> QED BY <1>2, <2>1, <2>2
<1>6. PICK f, g, m, n, q, p : f = Line /\ g = Line' /\ m = End /\ n = End' /\ q = queue /\ p = pushed
  OBVIOUS
<1>7. q \in Seq(Task) /\ m \in Nat /\ m = Len(q) + 2 /\ Covers(f, m, q, p) /\ Still(f, m, g, n)
  BY <1>1, <1>6 DEF Ready, LineIs, Types, CoverInv
<1>8. Covers(Line', End', queue', pushed')
  BY <1>2, <1>6, <1>7, StillCovers
<1> QED BY <1>3, <1>5, <1>8 DEF CoverInv, BarrierCovered, Promised

(* A step that moves no event and takes none in.                             *)
LEMMA CoverStill ==
  ASSUME OneWorker, Ready, CoverInv, Keeps, Still(Line, End, Line', End'), UNCHANGED <<queue, pushed>>
  PROVE  CoverInv'
<1>1. PICK f, g, m, n, q, p : f = Line /\ g = Line' /\ m = End /\ n = End' /\ q = queue /\ p = pushed
  OBVIOUS
<1>2. q \in Seq(Task) /\ m \in Nat /\ m = Len(q) + 2 /\ Covers(f, m, q, p) /\ Still(f, m, g, n)
  BY <1>1 DEF Ready, LineIs, Types, CoverInv
<1>3. Covers(Line', End', queue', pushed')
  BY <1>1, <1>2, StillCovers
<1> QED BY <1>3, KeepsCovered DEF CoverInv

(* sink_it_ takes an event in by putting it into the batch.                  *)
LEMMA CoverPush ==
  ASSUME OneWorker, Ready, Ready', Up, CoverInv, Keeps, NEW t \in Threads, Push(t)
  PROVE  CoverInv'
<1>1. Grown(Line, End, Line', End', bag[t]) /\ UNCHANGED queue /\ pushed' = pushed \union Range(bag[t])
  BY StepPush DEF Push
<1>2. PICK f, g, m, n, q, p, s :
        f = Line /\ g = Line' /\ m = End /\ n = End' /\ q = queue /\ p = pushed /\ s = bag[t]
  OBVIOUS
<1>3. q \in Seq(Task) /\ m \in Nat /\ m = Len(q) + 2 /\ Covers(f, m, q, p) /\ Grown(f, m, g, n, s)
  BY <1>1, <1>2 DEF Ready, LineIs, Types, CoverInv
<1>4. s \in Seq(Event) /\ f[m] \in Seq(Event)
  <2>1. bag[t] \in Seq(Event)
    BY ActorsAre DEF Ready, Types
  <2>2. End \in 0..End
    BY <1>2, <1>3
  <2>3. Line[End] \in Seq(Event)
    BY <2>2 DEF Ready, LineIs
  <2> QED BY <1>2, <2>1, <2>3
<1>5. Covers(Line', End', queue', pushed')
  BY <1>1, <1>2, <1>3, <1>4, GrownCovers
<1> QED BY <1>5, KeepsCovered DEF CoverInv

(* Under Block a task that covers no more than what is in front of it waits  *)
(* for room and goes behind the others.                                      *)
LEMMA CoverEnqueue ==
  ASSUME OneWorker, Ready, CoverInv, Keeps, strategy = "Block", UNCHANGED pushed, NEW task \in Task,
         EnqueuedBy(task), \A e \in task.covers : task.kind = "flush" /\ Within(Line, e, End - 1)
  PROVE  CoverInv'
<1>1. queue' = Append(queue, task) /\ Passed(Line, End, Line', End')
  BY DEF EnqueuedBy
<1>2. PICK f, g, m, n, q, p : f = Line /\ g = Line' /\ m = End /\ n = End' /\ q = queue /\ p = pushed
  OBVIOUS
<1>3. q \in Seq(Task) /\ m \in Nat /\ m = Len(q) + 2 /\ Covers(f, m, q, p) /\ Passed(f, m, g, n)
  BY <1>1, <1>2 DEF Ready, LineIs, Types, CoverInv
<1>4. \A e \in task.covers : task.kind = "flush" /\ Within(f, e, m - 1)
  BY <1>2
<1>5. Covers(g, n, Append(q, task), p)
  BY <1>3, <1>4, PassedCovers
<1>6. Covers(Line', End', queue', pushed')
  BY <1>1, <1>2, <1>5
<1> QED BY <1>6, KeepsCovered DEF CoverInv

(* The batches of log, flush and the destructor cover nothing.               *)
LEMMA CoverSubmit ==
  ASSUME OneWorker, Ready, Ready', Up, CoverInv, Keeps, strategy = "Block",
         (\E t \in Threads : Submit(t) \/ FlushSubmit(t)) \/ \E a \in Actors : DestroySubmit(a)
  PROVE  CoverInv'
<1>1. UNCHANGED pushed
  BY DEF Submit, FlushSubmit, DestroySubmit
<1>2. \A a \in Actors : bag[a] \in Seq(Event)
  BY DEF Ready, Types
<1>3. ASSUME NEW t \in Threads, Submit(t) \/ FlushSubmit(t) PROVE CoverInv'
  <2>1. PICK task \in Task : task = [kind |-> "batch", events |-> bag[t], covers |-> {}]
    BY <1>2, ActorsAre DEF Task
  <2>2. EnqueuedBy([kind |-> "batch", events |-> bag[t], covers |-> {}])
    BY <1>3, StepSubmit
  <2>3. EnqueuedBy(task) /\ task.covers = {}
    BY <2>1, <2>2
  <2> QED BY <1>1, <2>3, CoverEnqueue
<1>4. ASSUME NEW a \in Actors, DestroySubmit(a) PROVE CoverInv'
  <2>1. PICK task \in Task : task = [kind |-> "rest", events |-> bag[a], covers |-> {}]
    BY <1>2 DEF Task
  <2>2. EnqueuedBy([kind |-> "rest", events |-> bag[a], covers |-> {}])
    BY <1>4, StepDestroySubmit
  <2>3. EnqueuedBy(task) /\ task.covers = {}
    BY <2>1, <2>2
  <2> QED BY <1>1, <2>3, CoverEnqueue
<1> QED BY <1>3, <1>4

(* The barrier covers all that was taken in: flush has submitted the batch   *)
(* and holds the mutex still, so that all of it is in front of the barrier.  *)
LEMMA CoverBarrier ==
  ASSUME OneWorker, Ready, Ready', Up, CoverInv, Keeps, strategy = "Block", NEW t \in Threads, Barrier(t)
  PROVE  CoverInv'
<1>1. /\ EnqueuedBy([kind |-> "flush", events |-> <<>>, covers |-> pushed]) /\ Line[End] = <<>>
      /\ UNCHANGED pushed
  BY StepBarrier DEF Barrier
<1>2. PICK task \in Task : task = [kind |-> "flush", events |-> <<>>, covers |-> pushed]
  <2>1. <<>> \in Seq(Event) /\ pushed \subseteq Event
    BY DEF Ready, Types
  <2> QED BY <2>1 DEF Task
<1>3. EnqueuedBy(task) /\ task.covers = pushed /\ task.kind = "flush"
  BY <1>1, <1>2
<1>4. End \in Nat /\ End >= 2
  BY DEF Ready, LineIs
<1>5. ASSUME NEW e \in pushed PROVE Within(Line, e, End - 1)
  <2>1. PICK j \in 0..End : e \in Range(Line[j])
    BY DEF CoverInv, Covers, Within
  <2>2. j # End
    BY <1>1, <2>1, RangeOfConcat
  <2>3. j \in 0..(End - 1)
    BY <1>4, <2>2
  <2> QED BY <2>1, <2>3 DEF Within
<1> QED BY <1>1, <1>3, <1>5, CoverEnqueue

(* The worker writes its batch.                                              *)
LEMMA CoverWrite ==
  ASSUME OneWorker, Ready, Ready', Up, CoverInv, Keeps, NEW w \in Workers, Write(w)
  PROVE  CoverInv'
<1>1. Written(Line, End, Line', End') /\ UNCHANGED <<queue, pushed>>
  BY StepWrite DEF Write, poolState
<1>2. PICK f, g, m, n, q, p : f = Line /\ g = Line' /\ m = End /\ n = End' /\ q = queue /\ p = pushed
  OBVIOUS
<1>3. q \in Seq(Task) /\ m \in Nat /\ m = Len(q) + 2 /\ Covers(f, m, q, p) /\ Written(f, m, g, n)
  BY <1>1, <1>2 DEF Ready, LineIs, Types, CoverInv
<1>4. f[0] \in Seq(Event) /\ f[1] \in Seq(Event)
  <2>1. 0 \in 0..End /\ 1 \in 0..End
    BY DEF Ready, LineIs
  <2>2. Line[0] \in Seq(Event) /\ Line[1] \in Seq(Event)
    BY <2>1 DEF Ready, LineIs
  <2> QED BY <1>2, <2>2
<1>5. Covers(Line', End', queue', pushed')
  BY <1>1, <1>2, <1>3, <1>4, WrittenCovers
<1> QED BY <1>5, KeepsCovered DEF CoverInv

(* What is promised is covered while the pool is up, under Block.            *)
LEMMA CoverKept ==
  ASSUME OneWorker, Ready, Ready', Up, strategy = "Block", CoverInv, [Next]_vars
  PROVE  CoverInv'
<1>1. CASE UNCHANGED vars
  <2>1. UNCHANGED <<at, bag, job, pending, queue, file, synced, pushed, promised>>
    BY <1>1 DEF vars, poolState, sinks
  <2>2. Line' = Line /\ End' = End
    BY <2>1 DEF Line, End, Work, Batch, Hands
  <2> QED BY <2>1, <2>2 DEF CoverInv, BarrierCovered, Promised
<1>2. ASSUME NEW t \in Threads, ThreadStep(t) PROVE CoverInv'
  <2>1. Keeps
    BY <1>2, StepsKeep
  <2>2. CASE FlushTake(t) \/ Leave(t) \/ Left(t)
    <3>1. UNCHANGED <<queue, pushed>>
      BY <2>2 DEF FlushTake, Leave, Left, poolState
    <3> QED BY <2>1, <2>2, <3>1, StepFlushTake, CoverStill
  <2>3. CASE LogAlone(t) \/ FlushAlone(t)
    BY <2>3, ActorsAre DEF LogAlone, FlushAlone, Ready, Control, UpLabels, Locking, Destroying
  <2> QED BY <1>2, <2>1, <2>2, <2>3, CoverPush, CoverSubmit, CoverBarrier DEF ThreadStep
<1>3. ASSUME NEW t \in Threads, NEW b \in BOOLEAN, LogCall(t, b) \/ FlushCall(t, b) PROVE CoverInv'
  <2>1. UNCHANGED <<queue, pushed>>
    BY <1>3 DEF LogCall, FlushCall, poolState
  <2> QED BY <1>3, <2>1, StepsKeep, StepCall, CoverStill
<1>4. ASSUME NEW w \in Workers, WorkerStep(w) PROVE CoverInv'
  <2>1. CASE Release(w)
    <3>1. UNCHANGED <<queue, pushed>>
      BY <2>1 DEF Release, poolState
    <3> QED BY <2>1, <3>1, StepsKeep, StepBackend, CoverStill
  <2>2. CASE Write(w)
    BY <2>2, StepsKeep, CoverWrite
  <2>3. CASE Exit(w)
    BY <2>3 DEF Exit, Up
  <2> QED BY <1>4, <2>1, <2>2, <2>3, CoverTake, CoverBackend DEF WorkerStep
<1>5. ASSUME NEW a \in Actors, DestroyStep(a) PROVE CoverInv'
  <2>1. Keeps
    BY <1>5, StepsKeep
  <2>2. CASE Destroy(a) \/ DestroyLeave(a)
    <3>1. UNCHANGED <<queue, pushed>>
      BY <2>2 DEF Destroy, DestroyLeave, poolState
    <3> QED BY <2>1, <2>2, <3>1, StepDestroy, CoverStill
  <2>3. CASE DestroySubmit(a)
    BY <2>1, <2>3, CoverSubmit
  <2>4. CASE Join(a)
    BY <2>4, ActorsAre DEF Join, Ready, Control, UpLabels, Actors, Locking, Destroying
  <2> QED BY <1>5, <2>2, <2>3, <2>4 DEF DestroyStep
<1>6. CASE DropAll \/ SetThreadPool \/ ReleasePool \/ StopPool
  <2>1. UNCHANGED <<queue, pushed>>
    BY <1>6 DEF DropAll, SetThreadPool, ReleasePool, ResetPool, StopPool, poolState
  <2> QED BY <1>6, <2>1, StepsKeep, StepManager, CoverStill
<1> QED BY <1>1, <1>2, <1>3, <1>4, <1>5, <1>6 DEF Next

(* The overflow strategy stays.                                              *)
LEMMA StrategyStays == ASSUME [Next]_vars PROVE strategy' = strategy
BY DEF Next, vars, ThreadStep, LogAlone, Push, Submit, FlushAlone, FlushTake, FlushSubmit, Barrier, Leave, Left,
   LogCall, FlushCall, WorkerStep, Take, Exit, Write, Backend, Release, DestroyStep, Join, Destroy, DestroySubmit,
   DestroyLeave, DropAll, SetThreadPool, ReleasePool, ResetPool, StopPool

(***************************************************************************)
(* With one worker, under Block and with the pool up, a flush whose        *)
(* barrier has run has written and flushed every event that log had taken  *)
(* in before the barrier was submitted: batch and barrier are submitted in *)
(* one critical section, to a queue that keeps their order                 *)
(* (AsyncLogger.cc:155-198).                                               *)
(***************************************************************************)
THEOREM FlushCoversLogged == ASSUME NEW w, Workers = {w} PROVE Spec => []FlushCovers
<1>1. OneWorker
  BY DEF OneWorker, TheWorker
<1> DEFINE Claim == strategy = "Block" /\ pool = "up" => CoverInv
<1>2. Init /\ (pool = "up" => Ready) => Claim
  <2> SUFFICES ASSUME Init, Ready PROVE CoverInv
    BY DEF Init
  <2>1. queue = <<>> /\ pushed = {} /\ promised = {} /\ \A a \in Actors : at[a] = "idle"
    BY DEF Init
  <2>2. at[TheWorker] = "idle"
    BY <1>1, <2>1, ActorsAre DEF OneWorker
  <2>3. Covers(Line, End, queue, pushed)
    BY <2>1 DEF Covers
  <2> QED BY <2>1, <2>2, <2>3 DEF CoverInv, BarrierCovered, Promised
<1>3. (pool = "up" => Ready) /\ (pool = "up" => Ready)' /\ Claim /\ [Next]_vars => Claim'
  BY <1>1, UpBefore, StrategyStays, CoverKept DEF Up
<1>4. Claim => FlushCovers
  BY DEF CoverInv, Promised, FlushCovers
<1> QED BY <1>1, <1>2, <1>3, <1>4, ReadyHolds, PTL DEF Spec

-----------------------------------------------------------------------------
(* An event somewhere on its way, or written.                                *)
Kept(e) ==
  \/ e \in Range(file) \/ e \in Range(pending)
  \/ \E a \in Actors : e \in Range(bag[a])
  \/ \E i \in DOMAIN queue : e \in Range(queue[i].events)

(* Only who is about to pass a batch on has one.                             *)
Carrying == {"log", "alone", "submit", "flushSubmit", "dsubmit", "write"}
BagsKnown == \A a \in Actors : at[a] \notin Carrying => bag[a] = <<>>

LostInv == BagsKnown /\ NothingLost

(* What an actor had it passes on, to the sinks, to the batch or to the queue. *)
LEMMA PassedOn ==
  ASSUME Types, Types', NEW a \in Actors, NEW e, Kept(e), \A b \in Actors : b # a => bag'[b] = bag[b],
         e \in Range(file) => e \in Range(file'),
         e \in Range(pending) \union Range(bag[a]) => Kept(e)',
         \A i \in DOMAIN queue : e \in Range(queue[i].events) => Kept(e)'
  PROVE  Kept(e)'
BY DEF Kept

(* The queue, with a task behind the others.                                 *)
LEMMA QueueGrows ==
  ASSUME Types, NEW task \in Task, queue' = Append(queue, task)
  PROVE  /\ \A e : (\E i \in DOMAIN queue : e \in Range(queue[i].events))
                   => \E i \in DOMAIN queue' : e \in Range(queue'[i].events)
         /\ \A e \in Range(task.events) : \E i \in DOMAIN queue' : e \in Range(queue'[i].events)
<1>1. PICK q, r : q = queue /\ r = queue'
  OBVIOUS
<1>2. q \in Seq(Task) /\ r = Append(q, task)
  BY <1>1 DEF Types
<1>3. /\ DOMAIN q = 1..Len(q) /\ DOMAIN r = 1..(Len(q) + 1) /\ Len(q) \in Nat
      /\ r[Len(q) + 1] = task /\ \A i \in 1..Len(q) : r[i] = q[i]
  BY <1>2
<1>4. \A i \in DOMAIN q : i \in DOMAIN r /\ r[i] = q[i]
  BY <1>3
<1>5. Len(q) + 1 \in DOMAIN r
  BY <1>3
<1> QED BY <1>1, <1>3, <1>4, <1>5

(* A batch that is submitted under Block, with or without a worker to run it. *)
LEMMA SubmitKeeps ==
  ASSUME Types, Types', NEW a \in Actors, NEW task \in Task, task.events = bag[a],
         \/ queue' = Append(queue, task) /\ UNCHANGED file
         \/ UNCHANGED queue /\ WriteSync(bag[a]),
         UNCHANGED pending, \A b \in Actors : b # a => bag'[b] = bag[b]
  PROVE  \A e : Kept(e) => Kept(e)'
<1> SUFFICES ASSUME NEW e, Kept(e) PROVE Kept(e)'
  OBVIOUS
<1>1. CASE queue' = Append(queue, task) /\ UNCHANGED file
  BY <1>1, PassedOn, QueueGrows DEF Kept
<1>2. CASE UNCHANGED queue /\ WriteSync(bag[a])
  <2>1. Range(file') = Range(file) \union Range(bag[a])
    BY <1>2, RangeOfConcat DEF Types, WriteSync
  <2> QED BY <1>2, <2>1, PassedOn DEF Kept
<1> QED BY <1>1, <1>2

(* What is pending is written by whoever finds no pool.                      *)
LEMMA AloneKeeps ==
  ASSUME Types, WriteSync(pending), UNCHANGED <<queue, bag>>
  PROVE  \A e : Kept(e) => Kept(e)'
<1>1. Range(file') = Range(file) \union Range(pending)
  BY RangeOfConcat DEF Types, WriteSync
<1> QED BY <1>1 DEF Kept

(* What is pending is taken, by an actor that has nothing yet.               *)
LEMMA TakeKeeps ==
  ASSUME Types, NEW a \in Actors, bag[a] = <<>>, bag' = [bag EXCEPT ![a] = pending], UNCHANGED <<queue, file>>
  PROVE  \A e : Kept(e) => Kept(e)'
<1>1. bag'[a] = pending /\ \A b \in Actors : b # a => bag'[b] = bag[b]
  BY DEF Types
<1>2. Range(bag[a]) = {}
  BY RangeOfConcat
<1> QED BY <1>1, <1>2 DEF Kept

(* A thread's steps under Block lose nothing, and take in what they have.    *)
LEMMA LostThread ==
  ASSUME Types, Types', LostInv, strategy = "Block", NEW t \in Threads,
         ThreadStep(t) \/ \E b \in BOOLEAN : LogCall(t, b) \/ FlushCall(t, b)
  PROVE  \A e : Kept(e) \/ e \in pushed' \ pushed => Kept(e)'
<1> USE ActorsAre
<1>0. t \in Actors /\ bag[t] \in Seq(Event) /\ pending \in Seq(Event) /\ file \in Seq(Event)
  BY DEF Types
<1>1. CASE \E b \in BOOLEAN : LogCall(t, b)
  <2>1. at[t] = "idle" /\ UNCHANGED <<file, pending, queue, pushed>>
    BY <1>1 DEF LogCall, poolState, sinks
  <2>2. Range(bag[t]) = {}
    BY <2>1, RangeOfConcat DEF LostInv, BagsKnown, Carrying
  <2>3. \A b \in Actors : b # t => bag'[b] = bag[b]
    BY <1>1 DEF LogCall, Types
  <2> QED BY <2>1, <2>2, <2>3 DEF Kept
<1>2. CASE LogAlone(t)
  <2>1. WriteSync(bag[t]) /\ UNCHANGED <<pending, queue>> /\ pushed' = pushed \union Range(bag[t])
    BY <1>2 DEF LogAlone, poolState
  <2>2. Range(file') = Range(file) \union Range(bag[t])
    BY <1>0, <2>1, RangeOfConcat DEF WriteSync
  <2>3. \A b \in Actors : b # t => bag'[b] = bag[b]
    BY <1>2 DEF LogAlone, Types
  <2> QED BY <2>1, <2>2, <2>3 DEF Kept
<1>3. CASE Push(t)
  <2>1. UNCHANGED <<file, queue>> /\ pushed' = pushed \union Range(bag[t])
    BY <1>3 DEF Push, poolState, sinks
  <2>2. PICK batch : batch = pending \o bag[t]
    OBVIOUS
  <2>3. Range(batch) = Range(pending) \union Range(bag[t])
    BY <1>0, <2>2, RangeOfConcat
  <2>4. (bag'[t] = batch \/ pending' = batch) /\ \A b \in Actors : b # t => bag'[b] = bag[b]
    BY <1>3, <2>2 DEF Push, Types
  <2> QED BY <2>1, <2>3, <2>4 DEF Kept
<1>4. CASE Submit(t) \/ FlushSubmit(t)
  <2>1. PICK task \in Task : task = [kind |-> "batch", events |-> bag[t], covers |-> {}]
    BY <1>0 DEF Task
  <2>2. /\ \/ queue' = Append(queue, task) /\ UNCHANGED file
           \/ UNCHANGED queue /\ WriteSync(bag[t])
        /\ UNCHANGED <<pending, pushed>>
    BY <1>4, <2>1 DEF Submit, FlushSubmit, Enqueue, sinks
  <2>3. \A b \in Actors : b # t => bag'[b] = bag[b]
    BY <1>4 DEF Submit, FlushSubmit, Types
  <2> QED BY <1>0, <2>1, <2>2, <2>3, SubmitKeeps
<1>5. CASE FlushAlone(t)
  <2>1. WriteSync(pending) /\ UNCHANGED <<queue, bag, pushed>>
    BY <1>5 DEF FlushAlone, poolState
  <2> QED BY <2>1, AloneKeeps
<1>6. CASE FlushTake(t)
  <2>1. at[t] = "flush" /\ bag' = [bag EXCEPT ![t] = pending] /\ UNCHANGED <<queue, file, pushed>>
    BY <1>6 DEF FlushTake, poolState, sinks
  <2>2. bag[t] = <<>>
    BY <2>1 DEF LostInv, BagsKnown, Carrying
  <2> QED BY <1>0, <2>1, <2>2, TakeKeeps
<1>7. CASE Barrier(t)
  <2>1. PICK task \in Task : task = [kind |-> "flush", events |-> <<>>, covers |-> pushed]
    <3>1. <<>> \in Seq(Event) /\ pushed \subseteq Event
      BY DEF Types
    <3> QED BY <3>1 DEF Task
  <2>2. UNCHANGED queue \/ queue' = Append(queue, task)
    BY <1>7, <2>1 DEF Barrier, Enqueue
  <2>3. UNCHANGED <<file, pending, bag, pushed>>
    BY <1>7 DEF Barrier, Enqueue, sinks
  <2> QED BY <2>2, <2>3, QueueGrows DEF Kept
<1>8. CASE Leave(t) \/ Left(t) \/ \E b \in BOOLEAN : FlushCall(t, b)
  <2>1. UNCHANGED <<file, pending, bag, queue, pushed>>
    BY <1>8 DEF Leave, Left, FlushCall, poolState, sinks
  <2> QED BY <2>1 DEF Kept
<1> QED BY <1>1, <1>2, <1>3, <1>4, <1>5, <1>6, <1>7, <1>8 DEF ThreadStep

(* Nor do a worker's.                                                        *)
LEMMA LostWorker ==
  ASSUME Types, Types', LostInv, NEW w \in Workers, WorkerStep(w)
  PROVE  (\A e : Kept(e) => Kept(e)') /\ UNCHANGED pushed
<1> USE ActorsAre
<1>0. UNCHANGED <<pending, pushed>>
  BY DEF WorkerStep, Take, Exit, Write, Backend, Release
<1>1. CASE Take(w)
  <2>1. at[w] = "idle" /\ queue # <<>> /\ queue' = Tail(queue) /\ UNCHANGED file
    BY <1>1 DEF Take, sinks
  <2>2. bag'[w] = Head(queue).events /\ \A b \in Actors : b # w => bag'[b] = bag[b]
    BY <1>1 DEF Take, Types
  <2>3. Range(bag[w]) = {}
    BY <2>1, RangeOfConcat DEF LostInv, BagsKnown, Carrying
  <2>4. PICK q, r : q = queue /\ r = queue'
    OBVIOUS
  <2>5. q \in Seq(Task) /\ q # <<>> /\ r = Tail(q)
    BY <2>1, <2>4 DEF Types
  <2>6. ASSUME NEW i \in DOMAIN q, i # 1 PROVE i - 1 \in DOMAIN r /\ r[i - 1] = q[i]
    <3>1. DOMAIN q = 1..Len(q) /\ DOMAIN r = 1..(Len(q) - 1) /\ Len(q) \in Nat /\ \A k \in 1..(Len(q) - 1) : r[k] = q[k + 1]
      BY <2>5
    <3>2. i - 1 \in 1..(Len(q) - 1) /\ (i - 1) + 1 = i
      BY <2>6, <3>1
    <3> QED BY <3>1, <3>2
  <2>7. bag'[w] = q[1].events
    BY <2>2, <2>4, <2>5
  <2>8. ASSUME NEW e, NEW i \in DOMAIN queue, e \in Range(queue[i].events) PROVE Kept(e)'
    <3>1. CASE i = 1
      BY <2>4, <2>7, <2>8, <3>1 DEF Kept
    <3>2. CASE i # 1
      <4>1. i - 1 \in DOMAIN queue' /\ queue'[i - 1] = queue[i]
        BY <2>4, <2>6, <3>2
      <4> QED BY <2>8, <4>1 DEF Kept
    <3> QED BY <3>1, <3>2
  <2> QED BY <1>0, <2>1, <2>2, <2>3, <2>8 DEF Kept
<1>2. CASE Write(w)
  <2>1. Range(file') = Range(file) \union Range(bag[w]) /\ UNCHANGED queue
    BY <1>2, RangeOfConcat DEF Write, Types, poolState
  <2>2. \A b \in Actors : b # w => bag'[b] = bag[b]
    BY <1>2 DEF Write, Types
  <2> QED BY <1>0, <2>1, <2>2 DEF Kept
<1>3. CASE Exit(w) \/ Backend(w) \/ Release(w)
  <2>1. UNCHANGED <<file, bag, queue>>
    BY <1>3 DEF Exit, Backend, Release, poolState, sinks
  <2> QED BY <1>0, <2>1 DEF Kept
<1> QED BY <1>1, <1>2, <1>3 DEF WorkerStep

(* Nor the end of the logger and of the pool.                                *)
LEMMA LostRest ==
  ASSUME Types, Types', LostInv,
         (\E a \in Actors : DestroyStep(a)) \/ DropAll \/ SetThreadPool \/ ReleasePool \/ StopPool
  PROVE  (\A e : Kept(e) => Kept(e)') /\ UNCHANGED pushed
<1>0. UNCHANGED pushed
  BY DEF DestroyStep, Join, Destroy, DestroySubmit, DestroyLeave, DropAll, SetThreadPool, ReleasePool, ResetPool,
     StopPool
<1>1. ASSUME NEW a \in Actors, Destroy(a) PROVE \A e : Kept(e) => Kept(e)'
  <2>1. at[a] = "dtor" /\ UNCHANGED queue
    BY <1>1 DEF Destroy, poolState
  <2>2. bag[a] = <<>>
    BY <2>1 DEF LostInv, BagsKnown, Carrying
  <2>3. \/ UNCHANGED <<bag, pending, file>>
        \/ WriteSync(pending) /\ UNCHANGED bag
        \/ bag' = [bag EXCEPT ![a] = pending] /\ UNCHANGED file
    BY <1>1 DEF Destroy, sinks
  <2>4. CASE UNCHANGED <<bag, pending, file>>
    BY <2>1, <2>4 DEF Kept
  <2> QED BY <2>1, <2>2, <2>3, <2>4, AloneKeeps, TakeKeeps
<1>2. ASSUME NEW a \in Actors, DestroySubmit(a) PROVE \A e : Kept(e) => Kept(e)'
  <2>1. bag[a] \in Seq(Event)
    BY DEF Types
  <2>2. PICK task \in Task : task = [kind |-> "rest", events |-> bag[a], covers |-> {}]
    BY <2>1 DEF Task
  <2>3. /\ \/ queue' = Append(queue, task) /\ UNCHANGED file
           \/ UNCHANGED queue /\ WriteSync(bag[a])
        /\ UNCHANGED pending
    BY <1>2, <2>2 DEF DestroySubmit, sinks
  <2>4. \A b \in Actors : b # a => bag'[b] = bag[b]
    BY <1>2 DEF DestroySubmit, Types
  <2> QED BY <2>2, <2>3, <2>4, SubmitKeeps
<1>3. CASE (\E a \in Actors : Join(a) \/ DestroyLeave(a)) \/ DropAll \/ SetThreadPool \/ ReleasePool \/ StopPool
  <2>1. UNCHANGED <<file, pending, bag, queue>>
    BY <1>3 DEF Join, DestroyLeave, DropAll, SetThreadPool, ReleasePool, ResetPool, StopPool, poolState, sinks
  <2> QED BY <1>0, <2>1 DEF Kept
<1>4. ASSUME NEW a \in Actors, DestroyStep(a) PROVE \A e : Kept(e) => Kept(e)'
  <2>1. Join(a) \/ Destroy(a) \/ DestroySubmit(a) \/ DestroyLeave(a)
    BY <1>4 DEF DestroyStep
  <2> QED BY <1>1, <1>2, <1>3, <2>1
<1>5. CASE DropAll \/ SetThreadPool \/ ReleasePool \/ StopPool
  BY <1>3, <1>5
<1> QED BY <1>0, <1>4, <1>5

(* Who passes his batch on has none left.                                    *)
LEMMA BagsStayKnown ==
  ASSUME Types, BagsKnown, Next
  PROVE  BagsKnown'
<1> USE ActorsAre DEF BagsKnown, Carrying
<1>1. ASSUME NEW a \in Actors, \A b \in Actors : b # a => at'[b] = at[b] /\ bag'[b] = bag[b],
             at'[a] \in Carrying \/ bag'[a] = <<>>
      PROVE  BagsKnown'
  BY <1>1
<1>2. ASSUME UNCHANGED bag, NEW a \in Actors, \A b \in Actors : b # a => at'[b] = at[b],
             at[a] \notin Carrying \/ at'[a] \in Carrying
      PROVE  BagsKnown'
  BY <1>2
<1>3. ASSUME NEW t \in Threads, ThreadStep(t) \/ \E b \in BOOLEAN : LogCall(t, b) \/ FlushCall(t, b)
      PROVE  BagsKnown'
  <2>0. t \in Actors
    OBVIOUS
  <2>1. CASE \E b \in BOOLEAN : LogCall(t, b)
    <3>1. (Goto(t, "alone") \/ Goto(t, "log")) /\ \A b \in Actors : b # t => bag'[b] = bag[b]
      BY <2>1 DEF LogCall, Types
    <3>2. at'[t] \in {"alone", "log"} /\ \A b \in Actors : b # t => at'[b] = at[b]
      BY <2>0, <3>1, Moved
    <3> QED BY <2>0, <3>1, <3>2, <1>1
  <2>2. CASE LogAlone(t) \/ Submit(t) \/ FlushSubmit(t)
    <3>1. /\ Goto(t, "leave") \/ Goto(t, "barrier")
          /\ bag'[t] = <<>> /\ \A b \in Actors : b # t => bag'[b] = bag[b]
      BY <2>2 DEF LogAlone, Submit, FlushSubmit, Types
    <3>2. \A b \in Actors : b # t => at'[b] = at[b]
      BY <2>0, <3>1, Moved
    <3> QED BY <2>0, <3>1, <3>2, <1>1
  <2>3. CASE Push(t) \/ FlushTake(t)
    <3>1. /\ \/ Goto(t, "submit") \/ Goto(t, "flushSubmit")
             \/ bag'[t] = <<>> /\ (Goto(t, "leave") \/ Goto(t, "barrier"))
          /\ \A b \in Actors : b # t => bag'[b] = bag[b]
      BY <2>3 DEF Push, FlushTake, Types
    <3>2. (bag'[t] = <<>> \/ at'[t] \in {"submit", "flushSubmit"}) /\ \A b \in Actors : b # t => at'[b] = at[b]
      BY <2>0, <3>1, Moved
    <3> QED BY <2>0, <3>1, <3>2, <1>1
  <2>4. CASE FlushAlone(t) \/ Barrier(t) \/ Leave(t) \/ Left(t) \/ \E b \in BOOLEAN : FlushCall(t, b)
    <3>1. at[t] \notin Carrying /\ UNCHANGED bag /\ \E s : Goto(t, s)
      BY <2>4 DEF FlushAlone, Barrier, Leave, Left, FlushCall, ReleasePoolOf, ReleaseLogger
    <3>2. \A b \in Actors : b # t => at'[b] = at[b]
      BY <2>0, <3>1, Moved
    <3> QED BY <2>0, <3>1, <3>2, <1>2
  <2> QED BY <1>3, <2>1, <2>2, <2>3, <2>4 DEF ThreadStep
<1>4. ASSUME NEW w \in Workers, WorkerStep(w) PROVE BagsKnown'
  <2>0. w \in Actors
    OBVIOUS
  <2>1. CASE Take(w) \/ Write(w)
    <3>1. (Goto(w, "write") \/ (at[w] = "write" /\ UNCHANGED at)) /\ \A b \in Actors : b # w => bag'[b] = bag[b]
      BY <2>1 DEF Take, Write, Types
    <3>2. at'[w] = "write" /\ \A b \in Actors : b # w => at'[b] = at[b]
      BY <2>0, <3>1, Moved
    <3> QED BY <2>0, <3>1, <3>2, <1>1
  <2>2. CASE Exit(w) \/ Backend(w) \/ Release(w)
    <3>1. bag[w] = <<>> /\ UNCHANGED bag /\ \E s : Goto(w, s)
      BY <2>0, <2>2 DEF Exit, Backend, Release, ReleaseLogger
    <3>2. \A b \in Actors : b # w => at'[b] = at[b]
      BY <2>0, <3>1, Moved
    <3> QED BY <2>0, <3>1, <3>2, <1>1
  <2> QED BY <1>4, <2>1, <2>2 DEF WorkerStep
<1>5. ASSUME NEW a \in Actors, DestroyStep(a) PROVE BagsKnown'
  <2>1. CASE Destroy(a)
    <3>1. /\ bag[a] = <<>> /\ \A b \in Actors : b # a => bag'[b] = bag[b]
          /\ (UNCHANGED bag /\ Goto(a, "idle")) \/ Goto(a, "dsubmit")
      BY <2>1 DEF Destroy, Types
    <3>2. (at'[a] = "dsubmit" \/ bag'[a] = <<>>) /\ \A b \in Actors : b # a => at'[b] = at[b]
      BY <3>1, Moved
    <3> QED BY <3>1, <3>2, <1>1
  <2>2. CASE DestroySubmit(a)
    <3>1. Goto(a, "dleave") /\ bag'[a] = <<>> /\ \A b \in Actors : b # a => bag'[b] = bag[b]
      BY <2>2 DEF DestroySubmit, Types
    <3>2. \A b \in Actors : b # a => at'[b] = at[b]
      BY <3>1, Moved
    <3> QED BY <3>1, <3>2, <1>1
  <2>3. CASE Join(a) \/ DestroyLeave(a)
    <3>1. at[a] \notin Carrying /\ UNCHANGED bag /\ \E s : Goto(a, s)
      BY <2>3 DEF Join, DestroyLeave, ReleasePoolOf
    <3>2. \A b \in Actors : b # a => at'[b] = at[b]
      BY <3>1, Moved
    <3> QED BY <3>1, <3>2, <1>2
  <2> QED BY <1>5, <2>1, <2>2, <2>3 DEF DestroyStep
<1>6. CASE DropAll \/ SetThreadPool \/ ReleasePool \/ StopPool
  <2>1. at[Manager] = "idle" /\ UNCHANGED bag /\ (UNCHANGED at \/ \E s : Goto(Manager, s))
    BY <1>6 DEF DropAll, SetThreadPool, ReleasePool, ResetPool, StopPool
  <2>2. \A b \in Actors : b # Manager => at'[b] = at[b]
    BY <2>1, Moved
  <2> QED BY <2>1, <2>2, <1>2
<1> QED BY <1>3, <1>4, <1>5, <1>6 DEF Next

(***************************************************************************)
(* Under Block no event that log has taken in is lost, for any number of   *)
(* threads and workers, in any order of logging, flushing, stopping,       *)
(* releasing and destroying: it is written or on its way                   *)
(* (AsyncLogger.cc:34-85, 118-231, 245-271).                               *)
(***************************************************************************)
THEOREM NoEventLost == Spec => []NothingLost
<1>1. NothingLost <=> (strategy = "Block" => \A e \in pushed : Kept(e))
  BY DEF NothingLost, Kept
<1>2. NothingLost' <=> (strategy' = "Block" => \A e \in pushed' : Kept(e)')
  BY DEF NothingLost, Kept
<1>3. Init => LostInv
  BY DEF Init, LostInv, BagsKnown, NothingLost
<1>4. Types /\ Types' /\ LostInv /\ [Next]_vars => LostInv'
  <2> SUFFICES ASSUME Types, Types', LostInv, [Next]_vars PROVE LostInv'
    OBVIOUS
  <2>1. CASE UNCHANGED vars
    <3>1. UNCHANGED <<strategy, at, bag, pending, queue, file, pushed>>
      BY <2>1 DEF vars, poolState, sinks
    <3> QED BY <3>1 DEF LostInv, BagsKnown, NothingLost
  <2>2. CASE Next
    <3>1. BagsKnown'
      BY <2>2, BagsStayKnown DEF LostInv
    <3>2. strategy' = strategy
      BY <2>2, StrategyStays
    <3>3. ASSUME strategy = "Block" PROVE \A e \in pushed' : Kept(e)'
      <4>1. \A e \in pushed : Kept(e)
        BY <1>1, <3>3 DEF LostInv
      <4>2. CASE \E t \in Threads : ThreadStep(t) \/ \E b \in BOOLEAN : LogCall(t, b) \/ FlushCall(t, b)
        BY <3>3, <4>1, <4>2, LostThread
      <4>3. CASE \E w \in Workers : WorkerStep(w)
        BY <4>1, <4>3, LostWorker
      <4>4. CASE (\E a \in Actors : DestroyStep(a)) \/ DropAll \/ SetThreadPool \/ ReleasePool \/ StopPool
        BY <4>1, <4>4, LostRest
      <4> QED BY <2>2, <4>2, <4>3, <4>4 DEF Next
    <3> QED BY <1>2, <3>1, <3>2, <3>3 DEF LostInv
  <2> QED BY <2>1, <2>2
<1>5. LostInv => NothingLost
  BY DEF LostInv
<1> QED BY <1>3, <1>4, <1>5, LoggerTypes, PTL DEF Spec
=============================================================================
