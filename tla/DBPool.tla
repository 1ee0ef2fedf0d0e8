------------------------------ MODULE DBPool ------------------------------
(***************************************************************************)
(* db::DBPool (src/src/db/DBPool.h, DBPool.cc): a pool of database         *)
(* connections whose idle connections sit in a lock-free queue.  The       *)
(* actors are the borrowing threads, the workers of createPool_, the       *)
(* maintenance thread and the thread that destroys the pool.  One step is  *)
(* one access to shared state: an operation on the lock-free queue, on an  *)
(* atomic counter, or a critical section.                                  *)
(*                                                                         *)
(* idleQueue_ is a utils::mpmc_bounded_queue: an enqueue first claims a    *)
(* position, then publishes it, and a dequeue fails as long as the oldest  *)
(* claimed position is unpublished, even if a later one is ready.          *)
(* A connection is its address: delete frees it, new may reuse it.         *)
(***************************************************************************)
EXTENDS Integers, Sequences, FiniteSets

CONSTANTS Conn,        \* addresses a DBConnection can have
          NoConn,      \* nullptr
          Borrowers,   \* business threads
          Creators,    \* worker threads of createPool_
          Maintainer,  \* maintenanceThread_
          MaxSize,     \* maxSize_
          MinIdle      \* minIdle_

ASSUME SizesAssumption == MaxSize \in Nat \ {0} /\ MinIdle \in 0..MaxSize
ASSUME ConnAssumption == IsFiniteSet(Conn) /\ NoConn \notin Conn
ASSUME ActorsAssumption ==
  /\ IsFiniteSet(Borrowers) /\ IsFiniteSet(Creators)
  /\ Borrowers \intersect Creators = {}
  /\ Maintainer \notin Borrowers \union Creators

VARIABLES total,          \* totalConnCount_
          idle,           \* idleCount_
          needReplenish,  \* needReplenish_
          stopped,        \* stopped_
          queue,          \* idleQueue_: claimed positions, oldest first
          unpublished,    \* connections claimed in idleQueue_, not yet published
          waiterCount,    \* waiterCount_
          allConns,       \* allConns_
          alive,          \* connections allocated and not deleted
          state,          \* each connection's state_
          stamped,        \* connections whose borrowedAt_ is that of the current borrowing
          pc,             \* where each thread is
          conn,           \* the connection each thread holds
          m,              \* locals of the maintenance thread
          tasks,          \* createOne tasks queued in createPool_
          opc             \* where the destroying thread is in shutdown

counts == <<total, idle, needReplenish, waiterCount>>
idleQueue == <<queue, unpublished>>
conns == <<allConns, alive, state, stamped>>
locals == <<conn, m>>
control == <<stopped, tasks, opc>>
vars == <<counts, idleQueue, conns, locals, control, pc>>

Threads == Borrowers \union Creators \union {Maintainer}

BorrowerLabels == {"out", "arrive", "locked", "asleep", "woken", "took", "tookLocked", "stamp",
                   "stampLocked", "leave", "got", "using", "given"}
EnqueueLabels == {"enqueue", "publish", "count", "check", "notify"}
DiscardLabels == {"discard", "erase", "delete"}
CreatorLabels == {"idle", "connect", "register"}
MaintainerLabels == {"wait", "clear", "drain", "drained", "ping", "evict", "flag", "snapshot", "leaks",
                     "replenish", "reserve", "submit", "exited"}
Labels == BorrowerLabels \union EnqueueLabels \union DiscardLabels \union CreatorLabels
            \union MaintainerLabels

(* Locals of scanConnections, scanBorrowedLeaks and replenishToMinIdle. *)
MaintainerLocals ==
  [round : {"ping", "evict"}, drained : Seq(Conn), healthy : Seq(Conn), surplus : Nat,
   reenqueued : BOOLEAN, snapshot : SUBSET Conn, need : Int]

TypeOK ==
  /\ total \in Int
  /\ idle \in Int
  /\ needReplenish \in BOOLEAN
  /\ stopped \in BOOLEAN
  /\ queue \in Seq(Conn)
  /\ unpublished \subseteq Conn
  /\ waiterCount \in Int
  /\ allConns \subseteq Conn
  /\ alive \subseteq Conn
  /\ state \in [Conn -> {"Creating", "Idle", "InUse", "Keepalive", "Broken"}]
  /\ stamped \subseteq Conn
  /\ pc \in [Threads -> Labels]
  /\ conn \in [Threads -> Conn \union {NoConn}]
  /\ m \in MaintainerLocals
  /\ tasks \in Int
  /\ opc \in {"open", "wake", "join", "createPool", "drain", "delete", "closed"}

(* init() has created MinIdle connections and started the maintenance thread. *)
Init ==
  /\ queue \in {s \in [1..MinIdle -> Conn] : \A i, j \in 1..MinIdle : s[i] = s[j] => i = j}
  /\ total = MinIdle
  /\ idle = MinIdle
  /\ needReplenish = FALSE
  /\ stopped = FALSE
  /\ unpublished = {}
  /\ waiterCount = 0
  /\ alive = {queue[i] : i \in 1..MinIdle}
  /\ allConns = alive
  /\ state = [c \in Conn |-> IF c \in alive THEN "Idle" ELSE "Creating"]
  /\ stamped = {}
  /\ pc = [t \in Threads |-> IF t \in Borrowers THEN "out" ELSE IF t \in Creators THEN "idle" ELSE "wait"]
  /\ conn = [t \in Threads |-> NoConn]
  /\ m = [round |-> "ping", drained |-> <<>>, healthy |-> <<>>, surplus |-> 0,
          reenqueued |-> FALSE, snapshot |-> {}, need |-> 0]
  /\ tasks = 0
  /\ opc = "open"

At(t, label) == pc' = [pc EXCEPT ![t] = label]

(* What a dequeue sees: it fails on an empty queue and on an unpublished head. *)
Ready == queue # <<>> /\ Head(queue) \notin unpublished

(* waitMutex_ is held over more than one step only while a waiter takes a connection. *)
WaitMutexFree == \A b \in Borrowers : pc[b] \notin {"tookLocked", "stampLocked"}

-----------------------------------------------------------------------------
(* getConnection: takeIdle's dequeue on the fast path. *)
GetConnection(b) ==
  /\ pc[b] = "out"
  /\ opc = "open"
  /\ IF Ready
       THEN /\ queue' = Tail(queue)
            /\ conn' = [conn EXCEPT ![b] = Head(queue)]
            /\ At(b, "took")
       ELSE /\ At(b, "arrive")
            /\ UNCHANGED <<queue, conn>>
  /\ UNCHANGED <<counts, conns, control, unpublished, m>>

(* takeIdle after the dequeue: idleCount_ and state_, then borrowedAt_. *)
TakeIdleCount(b) ==
  /\ pc[b] \in {"took", "tookLocked"}
  /\ idle' = idle - 1
  /\ state' = [state EXCEPT ![conn[b]] = "InUse"]
  /\ At(b, IF pc[b] = "took" THEN "stamp" ELSE "stampLocked")
  /\ UNCHANGED <<idleQueue, locals, control, total, needReplenish, waiterCount, allConns, alive, stamped>>

TakeIdleStamp(b) ==
  /\ pc[b] \in {"stamp", "stampLocked"}
  /\ stamped' = stamped \union {conn[b]}
  /\ At(b, IF pc[b] = "stamp" THEN "got" ELSE "leave")
  /\ UNCHANGED <<counts, idleQueue, locals, control, allConns, alive, state>>

(* waitForIdle announces the waiter before it takes waitMutex_. *)
WaitArrive(b) ==
  /\ pc[b] = "arrive"
  /\ waiterCount' = waiterCount + 1
  /\ At(b, "locked")
  /\ UNCHANGED <<idleQueue, conns, locals, control, total, idle, needReplenish>>

(* One turn of waitForIdle's loop under waitMutex_: take, give up, or sleep. *)
WaitTurn(b) ==
  /\ pc[b] \in {"locked", "woken"}
  /\ WaitMutexFree
  /\ \/ /\ Ready
        /\ queue' = Tail(queue)
        /\ conn' = [conn EXCEPT ![b] = Head(queue)]
        /\ At(b, "tookLocked")
     \/ /\ ~Ready
        /\ At(b, IF stopped THEN "leave" ELSE "asleep")
        /\ UNCHANGED <<queue, conn>>
  /\ UNCHANGED <<counts, conns, control, unpublished, m>>

(* Mutant: a timed-out wait goes round the loop again. *)
WaitTimeoutIgnored(b) ==
  /\ pc[b] \in {"asleep", "woken"}
  /\ WaitMutexFree
  /\ At(b, "woken")
  /\ UNCHANGED <<counts, idleQueue, conns, locals, control>>

(* wait_until reports timeout once the deadline has passed, notified or not. *)
WaitTimeout(b) ==
  /\ pc[b] \in {"asleep", "woken"}
  /\ WaitMutexFree
  /\ At(b, "leave")
  /\ UNCHANGED <<counts, idleQueue, conns, locals, control>>

SpuriousWakeup(b) ==
  /\ pc[b] = "asleep"
  /\ At(b, "woken")
  /\ UNCHANGED <<counts, idleQueue, conns, locals, control>>

(* The end of waitForIdle; with no connection getConnection returns nullptr. *)
WaitLeave(b) ==
  /\ pc[b] = "leave"
  /\ waiterCount' = waiterCount - 1
  /\ At(b, IF conn[b] = NoConn THEN "out" ELSE "got")
  /\ UNCHANGED <<idleQueue, conns, locals, control, total, idle, needReplenish>>

(* The low-water test that ends getConnection and releaseConnection.  The *)
(* maintenance thread it notifies may wake at any time anyway.             *)
LowWater(b) ==
  /\ pc[b] \in {"got", "given"}
  /\ needReplenish' = (needReplenish \/ idle < MinIdle)
  /\ At(b, IF pc[b] = "got" THEN "using" ELSE "out")
  /\ UNCHANGED <<idleQueue, conns, locals, control, total, idle, waiterCount>>

(* releaseConnection: an invalid or expired connection is discarded. *)
ReleaseConnection(b) ==
  /\ pc[b] = "using"
  /\ At(b, "discard") \/ At(b, "enqueue")
  /\ UNCHANGED <<counts, idleQueue, conns, locals, control>>

-----------------------------------------------------------------------------
(* setState(Idle) and enqueueIdle, by a borrower, a creator or the           *)
(* maintenance thread.  A position is always free: QueueNeverOverflows.      *)
EnqueueClaim(t) ==
  /\ pc[t] = "enqueue"
  /\ state' = [state EXCEPT ![conn[t]] = "Idle"]
  /\ stamped' = stamped \ {conn[t]}
  /\ queue' = Append(queue, conn[t])
  /\ unpublished' = unpublished \union {conn[t]}
  /\ At(t, "publish")
  /\ UNCHANGED <<counts, locals, control, allConns, alive>>

EnqueuePublish(t) ==
  /\ pc[t] = "publish"
  /\ unpublished' = unpublished \ {conn[t]}
  /\ conn' = [conn EXCEPT ![t] = NoConn]
  /\ At(t, "count")
  /\ UNCHANGED <<counts, conns, control, queue, m>>

(* Mutant: the maintenance thread does not note that it put a connection back. *)
EnqueueCountUnnoted(t) ==
  /\ pc[t] = "count"
  /\ idle' = idle + 1
  /\ At(t, IF t = Maintainer THEN "evict" ELSE "check")
  /\ UNCHANGED <<idleQueue, conns, locals, control, total, needReplenish, waiterCount>>

(* Then idleCount_; the maintenance thread goes on with its second round. *)
EnqueueCount(t) ==
  /\ pc[t] = "count"
  /\ idle' = idle + 1
  /\ At(t, IF t = Maintainer THEN "evict" ELSE "check")
  /\ m' = (IF t = Maintainer THEN [m EXCEPT !.reenqueued = TRUE] ELSE m)
  /\ UNCHANGED <<idleQueue, conns, control, total, needReplenish, waiterCount, conn>>

AfterEnqueue(t) == IF t \in Borrowers THEN "given" ELSE IF t \in Creators THEN "idle" ELSE "flag"

(* waiterCount_ decides whether waitMutex_ is taken to notify. *)
CheckWaiters(t) ==
  /\ pc[t] = "check"
  /\ At(t, IF waiterCount > 0 THEN "notify" ELSE AfterEnqueue(t))
  /\ UNCHANGED <<counts, idleQueue, conns, locals, control>>

(* cvIdleAvailable_.notify_all() *)
NotifyWaiters(t) ==
  /\ pc[t] = "notify"
  /\ WaitMutexFree
  /\ pc' = [u \in Threads |-> IF pc[u] = "asleep" THEN "woken" ELSE IF u = t THEN AfterEnqueue(t) ELSE pc[u]]
  /\ UNCHANGED <<counts, idleQueue, conns, locals, control>>

(* discard: the count first, then the registry, then the object. *)
DiscardCount(t) ==
  /\ pc[t] = "discard"
  /\ total' = total - 1
  /\ At(t, "erase")
  /\ UNCHANGED <<idleQueue, conns, locals, control, idle, needReplenish, waiterCount>>

DiscardErase(t) ==
  /\ pc[t] = "erase"
  /\ state' = [state EXCEPT ![conn[t]] = "Broken"]
  /\ allConns' = allConns \ {conn[t]}
  /\ At(t, "delete")
  /\ UNCHANGED <<counts, idleQueue, locals, control, alive, stamped>>

DiscardDelete(t) ==
  /\ pc[t] = "delete"
  /\ alive' = alive \ {conn[t]}
  /\ state' = [state EXCEPT ![conn[t]] = "Creating"]
  /\ stamped' = stamped \ {conn[t]}
  /\ conn' = [conn EXCEPT ![t] = NoConn]
  /\ At(t, IF t \in Borrowers THEN "given" ELSE m.round)
  /\ UNCHANGED <<counts, idleQueue, control, allConns, m>>

-----------------------------------------------------------------------------
(* createOne on a worker of createPool_: connect, then allocate, register, enqueue. *)
CreateOne(k) ==
  /\ pc[k] = "idle"
  /\ tasks > 0
  /\ tasks' = tasks - 1
  /\ At(k, "connect")
  /\ UNCHANGED <<counts, idleQueue, conns, locals, stopped, opc>>

CreateFailed(k) ==
  /\ pc[k] = "connect"
  /\ total' = total - 1
  /\ At(k, "idle")
  /\ UNCHANGED <<idleQueue, conns, locals, control, idle, needReplenish, waiterCount>>

CreateConnected(k) ==
  /\ pc[k] = "connect"
  /\ \E c \in Conn \ alive :
       /\ alive' = alive \union {c}
       /\ conn' = [conn EXCEPT ![k] = c]
  /\ At(k, "register")
  /\ UNCHANGED <<counts, idleQueue, control, allConns, state, stamped, m>>

CreateRegister(k) ==
  /\ pc[k] = "register"
  /\ allConns' = allConns \union {conn[k]}
  /\ At(k, "enqueue")
  /\ UNCHANGED <<counts, idleQueue, locals, control, alive, state, stamped>>

-----------------------------------------------------------------------------

(* maintenanceLoop: the wait ends by notification, timeout or stop. *)
MaintenanceWake ==
  /\ pc[Maintainer] = "wait"
  /\ At(Maintainer, IF stopped THEN "exited" ELSE "clear")
  /\ UNCHANGED <<counts, idleQueue, conns, locals, control>>

MaintenanceClear ==
  /\ pc[Maintainer] = "clear"
  /\ needReplenish' = FALSE
  /\ At(Maintainer, "drain")
  /\ UNCHANGED <<idleQueue, conns, locals, control, total, idle, waiterCount>>

(* scanConnections empties the idle queue, one dequeue after the other. *)
ScanDrain ==
  /\ pc[Maintainer] = "drain"
  /\ IF Ready
       THEN /\ queue' = Tail(queue)
            /\ m' = [m EXCEPT !.drained = Append(@, Head(queue))]
            /\ At(Maintainer, "drained")
       ELSE /\ m' = [m EXCEPT !.round = "ping"]
            /\ At(Maintainer, "ping")
            /\ UNCHANGED queue
  /\ UNCHANGED <<counts, conns, control, unpublished, conn>>

(* Mutant: a drained connection is still counted as idle. *)
ScanDrainedUncounted ==
  /\ pc[Maintainer] = "drained"
  /\ At(Maintainer, "drain")
  /\ UNCHANGED <<counts, idleQueue, conns, locals, control>>

ScanDrained ==
  /\ pc[Maintainer] = "drained"
  /\ idle' = idle - 1
  /\ At(Maintainer, "drain")
  /\ UNCHANGED <<idleQueue, conns, locals, control, total, needReplenish, waiterCount>>

(* First round: a connection due for keepalive is pinged, and discarded if *)
(* the ping fails.  At the end the surplus over minIdle_ is computed.      *)
ScanPing ==
  /\ pc[Maintainer] = "ping"
  /\ \/ /\ m.drained # <<>>
        /\ \/ /\ m' = [m EXCEPT !.drained = Tail(@), !.healthy = Append(@, Head(m.drained))]
              /\ state' = state \/ state' = [state EXCEPT ![Head(m.drained)] = "Keepalive"]
              /\ UNCHANGED <<pc, conn>>
           \/ /\ m' = [m EXCEPT !.drained = Tail(@)]
              /\ state' = [state EXCEPT ![Head(m.drained)] = "Keepalive"]
              /\ conn' = [conn EXCEPT ![Maintainer] = Head(m.drained)]
              /\ At(Maintainer, "discard")
     \/ /\ m.drained = <<>>
        /\ m' = [m EXCEPT !.round = "evict",
                          !.surplus = IF Len(m.healthy) > MinIdle THEN Len(m.healthy) - MinIdle ELSE 0,
                          !.reenqueued = FALSE]
        /\ At(Maintainer, "evict")
        /\ UNCHANGED <<state, conn>>
  /\ UNCHANGED <<counts, idleQueue, control, allConns, alive, stamped>>

(* Mutant: a discarded connection goes back to the queue as well (a missing continue). *)
ScanEvictTwice ==
  /\ pc[Maintainer] = "evict"
  /\ \/ /\ m.healthy # <<>>
        /\ conn' = [conn EXCEPT ![Maintainer] = Head(m.healthy)]
        /\ \/ At(Maintainer, "discard") /\ UNCHANGED m
           \/ At(Maintainer, "enqueue") /\ m' = [m EXCEPT !.healthy = Tail(@)]
     \/ /\ m.healthy = <<>>
        /\ At(Maintainer, IF m.reenqueued THEN "check" ELSE "flag")
        /\ UNCHANGED <<conn, m>>
  /\ UNCHANGED <<counts, idleQueue, conns, control>>

(* Second round: an expired connection is discarded, an idle one too while  *)
(* there is a surplus; the others go back.                                  *)
ScanEvict ==
  /\ pc[Maintainer] = "evict"
  /\ \/ /\ m.healthy # <<>>
        /\ conn' = [conn EXCEPT ![Maintainer] = Head(m.healthy)]
        /\ \/ /\ m' = [m EXCEPT !.healthy = Tail(@)]
              /\ At(Maintainer, "discard") \/ At(Maintainer, "enqueue")
           \/ /\ m.surplus > 0
              /\ m' = [m EXCEPT !.healthy = Tail(@), !.surplus = @ - 1]
              /\ At(Maintainer, "discard")
     \/ /\ m.healthy = <<>>
        /\ At(Maintainer, IF m.reenqueued THEN "check" ELSE "flag")
        /\ UNCHANGED <<conn, m>>
  /\ UNCHANGED <<counts, idleQueue, conns, control>>

ScanFlag ==
  /\ pc[Maintainer] = "flag"
  /\ needReplenish' = (needReplenish \/ idle < MinIdle)
  /\ At(Maintainer, "snapshot")
  /\ UNCHANGED <<idleQueue, conns, locals, control, total, idle, waiterCount>>

(* scanBorrowedLeaks copies the registry under its mutex and reads the      *)
(* connections of the copy without it; then maintenanceLoop tests whether   *)
(* the pool needs replenishing.                                             *)
LeakSnapshot ==
  /\ pc[Maintainer] = "snapshot"
  /\ m' = [m EXCEPT !.snapshot = allConns]
  /\ At(Maintainer, "leaks")
  /\ UNCHANGED <<counts, idleQueue, conns, control, conn>>

LeakRead ==
  /\ pc[Maintainer] = "leaks"
  /\ \/ /\ \E c \in m.snapshot : m' = [m EXCEPT !.snapshot = @ \ {c}]
        /\ UNCHANGED pc
     \/ /\ m.snapshot = {}
        /\ At(Maintainer, IF needReplenish \/ idle < MinIdle THEN "replenish" ELSE "wait")
        /\ UNCHANGED m
  /\ UNCHANGED <<counts, idleQueue, conns, control, conn>>

(* replenishToMinIdle: read both counters, reserve the places, submit the tasks. *)
ReplenishNeed == IF MinIdle - idle > MaxSize - total THEN MaxSize - total ELSE MinIdle - idle

ReplenishRead ==
  /\ pc[Maintainer] = "replenish"
  /\ IF idle < MinIdle /\ ReplenishNeed > 0
       THEN /\ m' = [m EXCEPT !.need = ReplenishNeed]
            /\ At(Maintainer, "reserve")
       ELSE /\ At(Maintainer, "wait")
            /\ UNCHANGED m
  /\ UNCHANGED <<counts, idleQueue, conns, control, conn>>

ReplenishReserve ==
  /\ pc[Maintainer] = "reserve"
  /\ total' = total + m.need
  /\ At(Maintainer, "submit")
  /\ UNCHANGED <<idleQueue, conns, locals, control, idle, needReplenish, waiterCount>>

ReplenishSubmit ==
  /\ pc[Maintainer] = "submit"
  /\ tasks' = tasks + 1
  /\ m' = [m EXCEPT !.need = @ - 1]
  /\ At(Maintainer, IF m.need = 1 THEN "wait" ELSE "submit")
  /\ UNCHANGED <<counts, idleQueue, conns, conn, stopped, opc>>

-----------------------------------------------------------------------------
(* shutdown.  Every borrowed connection must be back; a thread may still be *)
(* waiting for one.                                                         *)
ShutdownStop ==
  /\ opc = "open"
  /\ \A b \in Borrowers : pc[b] \in {"out", "arrive", "locked", "asleep", "woken"}
  /\ stopped' = TRUE
  /\ opc' = "wake"
  /\ UNCHANGED <<counts, idleQueue, conns, locals, pc, tasks>>

ShutdownWake ==
  /\ opc = "wake"
  /\ WaitMutexFree
  /\ pc' = [t \in Threads |-> IF pc[t] = "asleep" THEN "woken" ELSE pc[t]]
  /\ opc' = "join"
  /\ UNCHANGED <<counts, idleQueue, conns, locals, stopped, tasks>>

ShutdownJoin ==
  /\ opc = "join"
  /\ pc[Maintainer] = "exited"
  /\ opc' = "createPool"
  /\ UNCHANGED <<counts, idleQueue, conns, locals, pc, stopped, tasks>>

(* createPool_->stop_gracefully() returns when every task has run. *)
ShutdownCreatePool ==
  /\ opc = "createPool"
  /\ tasks = 0
  /\ \A k \in Creators : pc[k] = "idle"
  /\ opc' = "drain"
  /\ UNCHANGED <<counts, idleQueue, conns, locals, pc, stopped, tasks>>

ShutdownDrain ==
  /\ opc = "drain"
  /\ IF Ready THEN queue' = Tail(queue) /\ UNCHANGED opc ELSE opc' = "delete" /\ UNCHANGED queue
  /\ UNCHANGED <<counts, conns, locals, unpublished, pc, stopped, tasks>>

ShutdownDelete ==
  /\ opc = "delete"
  /\ alive' = alive \ allConns
  /\ allConns' = {}
  /\ opc' = "closed"
  /\ UNCHANGED <<counts, idleQueue, locals, state, stamped, pc, stopped, tasks>>

-----------------------------------------------------------------------------
EnqueueStep(t) ==
  EnqueueClaim(t) \/ EnqueuePublish(t) \/ EnqueueCount(t) \/ CheckWaiters(t) \/ NotifyWaiters(t)

DiscardStep(t) == DiscardCount(t) \/ DiscardErase(t) \/ DiscardDelete(t)

WaitStep(b) == WaitArrive(b) \/ WaitTurn(b) \/ WaitLeave(b)

BorrowerStep(b) ==
  \/ WaitStep(b) \/ TakeIdleCount(b) \/ TakeIdleStamp(b) \/ LowWater(b)
  \/ EnqueueStep(b) \/ DiscardStep(b)

CreatorStep(k) ==
  \/ CreateOne(k) \/ CreateFailed(k) \/ CreateConnected(k) \/ CreateRegister(k) \/ EnqueueStep(k)

MaintainerStep ==
  \/ MaintenanceWake \/ MaintenanceClear \/ ScanDrain \/ ScanDrained \/ ScanPing \/ ScanEvict
  \/ ScanFlag \/ LeakSnapshot \/ LeakRead \/ ReplenishRead \/ ReplenishReserve \/ ReplenishSubmit
  \/ EnqueueStep(Maintainer) \/ DiscardStep(Maintainer)

ShutdownStep ==
  ShutdownWake \/ ShutdownJoin \/ ShutdownCreatePool \/ ShutdownDrain \/ ShutdownDelete

(* A closed pool is gone: no step of the model touches it any more. *)
Next ==
  \/ /\ opc # "closed"
     /\ \/ \E b \in Borrowers : \/ GetConnection(b) \/ ReleaseConnection(b) \/ BorrowerStep(b)
                                \/ WaitTimeout(b) \/ SpuriousWakeup(b)
        \/ \E k \in Creators : CreatorStep(k)
        \/ MaintainerStep
  \/ ShutdownStop
  \/ ShutdownStep

Spec == Init /\ [][Next]_vars

(***************************************************************************)
(* Fairness: every thread that can run is run; a thread that waits for     *)
(* waitMutex_ gets it if it is released again and again; a wait's deadline *)
(* passes in the end even if it is woken again and again; a borrower       *)
(* brings its connection back.  Nobody has to borrow or to destroy the     *)
(* pool.                                                                   *)
(***************************************************************************)
Fairness ==
  /\ \A b \in Borrowers : /\ WF_vars(BorrowerStep(b)) /\ WF_vars(ReleaseConnection(b))
                          /\ SF_vars(WaitTurn(b)) /\ SF_vars(WaitTimeout(b))
  /\ \A k \in Creators : WF_vars(CreatorStep(k))
  /\ WF_vars(MaintainerStep)
  /\ \A t \in Threads : SF_vars(NotifyWaiters(t))
  /\ WF_vars(ShutdownStep) /\ SF_vars(ShutdownWake)

FairSpec == Spec /\ Fairness
-----------------------------------------------------------------------------
Holding(c) == {t \in Threads : conn[t] = c /\ pc[t] # "publish"}
Occurrences(s, c) == Cardinality({i \in DOMAIN s : s[i] = c})

(***************************************************************************)
(* Until the pool shuts its queue down, a connection that exists is in     *)
(* exactly one place: in the idle queue, with one thread, or on one of the *)
(* maintenance thread's lists; and nothing holds one that does not exist   *)
(* (DBPool.cc:208-309, 339-403, 442-479).                                  *)
(***************************************************************************)
OneOwner ==
  opc \in {"open", "wake", "join", "createPool"} =>
    \A c \in Conn :
      Cardinality(Holding(c)) + Occurrences(queue, c) + Occurrences(m.drained, c)
        + Occurrences(m.healthy, c) = (IF c \in alive THEN 1 ELSE 0)

(***************************************************************************)
(* The queue that enqueueIdle spins on always has room: it never holds     *)
(* more than maxSize_ claims (DBPool.cc:267-281).                          *)
(***************************************************************************)
QueueNeverOverflows == Len(queue) <= MaxSize

(* Connections a discard has taken off the count and not yet deleted. *)
Uncounted == {c \in alive : \E t \in Threads : conn[t] = c /\ pc[t] \in {"erase", "delete"}}

(***************************************************************************)
(* totalConnCount_ is the number of connections that exist or have been    *)
(* reserved, and it never passes maxSize_ (DBPool.cc:425-479): failed      *)
(* creations give their place back, and none is given back twice.          *)
(***************************************************************************)
TotalIsExact ==
  opc # "closed" =>
    total = Cardinality(alive \ Uncounted) + tasks + Cardinality({k \in Creators : pc[k] = "connect"})
              + (IF pc[Maintainer] = "submit" THEN m.need ELSE 0)

TotalWithinMax == total <= MaxSize

(***************************************************************************)
(* idleCount_ differs from the length of the queue only by the threads     *)
(* between their queue operation and their count (DBPool.cc:228-309).      *)
(***************************************************************************)
IdleCountIsExact ==
  opc \in {"open", "wake", "join", "createPool"} =>
    idle = Len(queue) - Cardinality({t \in Threads : pc[t] \in {"publish", "count"}})
             + Cardinality({t \in Threads : pc[t] \in {"took", "tookLocked", "drained"}})

(***************************************************************************)
(* The two counters of the pool, together (DBPool.h: totalConnCount_,      *)
(* idleCount_): exact up to the threads between two of their steps, and    *)
(* within the limit.                                                       *)
(***************************************************************************)
CountsAreExact == TotalIsExact /\ TotalWithinMax /\ IdleCountIsExact

(* Threads that have put a connection back and have not yet looked for waiters. *)
WillNotify(t) ==
  \/ pc[t] \in {"count", "check", "notify"}
  \/ t = Maintainer /\ m.round = "evict" /\ m.reenqueued
       /\ pc[t] \in {"evict", "enqueue", "publish"} \union DiscardLabels

(***************************************************************************)
(* No lost notification (DBPool.cc:240-265, 294-301, 393-398, 457-463):    *)
(* while a borrower sleeps and a dequeue would succeed, some thread still  *)
(* has to look at waiterCount_ and will find it positive.  A borrower does *)
(* not sleep through a shutdown either.                                    *)
(***************************************************************************)
SleepersAreNotified ==
  (\E b \in Borrowers : pc[b] = "asleep") =>
    /\ Ready => (\E t \in Threads : WillNotify(t)) \/ opc = "wake"
    /\ waiterCount > 0
    /\ stopped => opc = "wake"

(***************************************************************************)
(* Liveness (DBPool.cc:177-265, 425-465): getConnection returns; shutdown  *)
(* returns; a pool that has lost all its connections, say because the      *)
(* database went away, tries to create new ones.                           *)
(***************************************************************************)
GetConnectionReturns ==
  \A b \in Borrowers :
    pc[b] \notin {"out", "using"} ~> pc[b] \in {"out", "using"} \/ opc = "closed"

ShutdownReturns == stopped ~> opc = "closed" \/ \E b \in Borrowers : pc[b] = "using"

PoolHeals == total = 0 ~> total > 0 \/ stopped

(* The three together: nobody waits for the pool for ever.                 *)
PoolResponds == GetConnectionReturns /\ ShutdownReturns /\ PoolHeals

-----------------------------------------------------------------------------
(***************************************************************************)
(* What the repository says of the pool and the code does not keep.        *)
(***************************************************************************)

(* The leak scan judges connections that exist, by the time of their current  *)
(* borrowing ("borrowed for too long", DBPool.cc:405; the checks of DBPool.h:61 *)
(* are for exclusively owned connections).                                    *)
LeakScanIsCurrent ==
  pc[Maintainer] = "leaks" =>
    \A c \in m.snapshot : c \in alive /\ (state[c] = "InUse" => c \in stamped)

(* Borrowers are not affected by the scan (DBPool.cc:335, README.md:107): none *)
(* sleeps while the maintenance thread has a healthy idle connection in hand.  *)
ScanHidesNoConnection ==
  (\E b \in Borrowers : pc[b] = "asleep") => m.healthy = <<>>

(* A waiter woken by shutdown returns empty-handed (DBPool.cc:183), so nobody *)
(* uses a connection shutdown has deleted.                                    *)
BorrowedIsLive == \A b \in Borrowers : pc[b] = "using" => conn[b] \in alive
=============================================================================
