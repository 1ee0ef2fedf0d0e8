------------------------- MODULE MpmcBlockingQueue -------------------------
(***************************************************************************)
(* utils::mpmc_blocking_queue<T> (src/src/utils/mpmc_blocking_queue.h).    *)
(* A critical section under mutex_ is one step; the unlocked stop test     *)
(* before it and the notify after it are steps of their own, as in the     *)
(* code.  A thread blocked on a condition variable is in its wait set; a   *)
(* notified, timed-out or spuriously woken thread leaves the set and takes *)
(* mutex_ again to test its predicate.                                     *)
(***************************************************************************)
EXTENDS CircularQ, FiniteSets

CONSTANTS Producers, Consumers, Stoppers

ASSUME ThreadsAssumption ==
  /\ IsFiniteSet(Producers) /\ IsFiniteSet(Consumers)
  /\ Producers \intersect Consumers = {}
  /\ Stoppers \intersect (Producers \union Consumers) = {}

VARIABLES q,                \* queue_
          state,            \* state_
          discard_counter,  \* discard_counter_
          not_full_cv,      \* producers waiting on not_full_cv_
          not_empty_cv,     \* consumers waiting on not_empty_cv_
          pc,               \* where each thread is inside its call
          op,               \* the member function each thread is calling
          arg,              \* the item each producer brought
          result,           \* what each consumer's last call returned
          offered           \* history: items a producer has already brought

queueVars == <<q, state, discard_counter, not_full_cv, not_empty_cv, pc, op, arg, result, offered>>

Threads == Producers \union Consumers \union Stoppers
PutOps == {"enqueue", "enqueue_for", "enqueue_overwrite", "try_enqueue"}
GetOps == {"dequeue", "dequeue_for", "try_dequeue"}
StopOps == {"stop_gracefully", "stop_immediately"}
Labels == {"out", "lock", "timedout", "wait", "notify", "notify2"}

TypeOK ==
  /\ q \in Ring
  /\ state \in {"None", "Drain", "Immediate"}
  /\ discard_counter \in Nat
  /\ not_full_cv \subseteq Producers
  /\ not_empty_cv \subseteq Consumers
  /\ pc \in [Threads -> Labels]
  /\ op \in [Threads -> PutOps \union GetOps \union StopOps \union {"none"}]
  /\ arg \in [Producers -> Item \union {NoItem}]
  /\ result \in [Consumers -> Item \union {NoItem}]
  /\ offered \subseteq Item

QueueInit ==
  /\ q = NewRing
  /\ state = "None"
  /\ discard_counter = 0
  /\ not_full_cv = {}
  /\ not_empty_cv = {}
  /\ pc = [t \in Threads |-> "out"]
  /\ op = [t \in Threads |-> "none"]
  /\ arg = [p \in Producers |-> NoItem]
  /\ result = [c \in Consumers |-> NoItem]
  /\ offered = {}

is_stopped == state # "None"

At(t, label) == pc' = [pc EXCEPT ![t] = label]

Return(t) ==
  /\ At(t, "out")
  /\ op' = [op EXCEPT ![t] = "none"]

-----------------------------------------------------------------------------
(* The enqueue functions up to the lock: an unlocked test of state_. *)
EnqueueCall(p, f, x) ==
  /\ pc[p] = "out"
  /\ x \notin offered
  /\ offered' = offered \union {x}
  /\ IF is_stopped
       THEN UNCHANGED <<pc, op, arg>>
       ELSE /\ At(p, "lock")
            /\ op' = [op EXCEPT ![p] = f]
            /\ arg' = [arg EXCEPT ![p] = x]
  /\ UNCHANGED <<q, state, discard_counter, not_full_cv, not_empty_cv, result>>

PushAndUnlock(p) ==
  /\ q' = push_back(q, arg[p])
  /\ arg' = [arg EXCEPT ![p] = NoItem]
  /\ At(p, "notify")
  /\ UNCHANGED op

ReturnFalse(p) ==
  /\ Return(p)
  /\ arg' = [arg EXCEPT ![p] = NoItem]
  /\ UNCHANGED q

(* Mutant: state_ is not tested again under mutex_. *)
EnqueueLockedStopUntested(p) ==
  /\ op[p] \in {"enqueue", "enqueue_for"}
  /\ \/ ~full(q) /\ pc[p] \in {"lock", "timedout"} /\ PushAndUnlock(p) /\ UNCHANGED not_full_cv
     \/ /\ full(q) /\ pc[p] = "lock"
        /\ not_full_cv' = not_full_cv \union {p}
        /\ At(p, "wait")
        /\ UNCHANGED <<q, op, arg>>
     \/ full(q) /\ pc[p] = "timedout" /\ ReturnFalse(p) /\ UNCHANGED not_full_cv
  /\ UNCHANGED <<state, discard_counter, not_empty_cv, result, offered>>

(* enqueue and enqueue_for under mutex_; the predicate is !full || stopped, *)
(* and a timed-out enqueue_for gives up if it is still false.               *)
EnqueueLocked(p) ==
  /\ op[p] \in {"enqueue", "enqueue_for"}
  /\ \/ /\ pc[p] \in {"lock", "timedout"}
        /\ ~full(q) \/ is_stopped
        /\ IF is_stopped THEN ReturnFalse(p) ELSE PushAndUnlock(p)
        /\ UNCHANGED not_full_cv
     \/ /\ pc[p] = "lock"
        /\ full(q) /\ ~is_stopped
        /\ not_full_cv' = not_full_cv \union {p}
        /\ At(p, "wait")
        /\ UNCHANGED <<q, op, arg>>
     \/ /\ pc[p] = "timedout"
        /\ full(q) /\ ~is_stopped
        /\ ReturnFalse(p)
        /\ UNCHANGED not_full_cv
  /\ UNCHANGED <<state, discard_counter, not_empty_cv, result, offered>>

(* enqueue_overwrite under mutex_: push_back overruns a full ring. *)
EnqueueOverwriteLocked(p) ==
  /\ op[p] = "enqueue_overwrite"
  /\ pc[p] = "lock"
  /\ IF is_stopped THEN ReturnFalse(p) ELSE PushAndUnlock(p)
  /\ UNCHANGED <<state, discard_counter, not_full_cv, not_empty_cv, result, offered>>

(* try_enqueue under mutex_: a refusal for lack of room is counted. *)
TryEnqueueLocked(p) ==
  /\ op[p] = "try_enqueue"
  /\ pc[p] = "lock"
  /\ IF full(q) \/ is_stopped
       THEN /\ ReturnFalse(p)
            /\ discard_counter' = discard_counter + (IF full(q) THEN 1 ELSE 0)
       ELSE /\ PushAndUnlock(p)
            /\ UNCHANGED discard_counter
  /\ UNCHANGED <<state, not_full_cv, not_empty_cv, result, offered>>

(* Mutant: consumers are notified only of the first item. *)
NotifyNotEmptyOfFirst(p) ==
  /\ pc[p] = "notify"
  /\ \/ /\ not_empty_cv = {} \/ size(q) # 1
        /\ At(p, "out")
        /\ UNCHANGED not_empty_cv
     \/ \E c \in not_empty_cv :
          /\ size(q) = 1
          /\ not_empty_cv' = not_empty_cv \ {c}
          /\ pc' = [pc EXCEPT ![p] = "out", ![c] = "lock"]
  /\ op' = [op EXCEPT ![p] = "none"]
  /\ UNCHANGED <<q, state, discard_counter, not_full_cv, arg, result, offered>>

(* not_empty_cv_.notify_one(), after the unlock: any one waiter, if there is one. *)
NotifyNotEmpty(p) ==
  /\ pc[p] = "notify"
  /\ \/ /\ not_empty_cv = {}
        /\ At(p, "out")
        /\ UNCHANGED not_empty_cv
     \/ \E c \in not_empty_cv :
          /\ not_empty_cv' = not_empty_cv \ {c}
          /\ pc' = [pc EXCEPT ![p] = "out", ![c] = "lock"]
  /\ op' = [op EXCEPT ![p] = "none"]
  /\ UNCHANGED <<q, state, discard_counter, not_full_cv, arg, result, offered>>

-----------------------------------------------------------------------------
DequeueCall(c, f) ==
  /\ pc[c] = "out"
  /\ op' = [op EXCEPT ![c] = f]
  /\ At(c, "lock")
  /\ UNCHANGED <<q, state, discard_counter, not_full_cv, not_empty_cv, arg, result, offered>>

PopAndUnlock(c) ==
  /\ q' = pop_front(q)
  /\ result' = [result EXCEPT ![c] = front(q)]
  /\ At(c, "notify")
  /\ UNCHANGED op

(* The lock is released with nothing taken; dequeue_for still notifies. *)
UnlockEmptyHanded(c) ==
  /\ result' = [result EXCEPT ![c] = NoItem]
  /\ IF op[c] = "dequeue_for" THEN At(c, "notify") /\ UNCHANGED op ELSE Return(c)
  /\ UNCHANGED q

(* Mutant: a stopped queue is never drained. *)
DequeueLockedNoDrain(c) ==
  /\ op[c] \in {"dequeue", "dequeue_for"}
  /\ \/ /\ pc[c] \in {"lock", "timedout"}
        /\ ~empty(q) \/ is_stopped
        /\ IF is_stopped THEN UnlockEmptyHanded(c) ELSE PopAndUnlock(c)
        /\ UNCHANGED not_empty_cv
     \/ /\ pc[c] = "lock"
        /\ empty(q) /\ ~is_stopped
        /\ not_empty_cv' = not_empty_cv \union {c}
        /\ At(c, "wait")
        /\ UNCHANGED <<q, op, result>>
  /\ UNCHANGED <<state, discard_counter, not_full_cv, arg, offered>>

(* dequeue and dequeue_for under mutex_; the predicate is !empty || stopped. *)
DequeueLocked(c) ==
  /\ op[c] \in {"dequeue", "dequeue_for"}
  /\ \/ /\ pc[c] \in {"lock", "timedout"}
        /\ ~empty(q) \/ is_stopped
        /\ IF state # "Immediate" /\ ~empty(q) THEN PopAndUnlock(c) ELSE UnlockEmptyHanded(c)
        /\ UNCHANGED not_empty_cv
     \/ /\ pc[c] = "lock"
        /\ empty(q) /\ ~is_stopped
        /\ not_empty_cv' = not_empty_cv \union {c}
        /\ At(c, "wait")
        /\ UNCHANGED <<q, op, result>>
     \/ /\ pc[c] = "timedout"
        /\ empty(q) /\ ~is_stopped
        /\ UnlockEmptyHanded(c)
        /\ UNCHANGED not_empty_cv
  /\ UNCHANGED <<state, discard_counter, not_full_cv, arg, offered>>

(* try_dequeue under mutex_: refuses an empty queue, and any stopped one. *)
TryDequeueLocked(c) ==
  /\ op[c] = "try_dequeue"
  /\ pc[c] = "lock"
  /\ IF empty(q) \/ is_stopped THEN UnlockEmptyHanded(c) ELSE PopAndUnlock(c)
  /\ UNCHANGED <<state, discard_counter, not_full_cv, not_empty_cv, arg, offered>>

(* Mutant: producers are notified only when the queue was full. *)
NotifyNotFullOfFirst(c) ==
  /\ pc[c] = "notify"
  /\ \/ /\ not_full_cv = {} \/ size(q) # Capacity - 1
        /\ At(c, "out")
        /\ UNCHANGED not_full_cv
     \/ \E p \in not_full_cv :
          /\ size(q) = Capacity - 1
          /\ not_full_cv' = not_full_cv \ {p}
          /\ pc' = [pc EXCEPT ![c] = "out", ![p] = "lock"]
  /\ op' = [op EXCEPT ![c] = "none"]
  /\ UNCHANGED <<q, state, discard_counter, not_empty_cv, arg, result, offered>>

(* not_full_cv_.notify_one(), after the unlock. *)
NotifyNotFull(c) ==
  /\ pc[c] = "notify"
  /\ \/ /\ not_full_cv = {}
        /\ At(c, "out")
        /\ UNCHANGED not_full_cv
     \/ \E p \in not_full_cv :
          /\ not_full_cv' = not_full_cv \ {p}
          /\ pc' = [pc EXCEPT ![c] = "out", ![p] = "lock"]
  /\ op' = [op EXCEPT ![c] = "none"]
  /\ UNCHANGED <<q, state, discard_counter, not_empty_cv, arg, result, offered>>

-----------------------------------------------------------------------------
(* A wait_for whose deadline passes before any notify reaches it. *)
TimeOut(t) ==
  /\ pc[t] = "wait"
  /\ op[t] \in {"enqueue_for", "dequeue_for"}
  /\ not_full_cv' = not_full_cv \ {t}
  /\ not_empty_cv' = not_empty_cv \ {t}
  /\ At(t, "timedout")
  /\ UNCHANGED <<q, state, discard_counter, op, arg, result, offered>>

(* A condition variable may wake a waiter nobody notified. *)
SpuriousWakeup(t) ==
  /\ pc[t] = "wait"
  /\ not_full_cv' = not_full_cv \ {t}
  /\ not_empty_cv' = not_empty_cv \ {t}
  /\ At(t, "lock")
  /\ UNCHANGED <<q, state, discard_counter, op, arg, result, offered>>

(* stop_gracefully and stop_immediately under mutex_: only the first stop counts. *)
StopLocked(s, f) ==
  /\ pc[s] = "out"
  /\ IF is_stopped
       THEN UNCHANGED <<state, pc, op>>
       ELSE /\ op' = [op EXCEPT ![s] = f]
            /\ state' = (IF f = "stop_gracefully" THEN "Drain" ELSE "Immediate")
            /\ At(s, "notify")
  /\ UNCHANGED <<q, discard_counter, not_full_cv, not_empty_cv, arg, result, offered>>

(* Mutant: notify_one in place of notify_all. *)
StopNotifyNotEmptyOne(s) ==
  /\ pc[s] = "notify"
  /\ \/ not_empty_cv = {} /\ At(s, "notify2") /\ UNCHANGED not_empty_cv
     \/ \E c \in not_empty_cv :
          /\ pc' = [pc EXCEPT ![s] = "notify2", ![c] = "lock"]
          /\ not_empty_cv' = not_empty_cv \ {c}
  /\ UNCHANGED <<q, state, discard_counter, not_full_cv, op, arg, result, offered>>

(* not_empty_cv_.notify_all() *)
StopNotifyNotEmpty(s) ==
  /\ pc[s] = "notify"
  /\ pc' = [t \in Threads |-> IF t \in not_empty_cv THEN "lock"
                              ELSE IF t = s THEN "notify2" ELSE pc[t]]
  /\ not_empty_cv' = {}
  /\ UNCHANGED <<q, state, discard_counter, not_full_cv, op, arg, result, offered>>

(* not_full_cv_.notify_all() *)
StopNotifyNotFull(s) ==
  /\ pc[s] = "notify2"
  /\ pc' = [t \in Threads |-> IF t \in not_full_cv THEN "lock"
                              ELSE IF t = s THEN "out" ELSE pc[t]]
  /\ op' = [op EXCEPT ![s] = "none"]
  /\ not_full_cv' = {}
  /\ UNCHANGED <<q, state, discard_counter, not_empty_cv, arg, result, offered>>

-----------------------------------------------------------------------------
(* The steps a thread takes inside a call it has made. *)
ProducerStep(p) ==
  EnqueueLocked(p) \/ EnqueueOverwriteLocked(p) \/ TryEnqueueLocked(p) \/ NotifyNotEmpty(p)

ConsumerStep(c) == DequeueLocked(c) \/ TryDequeueLocked(c) \/ NotifyNotFull(c)

StopperStep(s) == StopNotifyNotEmpty(s) \/ StopNotifyNotFull(s)

QueueNext ==
  \/ \E p \in Producers : ProducerStep(p) \/ (\E f \in PutOps, x \in Item : EnqueueCall(p, f, x))
  \/ \E c \in Consumers : ConsumerStep(c) \/ (\E f \in GetOps : DequeueCall(c, f))
  \/ \E s \in Stoppers : StopperStep(s) \/ (\E f \in StopOps : StopLocked(s, f))
  \/ \E t \in Producers \union Consumers : TimeOut(t) \/ SpuriousWakeup(t)

QueueSpec == QueueInit /\ [][QueueNext]_queueVars

-----------------------------------------------------------------------------
(* Threads that will notify, or that are about to take mutex_ and test their *)
(* predicate: the wake-ups still on their way to each side.                  *)
Arriving(S) == {t \in S : pc[t] \in {"lock", "timedout"}}
Notifying(S) == {t \in S : pc[t] = "notify"}

(* While the queue is open and a consumer sleeps, every queued item has its  *)
(* own wake-up under way: a producer that has yet to notify, or a consumer   *)
(* that has yet to take the lock.                                            *)
ItemsAreAnnounced ==
  ~is_stopped /\ not_empty_cv # {} =>
    size(q) <= Cardinality(Notifying(Producers)) + Cardinality(Arriving(Consumers))

(* Likewise every free cell while a producer sleeps.                         *)
RoomIsAnnounced ==
  ~is_stopped /\ not_full_cv # {} =>
    Capacity - size(q) <= Cardinality(Notifying(Consumers)) + Cardinality(Arriving(Producers))

(***************************************************************************)
(* No wake-up is lost, of a consumer or of a producer                      *)
(* (mpmc_blocking_queue.h:110-311): this is what makes notify_one, issued  *)
(* after the unlock, enough, whoever times out or slips in between.        *)
(***************************************************************************)
WakeupsAreAnnounced == ItemsAreAnnounced /\ RoomIsAnnounced

(***************************************************************************)
(* Nobody sleeps through a stop (mpmc_blocking_queue.h:313-337): a thread  *)
(* still in a wait set of a stopped queue has its notify_all ahead of it.  *)
(***************************************************************************)
StopWakesEveryone ==
  is_stopped =>
    /\ not_empty_cv # {} => \E s \in Stoppers : pc[s] = "notify"
    /\ not_full_cv # {} => \E s \in Stoppers : pc[s] \in {"notify", "notify2"}

(***************************************************************************)
(* The queue behaves as the bounded FIFO of BoundedFifo, its contents read *)
(* off the ring (mpmc_blocking_queue.h:110-337).                           *)
(***************************************************************************)
Fifo == INSTANCE BoundedFifo WITH buf <- Contents(q), mode <- state

ImplementsFifo == Fifo!Spec
=============================================================================
