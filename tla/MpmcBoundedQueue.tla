-------------------------- MODULE MpmcBoundedQueue --------------------------
(***************************************************************************)
(* utils::mpmc_bounded_queue (src/src/utils/mpmc_bounded_queue.h): a       *)
(* lock-free ring whose slots carry sequence numbers.  One step is one     *)
(* access to shared memory; the data of a slot is read and written without *)
(* synchronization of its own.  Positions are natural numbers: size_t      *)
(* wraps only after 2^64 operations.  pos & mask_ is pos % Capacity, since *)
(* the constructor rounds the capacity up to a power of two.               *)
(***************************************************************************)
EXTENDS Integers, Sequences, FiniteSets

CONSTANTS MaxItems,   \* bound: calls of enqueue; the k-th enqueues item k
          NoItem,     \* no item
          Capacity,   \* capacity()
          Producers,  \* threads that enqueue
          Consumers   \* threads that dequeue

ASSUME BoundedQueueAssumption ==
  /\ Capacity \in Nat /\ Capacity >= 2
  /\ MaxItems \in Nat /\ NoItem \notin Nat
  /\ IsFiniteSet(Consumers)
  /\ Producers \intersect Consumers = {}

Threads == Producers \union Consumers
Item == 1..MaxItems
Slots == 0..(Capacity - 1)

VARIABLES enqueuePos_,  \* enqueuePos_
          dequeuePos_,  \* dequeuePos_
          seq_,         \* seq_ of each slot
          data_,        \* data_ of each slot
          pc,           \* where each thread is
          pos,          \* local pos
          item,         \* the producer's argument, or what the consumer has read
          used,         \* number of items given to enqueue
          result        \* what each thread's last operation returned (0: false)

vars == <<enqueuePos_, dequeuePos_, seq_, data_, pc, pos, item, used, result>>

TypeOK ==
  /\ enqueuePos_ \in Nat /\ dequeuePos_ \in Nat
  /\ seq_ \in [Slots -> Nat]
  /\ data_ \in [Slots -> Item \union {NoItem}]
  /\ pc \in [Threads -> {"idle", "load", "test", "cas", "data", "seq"}]
  /\ pos \in [Threads -> Nat]
  /\ item \in [Threads -> Item \union {NoItem}]
  /\ used \in 0..MaxItems
  /\ result \in [Threads -> 0..MaxItems \union {NoItem}]

Init ==
  /\ enqueuePos_ = 0 /\ dequeuePos_ = 0
  /\ seq_ = [s \in Slots |-> s]
  /\ data_ = [s \in Slots |-> NoItem]
  /\ pc = [t \in Threads |-> "idle"]
  /\ pos = [t \in Threads |-> 0]
  /\ item = [t \in Threads |-> NoItem]
  /\ used = 0
  /\ result = [t \in Threads |-> NoItem]

Slot(p) == p % Capacity
Goto(t, label) == pc' = [pc EXCEPT ![t] = label]

(* The call returns r; its locals end with it.                               *)
Return(t, r) ==
  /\ result' = [result EXCEPT ![t] = r]
  /\ pos' = [pos EXCEPT ![t] = 0]
  /\ item' = [item EXCEPT ![t] = NoItem]
  /\ Goto(t, "idle")

-----------------------------------------------------------------------------
(* enqueue *)
EnqueueCall(t) ==
  /\ pc[t] = "idle"
  /\ used < MaxItems
  /\ used' = used + 1
  /\ item' = [item EXCEPT ![t] = used']
  /\ result' = [result EXCEPT ![t] = NoItem]
  /\ Goto(t, "load")
  /\ UNCHANGED <<enqueuePos_, dequeuePos_, seq_, data_, pos>>

EnqueueLoad(t) ==
  /\ pc[t] = "load"
  /\ pos' = [pos EXCEPT ![t] = enqueuePos_]
  /\ Goto(t, "test")
  /\ UNCHANGED <<enqueuePos_, dequeuePos_, seq_, data_, item, used, result>>

(* Mutant: a full queue is tried again instead of reported.                  *)
EnqueueTestSpins(t) ==
  /\ pc[t] = "test"
  /\ IF seq_[Slot(pos[t])] = pos[t] THEN Goto(t, "cas") ELSE Goto(t, "load")
  /\ UNCHANGED <<enqueuePos_, dequeuePos_, seq_, data_, pos, item, used, result>>

(* The slot is free for this round, still holds the last one, or is taken.   *)
EnqueueTest(t) ==
  LET dif == seq_[Slot(pos[t])] - pos[t] IN
  /\ pc[t] = "test"
  /\ \/ dif = 0 /\ Goto(t, "cas") /\ UNCHANGED <<pos, item, result>>
     \/ dif < 0 /\ Return(t, 0)
     \/ dif > 0 /\ Goto(t, "load") /\ UNCHANGED <<pos, item, result>>
  /\ UNCHANGED <<enqueuePos_, dequeuePos_, seq_, data_, used>>

(* Mutant: the cursor is advanced without comparing it.                      *)
EnqueueStore(t) ==
  /\ pc[t] = "cas"
  /\ enqueuePos_' = pos[t] + 1
  /\ Goto(t, "data")
  /\ UNCHANGED <<dequeuePos_, seq_, data_, pos, item, used, result>>

(* compare_exchange_weak may fail although the values are equal.             *)
EnqueueCas(t) ==
  /\ pc[t] = "cas"
  /\ \/ /\ enqueuePos_ = pos[t]
        /\ enqueuePos_' = pos[t] + 1
        /\ Goto(t, "data")
     \/ /\ Goto(t, "load")
        /\ UNCHANGED enqueuePos_
  /\ UNCHANGED <<dequeuePos_, seq_, data_, pos, item, used, result>>

EnqueueData(t) ==
  /\ pc[t] = "data"
  /\ data_' = [data_ EXCEPT ![Slot(pos[t])] = item[t]]
  /\ Goto(t, "seq")
  /\ UNCHANGED <<enqueuePos_, dequeuePos_, seq_, pos, item, used, result>>

EnqueueSeq(t) ==
  /\ pc[t] = "seq"
  /\ seq_' = [seq_ EXCEPT ![Slot(pos[t])] = pos[t] + 1]
  /\ Return(t, item[t])
  /\ UNCHANGED <<enqueuePos_, dequeuePos_, data_, used>>

-----------------------------------------------------------------------------
(* dequeue *)
DequeueCall(t) ==
  /\ pc[t] = "idle"
  /\ result' = [result EXCEPT ![t] = NoItem]
  /\ Goto(t, "load")
  /\ UNCHANGED <<enqueuePos_, dequeuePos_, seq_, data_, pos, item, used>>

DequeueLoad(t) ==
  /\ pc[t] = "load"
  /\ pos' = [pos EXCEPT ![t] = dequeuePos_]
  /\ Goto(t, "test")
  /\ UNCHANGED <<enqueuePos_, dequeuePos_, seq_, data_, item, used, result>>

DequeueTest(t) ==
  LET dif == seq_[Slot(pos[t])] - (pos[t] + 1) IN
  /\ pc[t] = "test"
  /\ \/ dif = 0 /\ Goto(t, "cas") /\ UNCHANGED <<pos, item, result>>
     \/ dif < 0 /\ Return(t, 0)
     \/ dif > 0 /\ Goto(t, "load") /\ UNCHANGED <<pos, item, result>>
  /\ UNCHANGED <<enqueuePos_, dequeuePos_, seq_, data_, used>>

DequeueCas(t) ==
  /\ pc[t] = "cas"
  /\ \/ /\ dequeuePos_ = pos[t]
        /\ dequeuePos_' = pos[t] + 1
        /\ Goto(t, "data")
     \/ /\ Goto(t, "load")
        /\ UNCHANGED dequeuePos_
  /\ UNCHANGED <<enqueuePos_, seq_, data_, pos, item, used, result>>

DequeueData(t) ==
  /\ pc[t] = "data"
  /\ item' = [item EXCEPT ![t] = data_[Slot(pos[t])]]
  /\ Goto(t, "seq")
  /\ UNCHANGED <<enqueuePos_, dequeuePos_, seq_, data_, pos, used, result>>

(* Mutant: the slot is given back for the same round.                        *)
DequeueSeqSameRound(t) ==
  /\ pc[t] = "seq"
  /\ seq_' = [seq_ EXCEPT ![Slot(pos[t])] = pos[t]]
  /\ Return(t, item[t])
  /\ UNCHANGED <<enqueuePos_, dequeuePos_, data_, used>>

DequeueSeq(t) ==
  /\ pc[t] = "seq"
  /\ seq_' = [seq_ EXCEPT ![Slot(pos[t])] = pos[t] + Capacity]
  /\ Return(t, item[t])
  /\ UNCHANGED <<enqueuePos_, dequeuePos_, data_, used>>

-----------------------------------------------------------------------------
ProducerStep(t) == EnqueueLoad(t) \/ EnqueueTest(t) \/ EnqueueCas(t) \/ EnqueueData(t) \/ EnqueueSeq(t)
ConsumerStep(t) == DequeueLoad(t) \/ DequeueTest(t) \/ DequeueCas(t) \/ DequeueData(t) \/ DequeueSeq(t)

Next ==
  \/ \E t \in Producers : ProducerStep(t) \/ EnqueueCall(t)
  \/ \E t \in Consumers : ConsumerStep(t) \/ DequeueCall(t)

Spec == Init /\ [][Next]_vars

(* Threads run, and an exchange that could succeed does not fail for ever.   *)
FairSpec ==
  /\ Spec
  /\ \A t \in Producers : WF_vars(ProducerStep(t)) /\ SF_vars(EnqueueCas(t) /\ pc'[t] = "data")
  /\ \A t \in Consumers : WF_vars(ConsumerStep(t)) /\ SF_vars(DequeueCas(t) /\ pc'[t] = "data")

-----------------------------------------------------------------------------
(* What a position between the cursors stands for: the item of the slot, or  *)
(* of the producer that is about to fill it.                                 *)
Claimer(p) == {t \in Producers : pc[t] \in {"data", "seq"} /\ pos[t] = p}

ItemAt(p) == IF Claimer(p) = {} THEN data_[Slot(p)] ELSE item[CHOOSE t \in Claimer(p) : TRUE]

Abstract == INSTANCE ClaimQueue WITH
  claimed <- [k \in 1..(enqueuePos_ - dequeuePos_) |-> ItemAt(dequeuePos_ + k - 1)],
  published <- {ItemAt(p) : p \in {q \in dequeuePos_..(enqueuePos_ - 1) : seq_[Slot(q)] = q + 1}},
  putting <- [t \in Producers |-> IF pc[t] \in {"data", "seq"} THEN item[t] ELSE NoItem],
  taking <- [t \in Consumers |-> IF pc[t] \in {"data", "seq"} THEN data_[Slot(pos[t])] ELSE NoItem]

(* Every step of the ring is a step of the queue its users rely on: items    *)
(* leave in the order their places were claimed, none is lost or delivered   *)
(* twice, and a false from enqueue or dequeue has a reason.                  *)
ImplementsClaimQueue == Abstract!Spec

(* data_ is not atomic: no two threads are at the data of one slot.          *)
NoDataRace ==
  \A t, u \in Threads :
    pc[t] = "data" /\ pc[u] = "data" /\ Slot(pos[t]) = Slot(pos[u]) => t = u

(* Every call returns, whatever the others do between its steps.  Not        *)
(* wait-free in general: here because the items are finite.                  *)
OperationsReturn == \A t \in Threads : []<>(pc[t] = "idle")
=============================================================================
