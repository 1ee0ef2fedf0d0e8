-------------------------- MODULE ThreadPoolProofs --------------------------
(***************************************************************************)
(* Proofs about MpmcBlockingQueue, for any number of producers, consumers  *)
(* and stoppers and any capacity, and about the ThreadPool that composes   *)
(* it, for any submitters, workers and tasks.  First the queue's ring,     *)
(* CircularQ, implements a bounded FIFO: on every ring the operations act  *)
(* on Contents(r) the way the operations of Sequences do.  Then the queue, *)
(* and then the pool, whose steps are steps of the queue (PoolIsQueue).    *)
(***************************************************************************)
EXTENDS ThreadPool, FiniteSetTheorems, TLAPS

(* An index within one turn of the ring is itself. *)
LEMMA ModSmall == ASSUME NEW a \in 0..Capacity PROVE a % max_items = a
  BY CapacityAssumption DEF max_items

(* An index in its second turn around the ring wraps once. *)
LEMMA ModWrap ==
  ASSUME NEW a \in max_items..(2 * max_items - 1)
  PROVE  a % max_items = a - max_items
  BY CapacityAssumption DEF max_items

(* The cell k places after a cell, without the modulus. *)
LEMMA CellAt ==
  ASSUME NEW i \in Cells, NEW k \in 0..Capacity
  PROVE  /\ (i + k) % max_items = IF i + k <= Capacity THEN i + k ELSE i + k - max_items
         /\ (i + k) % max_items \in Cells
<1>1. CASE i + k <= Capacity
  BY <1>1, ModSmall, CapacityAssumption DEF Cells
<1>2. CASE i + k > Capacity
  <2>1. i + k \in max_items..(2 * max_items - 1)
    BY <1>2, CapacityAssumption DEF Cells, max_items
  <2>2. (i + k) % max_items = i + k - max_items
    BY <2>1, ModWrap, CapacityAssumption DEF max_items, Cells
  <2> QED
    BY <2>1, <2>2, <1>2, CapacityAssumption DEF Cells, max_items
<1> QED
  BY <1>1, <1>2, CapacityAssumption DEF Cells

(* The index arithmetic of head_ and tail_ stays inside the ring. *)
LEMMA NextCellValue ==
  ASSUME NEW i \in Cells
  PROVE  NextCell(i) \in Cells /\ NextCell(i) = IF i = Capacity THEN 0 ELSE i + 1
<1>1. 1 \in 0..Capacity /\ i \in 0..Capacity
  BY CapacityAssumption DEF Cells
<1>2. (i + 1) % max_items = IF i + 1 <= Capacity THEN i + 1 ELSE i + 1 - max_items
  BY <1>1, CellAt DEF Cells
<1> QED
  BY <1>1, <1>2, CapacityAssumption DEF NextCell, Cells, max_items

(* size() counts between nothing and the capacity. *)
LEMMA SizeType == ASSUME NEW r \in Ring PROVE size(r) \in 0..Capacity
  BY CapacityAssumption DEF Ring, Cells, size, max_items

(* Contents is a sequence of the ring's cells, of length size(). *)
LEMMA ContentsType ==
  ASSUME NEW r \in Ring
  PROVE  /\ Contents(r) \in Seq(Item \union {NoItem})
         /\ Len(Contents(r)) = size(r)
         /\ \A k \in 1..size(r) : Contents(r)[k] = r.items[(r.head + k - 1) % max_items]
<1>1. \A k \in 1..size(r) : (r.head + k - 1) % max_items \in Cells
  <2> TAKE k \in 1..size(r)
  <2>1. k - 1 \in 0..Capacity /\ r.head \in Cells /\ r.head + (k - 1) = r.head + k - 1
    BY SizeType, CapacityAssumption DEF Ring, Cells
  <2> QED BY <2>1, CellAt
<1> QED
  BY <1>1, SizeType, CapacityAssumption DEF Contents, Ring

(* empty() and full() are what they say of Contents. *)
LEMMA EmptyFull ==
  ASSUME NEW r \in Ring
  PROVE  /\ empty(r) <=> Contents(r) = <<>>
         /\ empty(r) <=> size(r) = 0
         /\ full(r) <=> size(r) = Capacity
<1>1. r.head \in Cells /\ r.tail \in Cells
  BY DEF Ring
<1>2. empty(r) <=> size(r) = 0
  BY <1>1, CapacityAssumption DEF empty, size, Cells, max_items
<1>3. full(r) <=> size(r) = Capacity
  BY <1>1, NextCellValue, CapacityAssumption DEF full, size, Cells, max_items
<1>4. Contents(r) = <<>> <=> Len(Contents(r)) = 0
  BY ContentsType
<1> QED
  BY <1>2, <1>3, <1>4, ContentsType

(* pop_front removes the oldest item, the one front() returned. *)
THEOREM PopFrontContents ==
  ASSUME NEW r \in Ring, ~empty(r)
  PROVE  /\ pop_front(r) \in Ring
         /\ front(r) = Head(Contents(r))
         /\ Contents(pop_front(r)) = Tail(Contents(r))
<1> DEFINE p == pop_front(r)
<1>1. /\ p \in Ring /\ p.head = NextCell(r.head) /\ p.tail = r.tail /\ p.items = r.items
  BY NextCellValue DEF pop_front, Ring
<1>2. size(r) \in 1..Capacity
  BY SizeType, EmptyFull
<1>3. size(p) = size(r) - 1
  <2>1. p.head = IF r.head = Capacity THEN 0 ELSE r.head + 1
    BY <1>1, NextCellValue DEF Ring
  <2>2. r.head \in 0..Capacity /\ r.tail \in 0..Capacity /\ r.head # r.tail
    BY DEF Ring, Cells, empty
  <2>3. p.tail = r.tail
    BY <1>1
  <2> HIDE DEF p
  <2> QED
    BY <2>1, <2>2, <2>3, CapacityAssumption DEF size, max_items
<1>4. front(r) = Head(Contents(r))
  <2>1. r.head \in Cells /\ (r.head + 1 - 1) % max_items = r.head
    BY ModSmall, CapacityAssumption DEF Ring, Cells
  <2> QED BY <2>1, <1>2, ContentsType DEF front
<1>5. ASSUME NEW k \in 1..size(p) PROVE Contents(p)[k] = Tail(Contents(r))[k]
  <2>1. k \in 0..Capacity /\ k - 1 \in 0..Capacity /\ k + 1 \in 1..size(r)
    BY <1>3, <1>2, CapacityAssumption
  <2>2. (p.head + k - 1) % max_items = (r.head + (k + 1) - 1) % max_items
    <3>1. r.head \in Cells /\ p.head \in Cells
      BY <1>1 DEF Ring
    <3>2. (p.head + (k - 1)) % max_items
            = IF p.head + (k - 1) <= Capacity THEN p.head + (k - 1) ELSE p.head + (k - 1) - max_items
      BY <3>1, <2>1, CellAt
    <3>3. (r.head + k) % max_items
            = IF r.head + k <= Capacity THEN r.head + k ELSE r.head + k - max_items
      BY <3>1, <2>1, CellAt
    <3>4. p.head = IF r.head = Capacity THEN 0 ELSE r.head + 1
      BY <1>1, <3>1, NextCellValue
    <3>5. p.head + (k - 1) = p.head + k - 1 /\ r.head + k = r.head + (k + 1) - 1
      BY <3>1, <2>1 DEF Cells
    <3>6. CASE r.head = Capacity
      BY <3>1, <3>2, <3>3, <3>4, <3>5, <3>6, <2>1, CapacityAssumption DEF Cells, max_items
    <3>7. CASE r.head # Capacity
      BY <3>1, <3>2, <3>3, <3>4, <3>5, <3>7, <2>1, CapacityAssumption DEF Cells, max_items
    <3> QED BY <3>6, <3>7
  <2>3. Contents(p)[k] = Contents(r)[k + 1]
    BY <2>1, <2>2, <1>1, ContentsType
  <2> QED BY <2>1, <2>3, <1>2, <1>3, ContentsType
<1>6. Contents(p) = Tail(Contents(r))
  BY <1>1, <1>2, <1>3, <1>5, ContentsType
<1> QED BY <1>1, <1>4, <1>6

(* The cell push_back writes, tail_, holds no live item. *)
LEMMA TailIsFree ==
  ASSUME NEW r \in Ring, NEW k \in 1..size(r)
  PROVE  (r.head + k - 1) % max_items # r.tail
<1>1. r.head \in 0..Capacity /\ r.tail \in 0..Capacity /\ k - 1 \in 0..Capacity
  BY SizeType, CapacityAssumption DEF Ring, Cells
<1>2. (r.head + (k - 1)) % max_items
        = IF r.head + (k - 1) <= Capacity THEN r.head + (k - 1) ELSE r.head + (k - 1) - max_items
  BY <1>1, CellAt DEF Cells
<1>3. r.head + (k - 1) = r.head + k - 1
  BY <1>1
<1> QED
  BY <1>1, <1>2, <1>3, CapacityAssumption DEF size, max_items

(* The last live item sits just before tail_. *)
LEMMA LastCell ==
  ASSUME NEW r \in Ring, NEW s \in Ring, s.tail = NextCell(r.tail), size(s) >= 1
  PROVE  (s.head + size(s) - 1) % max_items = r.tail
<1>1. s.head \in 0..Capacity /\ s.tail \in 0..Capacity /\ r.tail \in 0..Capacity
  BY DEF Ring, Cells
<1>2. size(s) - 1 \in 0..Capacity /\ size(s) \in 1..Capacity
  BY SizeType, CapacityAssumption
<1>3. (s.head + (size(s) - 1)) % max_items
        = IF s.head + (size(s) - 1) <= Capacity THEN s.head + (size(s) - 1)
                                               ELSE s.head + (size(s) - 1) - max_items
  BY <1>1, <1>2, CellAt DEF Cells
<1>4. s.head + (size(s) - 1) = s.head + size(s) - 1
  BY <1>1, <1>2
<1>5. s.tail = IF r.tail = Capacity THEN 0 ELSE r.tail + 1
  BY <1>1, NextCellValue DEF Cells
<1> QED
  BY <1>1, <1>2, <1>3, <1>4, <1>5, CapacityAssumption DEF size, max_items

(* push_back on a ring with room appends the new item and loses nothing. *)
THEOREM PushBackContents ==
  ASSUME NEW r \in Ring, NEW x \in Item, ~full(r)
  PROVE  /\ push_back(r, x) \in Ring
         /\ Contents(push_back(r, x)) = Append(Contents(r), x)
         /\ push_back(r, x).overrun = r.overrun
<1> DEFINE p == push_back(r, x)
<1>1. /\ p \in Ring /\ p.head = r.head /\ p.tail = NextCell(r.tail)
      /\ p.items = [r.items EXCEPT ![r.tail] = x] /\ p.overrun = r.overrun
  BY NextCellValue DEF push_back, Ring, full
<1>2. size(p) = size(r) + 1
  <2>1. p.tail = IF r.tail = Capacity THEN 0 ELSE r.tail + 1
    BY <1>1, NextCellValue DEF Ring
  <2>2. r.head \in 0..Capacity /\ r.tail \in 0..Capacity /\ p.tail # r.head /\ p.head = r.head
    BY <1>1 DEF Ring, Cells, full
  <2> HIDE DEF p
  <2> QED
    BY <2>1, <2>2, CapacityAssumption DEF size, max_items
<1>3. r.items \in [Cells -> Item \union {NoItem}] /\ r.tail \in Cells /\ r.head \in Cells
  BY DEF Ring
<1>4. ASSUME NEW k \in 1..size(r) PROVE Contents(p)[k] = Contents(r)[k]
  <2>1. k - 1 \in 0..Capacity /\ k \in 1..size(p) /\ r.head + (k - 1) = r.head + k - 1
    BY SizeType, <1>2, <1>3, CapacityAssumption DEF Cells
  <2>2. (r.head + k - 1) % max_items \in Cells
    BY <2>1, <1>3, CellAt
  <2>3. p.items[(r.head + k - 1) % max_items] = r.items[(r.head + k - 1) % max_items]
    BY <2>2, <1>1, <1>3, TailIsFree
  <2> QED BY <2>1, <2>3, <1>1, ContentsType
<1>5. Contents(p)[size(r) + 1] = x
  <2>1. (p.head + size(p) - 1) % max_items = r.tail
    BY <1>1, <1>2, SizeType, LastCell, CapacityAssumption
  <2>2. size(p) \in 1..size(p)
    BY <1>2, SizeType, CapacityAssumption
  <2>3. Contents(p)[size(p)] = p.items[r.tail]
    BY <2>1, <2>2, <1>1, ContentsType
  <2> QED BY <2>3, <1>1, <1>2, <1>3
<1>6. Contents(p) = Append(Contents(r), x)
  <2>1. /\ Contents(r) \in Seq(Item \union {NoItem}) /\ Len(Contents(r)) = size(r)
        /\ Contents(p) \in Seq(Item \union {NoItem}) /\ Len(Contents(p)) = size(r) + 1
        /\ size(r) \in Nat
    BY <1>1, <1>2, ContentsType, SizeType, CapacityAssumption
  <2> HIDE DEF p
  <2> QED BY <2>1, <1>4, <1>5
<1> QED BY <1>1, <1>6

(* push_back on a full ring gives up exactly the oldest item and counts it. *)
THEOREM PushBackOverwrites ==
  ASSUME NEW r \in Ring, NEW x \in Item, full(r)
  PROVE  /\ push_back(r, x) \in Ring
         /\ Contents(push_back(r, x)) = Append(Tail(Contents(r)), x)
         /\ push_back(r, x).overrun = r.overrun + 1
<1> DEFINE d == pop_front(r)
           e == [d EXCEPT !.overrun = @ + 1]
<1>1. size(r) = Capacity /\ ~empty(r)
  BY EmptyFull, CapacityAssumption
<1>2. d \in Ring /\ Contents(d) = Tail(Contents(r))
  BY <1>1, PopFrontContents
<1>3. e \in Ring /\ e.head = d.head /\ e.tail = d.tail /\ e.items = d.items /\ e.overrun = d.overrun + 1
  BY <1>2 DEF Ring
<1>4. Contents(e) = Contents(d)
  BY <1>3 DEF Contents, size
<1>5. ~full(e)
  <2>1. r.head \in Cells /\ e.head = NextCell(r.head) /\ e.tail = r.tail /\ NextCell(r.tail) = r.head
    BY <1>3 DEF Ring, pop_front, full
  <2>2. NextCell(r.head) # r.head
    BY <2>1, NextCellValue, CapacityAssumption DEF Cells
  <2> QED BY <2>1, <2>2 DEF full
<1>6. push_back(e, x) = push_back(r, x)
  <2>1. /\ r.tail \in Cells /\ r.head \in Cells /\ e.tail = r.tail /\ e.items = r.items
        /\ e.head = NextCell(r.head) /\ e.overrun = r.overrun + 1
    BY <1>3 DEF Ring, pop_front
  <2>2. NextCell(r.tail) = r.head /\ NextCell(e.tail) # e.head
    BY <1>5 DEF full
  <2> HIDE DEF e
  <2> QED BY <2>1, <2>2 DEF push_back
<1>7. Contents(push_back(e, x)) = Append(Contents(e), x) /\ push_back(e, x) \in Ring
      /\ push_back(e, x).overrun = e.overrun
  BY <1>3, <1>5, PushBackContents
<1> QED
  <2>1. e.overrun = r.overrun + 1
    BY <1>3 DEF Ring, pop_front
  <2> QED BY <2>1, <1>2, <1>4, <1>6, <1>7

-----------------------------------------------------------------------------
(* The wait sets hold exactly the threads that wait, and a producer on its *)
(* way to push_back still has its item.                                    *)
ThreadInv ==
  /\ not_full_cv = {p \in Producers : pc[p] = "wait"}
  /\ not_empty_cv = {c \in Consumers : pc[c] = "wait"}
  /\ \A p \in Producers : pc[p] \in {"lock", "timedout", "wait"} => arg[p] \in Item
  /\ \A s \in Stoppers : pc[s] \in {"out", "notify", "notify2"}
  /\ \A s \in Stoppers : pc[s] # "out" => state # "None"

Inv == TypeOK /\ ThreadInv

(* push_back and pop_front keep the ring a ring. *)
LEMMA RingOps ==
  ASSUME NEW r \in Ring
  PROVE  /\ \A x \in Item : push_back(r, x) \in Ring
         /\ pop_front(r) \in Ring
         /\ front(r) \in Item \union {NoItem}
<1>1. \A x \in Item : push_back(r, x) \in Ring
  BY PushBackContents, PushBackOverwrites
<1>2. pop_front(r) \in Ring
  BY NextCellValue DEF pop_front, Ring
<1>3. front(r) \in Item \union {NoItem}
  BY DEF front, Ring
<1> QED BY <1>1, <1>2, <1>3

(* A freshly constructed ring is a well-formed empty one (circular_q.h:41-45). *)
LEMMA NewRingType == NewRing \in Ring /\ Contents(NewRing) = <<>> /\ empty(NewRing)
<1>1. NewRing \in Ring /\ empty(NewRing)
  BY CapacityAssumption DEF NewRing, Ring, Cells, empty
<1> QED BY <1>1, EmptyFull

(* A newly constructed queue satisfies the inductive invariant. *)
LEMMA InvInit == QueueInit => Inv
  BY NewRingType DEF QueueInit, Inv, TypeOK, ThreadInv, Threads, Labels

(* The unlocked stop test that starts an enqueue keeps the invariant. *)
LEMMA InvEnqueueCall ==
  ASSUME Inv, NEW p \in Producers, NEW f \in PutOps, NEW x \in Item, EnqueueCall(p, f, x)
  PROVE  Inv'
  BY ThreadsAssumption DEF EnqueueCall, At, Inv, TypeOK, ThreadInv, Threads, Labels, PutOps

(* So does every later step of a producer: under mutex_, or notifying. *)
LEMMA InvProducerStep ==
  ASSUME Inv, NEW p \in Producers, ProducerStep(p)
  PROVE  Inv'
<1>1. CASE EnqueueLocked(p)
  <2>1. pc[p] \in {"lock", "timedout"} /\ arg[p] \in Item
    BY <1>1 DEF EnqueueLocked, Inv, ThreadInv
  <2>2. push_back(q, arg[p]) \in Ring
    BY <2>1, RingOps DEF Inv, TypeOK
  <2>3. TypeOK'
    BY <1>1, <2>1, <2>2 DEF EnqueueLocked, PushAndUnlock, ReturnFalse, Return, At, Inv, TypeOK, Threads, Labels
  <2>4. ThreadInv'
    BY <1>1, <2>1, ThreadsAssumption DEF EnqueueLocked, PushAndUnlock, ReturnFalse, Return, At, Inv, TypeOK, ThreadInv, Threads, Labels
  <2> QED BY <2>3, <2>4 DEF Inv
<1>2. CASE EnqueueOverwriteLocked(p) \/ TryEnqueueLocked(p)
  <2>1. pc[p] \in {"lock", "timedout"} /\ arg[p] \in Item
    BY <1>2 DEF EnqueueOverwriteLocked, TryEnqueueLocked, Inv, ThreadInv
  <2>2. push_back(q, arg[p]) \in Ring
    BY <2>1, RingOps DEF Inv, TypeOK
  <2>3. TypeOK'
    BY <1>2, <2>1, <2>2 DEF EnqueueOverwriteLocked, TryEnqueueLocked, PushAndUnlock, ReturnFalse, Return, At, Inv, TypeOK, Threads, Labels
  <2>4. ThreadInv'
    BY <1>2, <2>1, ThreadsAssumption DEF EnqueueOverwriteLocked, TryEnqueueLocked, PushAndUnlock, ReturnFalse, Return, At, Inv, TypeOK, ThreadInv, Threads, Labels
  <2> QED BY <2>3, <2>4 DEF Inv
<1>3. CASE NotifyNotEmpty(p)
  BY <1>3, ThreadsAssumption DEF NotifyNotEmpty, At, Inv, TypeOK, ThreadInv, Threads, Labels
<1> QED BY <1>1, <1>2, <1>3 DEF ProducerStep

(* The start of a dequeue keeps the invariant. *)
LEMMA InvDequeueCall ==
  ASSUME Inv, NEW c \in Consumers, NEW f \in GetOps, DequeueCall(c, f)
  PROVE  Inv'
  BY ThreadsAssumption DEF DequeueCall, At, Inv, TypeOK, ThreadInv, Threads, Labels

(* So does every later step of a consumer. *)
LEMMA InvConsumerStep ==
  ASSUME Inv, NEW c \in Consumers, ConsumerStep(c)
  PROVE  Inv'
<1>0. pop_front(q) \in Ring /\ front(q) \in Item \union {NoItem}
  BY RingOps DEF Inv, TypeOK
<1>1. CASE DequeueLocked(c)
  <2>1. TypeOK'
    BY <1>0, <1>1 DEF DequeueLocked, PopAndUnlock, UnlockEmptyHanded, Return, At, Inv, TypeOK, Threads, Labels
  <2>2. ThreadInv'
    BY <1>1, ThreadsAssumption DEF DequeueLocked, PopAndUnlock, UnlockEmptyHanded, Return, At, Inv, TypeOK, ThreadInv, Threads, Labels
  <2> QED BY <2>1, <2>2 DEF Inv
<1>2. CASE TryDequeueLocked(c)
  <2>1. TypeOK'
    BY <1>0, <1>2 DEF TryDequeueLocked, PopAndUnlock, UnlockEmptyHanded, Return, At, Inv, TypeOK, Threads, Labels
  <2>2. ThreadInv'
    BY <1>2, ThreadsAssumption DEF TryDequeueLocked, PopAndUnlock, UnlockEmptyHanded, Return, At, Inv, TypeOK, ThreadInv, Threads, Labels
  <2> QED BY <2>1, <2>2 DEF Inv
<1>3. CASE NotifyNotFull(c)
  BY <1>3, ThreadsAssumption DEF NotifyNotFull, At, Inv, TypeOK, ThreadInv, Threads, Labels
<1> QED BY <1>1, <1>2, <1>3 DEF ConsumerStep

(* The steps of stop_gracefully and stop_immediately keep it. *)
LEMMA InvStop ==
  ASSUME Inv, NEW s \in Stoppers, StopperStep(s) \/ \E f \in StopOps : StopLocked(s, f)
  PROVE  Inv'
<1>1. CASE StopNotifyNotEmpty(s)
  BY <1>1, ThreadsAssumption DEF StopNotifyNotEmpty, Inv, TypeOK, ThreadInv, Threads, Labels
<1>2. CASE StopNotifyNotFull(s)
  BY <1>2, ThreadsAssumption DEF StopNotifyNotFull, Inv, TypeOK, ThreadInv, Threads, Labels
<1>3. CASE \E f \in StopOps : StopLocked(s, f)
  BY <1>3, ThreadsAssumption DEF StopLocked, At, Inv, TypeOK, ThreadInv, Threads, Labels
<1> QED BY <1>1, <1>2, <1>3 DEF StopperStep

(* So do a timeout and a spurious wake-up of a condition variable. *)
LEMMA InvWaitEnds ==
  ASSUME Inv, NEW t \in Producers \union Consumers, TimeOut(t) \/ SpuriousWakeup(t)
  PROVE  Inv'
  BY ThreadsAssumption DEF TimeOut, SpuriousWakeup, At, Inv, TypeOK, ThreadInv, Threads, Labels

(* The invariant is inductive: every step of the queue keeps it. *)
LEMMA InvNext == Inv /\ [QueueNext]_queueVars => Inv'
<1> SUFFICES ASSUME Inv, [QueueNext]_queueVars PROVE Inv'
  OBVIOUS
<1>1. CASE UNCHANGED queueVars
  BY <1>1 DEF queueVars, Inv, TypeOK, ThreadInv
<1>2. CASE QueueNext
  BY <1>2, InvEnqueueCall, InvProducerStep, InvDequeueCall, InvConsumerStep, InvStop, InvWaitEnds DEF QueueNext
<1> QED BY <1>1, <1>2

(* The queue's variables keep their types (mpmc_blocking_queue.h:88-106). *)
THEOREM QueueTypeCorrect == QueueSpec => []TypeOK
<1>1. QueueSpec => []Inv
  BY InvInit, InvNext, PTL DEF QueueSpec
<1>2. Inv => TypeOK
  BY DEF Inv
<1> QED BY <1>1, <1>2, PTL

-----------------------------------------------------------------------------
(* Refinement of BoundedFifo. *)

(* Pushing under the lock of an open queue is a Put, or an Overrun when full. *)
LEMMA PushIsPut ==
  ASSUME Inv, ~is_stopped, NEW p \in Producers, arg[p] \in Item,
         q' = push_back(q, arg[p]), UNCHANGED <<state, result>>
  PROVE  Fifo!Next
<1>1. q \in Ring /\ Len(Contents(q)) = size(q) /\ size(q) \in 0..Capacity
  BY ContentsType, SizeType DEF Inv, TypeOK
<1>2. CASE full(q)
  <2>1. Contents(q') = Append(Tail(Contents(q)), arg[p]) /\ Len(Contents(q)) = Capacity
    BY <1>1, <1>2, PushBackOverwrites, EmptyFull
  <2> QED BY <2>1 DEF Fifo!Next, Fifo!Overrun, is_stopped
<1>3. CASE ~full(q)
  <2>1. Contents(q') = Append(Contents(q), arg[p]) /\ Len(Contents(q)) < Capacity
    BY <1>1, <1>3, PushBackContents, EmptyFull, CapacityAssumption
  <2> QED BY <2>1 DEF Fifo!Next, Fifo!Put, is_stopped
<1> QED BY <1>2, <1>3

(* Popping is a Get. *)
LEMMA PopIsGet ==
  ASSUME Inv, NEW c \in Consumers, state # "Immediate", ~empty(q),
         q' = pop_front(q), result' = [result EXCEPT ![c] = front(q)], UNCHANGED state
  PROVE  Fifo!Next
<1>1. Contents(q') = Tail(Contents(q)) /\ front(q) = Head(Contents(q)) /\ Contents(q) # <<>>
  BY PopFrontContents, EmptyFull DEF Inv, TypeOK
<1> QED BY <1>1 DEF Fifo!Next, Fifo!Get

(* Coming away empty-handed is a GetNothing. *)
LEMMA NothingIsGetNothing ==
  ASSUME Inv, NEW c \in Consumers, empty(q) \/ is_stopped,
         UNCHANGED <<q, state>>, result' = [result EXCEPT ![c] = NoItem]
  PROVE  Fifo!Next
<1>1. empty(q) <=> Contents(q) = <<>>
  BY EmptyFull DEF Inv, TypeOK
<1> QED BY <1>1 DEF Fifo!Next, Fifo!GetNothing, is_stopped

(* Every step of the queue is a step of BoundedFifo or changes nothing it shows. *)
LEMMA FifoStep == Inv /\ [QueueNext]_queueVars => [Fifo!Next]_(Fifo!fifoVars)
<1> SUFFICES ASSUME Inv, [QueueNext]_queueVars,
                    ~(UNCHANGED <<q, state, result>>)
             PROVE  Fifo!Next
  BY DEF Fifo!fifoVars
<1>1. ASSUME NEW p \in Producers, ProducerStep(p) PROVE Fifo!Next
  <2>1. /\ pc[p] \in {"lock", "timedout"} /\ ~is_stopped
        /\ q' = push_back(q, arg[p]) /\ UNCHANGED <<state, result>>
    BY <1>1 DEF ProducerStep, EnqueueLocked, EnqueueOverwriteLocked, TryEnqueueLocked,
                NotifyNotEmpty, PushAndUnlock, ReturnFalse
  <2>2. arg[p] \in Item
    BY <2>1 DEF Inv, ThreadInv
  <2> QED BY <2>1, <2>2, PushIsPut
<1>2. ASSUME NEW c \in Consumers, ConsumerStep(c) PROVE Fifo!Next
  <2>1. \/ /\ state # "Immediate" /\ ~empty(q) /\ q' = pop_front(q)
           /\ result' = [result EXCEPT ![c] = front(q)] /\ UNCHANGED state
        \/ /\ empty(q) \/ is_stopped
           /\ UNCHANGED <<q, state>> /\ result' = [result EXCEPT ![c] = NoItem]
    BY <1>2 DEF ConsumerStep, DequeueLocked, TryDequeueLocked, NotifyNotFull, PopAndUnlock,
                UnlockEmptyHanded, is_stopped
  <2> QED BY <2>1, PopIsGet, NothingIsGetNothing
<1>3. ASSUME NEW s \in Stoppers, NEW f \in StopOps, StopLocked(s, f) PROVE Fifo!Next
  BY <1>3 DEF StopLocked, Fifo!Next, Fifo!Close, is_stopped
<1>4. ASSUME NEW p \in Producers, NEW f \in PutOps, NEW x \in Item, EnqueueCall(p, f, x)
      PROVE FALSE
  BY <1>4 DEF EnqueueCall
<1>5. ASSUME NEW c \in Consumers, NEW f \in GetOps, DequeueCall(c, f) PROVE FALSE
  BY <1>5 DEF DequeueCall
<1>6. ASSUME NEW s \in Stoppers, StopperStep(s) PROVE FALSE
  BY <1>6 DEF StopperStep, StopNotifyNotEmpty, StopNotifyNotFull
<1>7. ASSUME NEW t \in Producers \union Consumers, TimeOut(t) \/ SpuriousWakeup(t) PROVE FALSE
  BY <1>7 DEF TimeOut, SpuriousWakeup
<1>8. QueueNext
  BY DEF queueVars
<1> QED BY <1>1, <1>2, <1>3, <1>4, <1>5, <1>6, <1>7, <1>8 DEF QueueNext

(***************************************************************************)
(* The blocking queue implements the bounded FIFO: whatever the threads    *)
(* do, items leave in the order they arrived, none is lost but by an       *)
(* overrun of a full open queue, nothing enters after a stop, and nothing  *)
(* leaves after an immediate one (mpmc_blocking_queue.h:110-337).          *)
(***************************************************************************)
THEOREM QueueImplementsFifo == QueueSpec => ImplementsFifo
<1>1. QueueInit => Fifo!Init
  BY NewRingType DEF QueueInit, Fifo!Init
<1>2. QueueSpec => []Inv
  BY InvInit, InvNext, PTL DEF QueueSpec
<1> QED BY <1>1, <1>2, FifoStep, PTL DEF QueueSpec, ImplementsFifo, Fifo!Spec

-----------------------------------------------------------------------------
(* No lost wake-up. *)

(* A finite set grows by the one element that joins it. *)
LEMMA CardJoin ==
  ASSUME NEW S, IsFiniteSet(S), NEW x
  PROVE  Cardinality(S \union {x}) = Cardinality(S) + (IF x \in S THEN 0 ELSE 1)
  BY FS_AddElement, FS_CardinalityType

(* A finite set shrinks by the one element that leaves it. *)
LEMMA CardLeave ==
  ASSUME NEW S, IsFiniteSet(S), NEW x
  PROVE  Cardinality(S \ {x}) = Cardinality(S) - (IF x \in S THEN 1 ELSE 0)
  BY FS_RemoveElement, FS_CardinalityType

(* The threads with a wake-up under way can be counted. *)
LEMMA WakersFinite ==
  /\ IsFiniteSet(Notifying(Producers)) /\ IsFiniteSet(Notifying(Consumers))
  /\ IsFiniteSet(Arriving(Producers)) /\ IsFiniteSet(Arriving(Consumers))
  /\ Cardinality(Notifying(Producers)) \in Nat /\ Cardinality(Notifying(Consumers)) \in Nat
  /\ Cardinality(Arriving(Producers)) \in Nat /\ Cardinality(Arriving(Consumers)) \in Nat
<1>1. /\ Notifying(Producers) \subseteq Producers /\ Notifying(Consumers) \subseteq Consumers
      /\ Arriving(Producers) \subseteq Producers /\ Arriving(Consumers) \subseteq Consumers
  BY DEF Notifying, Arriving
<1> QED BY <1>1, ThreadsAssumption, FS_Subset, FS_CardinalityType

(* A push lengthens the ring by at most one cell, a pop shortens it by one. *)
LEMMA PushSize ==
  ASSUME NEW r \in Ring, NEW x \in Item
  PROVE  /\ size(push_back(r, x)) \in Nat
         /\ size(r) <= size(push_back(r, x)) /\ size(push_back(r, x)) <= size(r) + 1
         /\ ~full(r) => size(push_back(r, x)) = size(r) + 1
<1>1. push_back(r, x) \in Ring
  BY RingOps
<1>2. /\ size(r) = Len(Contents(r)) /\ size(push_back(r, x)) = Len(Contents(push_back(r, x)))
      /\ size(r) \in 0..Capacity /\ Contents(r) \in Seq(Item \union {NoItem})
      /\ full(r) => size(r) >= 1
  BY <1>1, ContentsType, SizeType, EmptyFull, CapacityAssumption
<1>3. CASE full(r)
  BY <1>2, <1>3, PushBackOverwrites, CapacityAssumption
<1>4. CASE ~full(r)
  BY <1>2, <1>4, PushBackContents, CapacityAssumption
<1> QED BY <1>3, <1>4

(* A pop from a non-empty ring shortens it by one (circular_q.h:74-78). *)
LEMMA PopSize ==
  ASSUME NEW r \in Ring, ~empty(r)
  PROVE  size(pop_front(r)) = size(r) - 1
<1>1. pop_front(r) \in Ring /\ Contents(pop_front(r)) = Tail(Contents(r))
  BY PopFrontContents
<1>2. /\ size(r) = Len(Contents(r)) /\ size(pop_front(r)) = Len(Contents(pop_front(r)))
      /\ size(r) \in 1..Capacity /\ Contents(r) \in Seq(Item \union {NoItem})
  BY <1>1, ContentsType, SizeType, EmptyFull, CapacityAssumption
<1> QED BY <1>1, <1>2

(* Threads owing a wake-up to the consumers, and to the producers. *)
ItemWakers == Cardinality(Notifying(Producers)) + Cardinality(Arriving(Consumers))
RoomWakers == Cardinality(Notifying(Consumers)) + Cardinality(Arriving(Producers))

(* The numbers of wake-ups under way are natural numbers. *)
LEMMA WakersType == ItemWakers \in Nat /\ RoomWakers \in Nat /\ ItemWakers' \in Nat /\ RoomWakers' \in Nat
<1>1. ItemWakers \in Nat /\ RoomWakers \in Nat
  BY WakersFinite DEF ItemWakers, RoomWakers
<1>2. (ItemWakers \in Nat /\ RoomWakers \in Nat)'
  BY <1>1, PTL
<1> QED BY <1>1, <1>2

(* ItemsAreAnnounced survives a step after which an open queue still has a  *)
(* sleeping consumer only if it had one before, and that adds no more items *)
(* than wake-ups.                                                           *)
LEMMA ItemsKept ==
  ASSUME Inv, Inv', ItemsAreAnnounced,
         ~is_stopped' /\ not_empty_cv' # {} =>
            /\ ~is_stopped /\ not_empty_cv # {}
            /\ size(q') - size(q) <= ItemWakers' - ItemWakers
  PROVE  ItemsAreAnnounced'
<1>1. size(q) \in Int /\ size(q') \in Int
  BY SizeType, CapacityAssumption DEF Inv, TypeOK
<1>2. ~is_stopped /\ not_empty_cv # {} => size(q) <= ItemWakers
  BY DEF ItemsAreAnnounced, ItemWakers
<1>3. ~is_stopped' /\ not_empty_cv' # {} => size(q') <= ItemWakers'
  BY <1>1, <1>2, WakersType
<1> QED BY <1>3 DEF ItemsAreAnnounced, ItemWakers

(* The same for RoomIsAnnounced, free cells and sleeping producers. *)
LEMMA RoomKept ==
  ASSUME Inv, Inv', RoomIsAnnounced,
         ~is_stopped' /\ not_full_cv' # {} =>
            /\ ~is_stopped /\ not_full_cv # {}
            /\ size(q) - size(q') <= RoomWakers' - RoomWakers
  PROVE  RoomIsAnnounced'
<1>1. size(q) \in Int /\ size(q') \in Int /\ Capacity \in Int
  BY SizeType, CapacityAssumption DEF Inv, TypeOK
<1>2. ~is_stopped /\ not_full_cv # {} => Capacity - size(q) <= RoomWakers
  BY DEF RoomIsAnnounced, RoomWakers
<1>3. ~is_stopped' /\ not_full_cv' # {} => Capacity - size(q') <= RoomWakers'
  BY <1>1, <1>2, WakersType
<1> QED BY <1>3 DEF RoomIsAnnounced, RoomWakers

(* An empty queue has no item to announce, a full one no room. *)
LEMMA NothingToAnnounce ==
  ASSUME Inv'
  PROVE  /\ empty(q') => ItemsAreAnnounced'
         /\ full(q') => RoomIsAnnounced'
<1>1. q' \in Ring /\ Capacity \in Nat
  BY CapacityAssumption DEF Inv, TypeOK
<1>2. empty(q') => size(q') = 0
  BY <1>1, EmptyFull
<1>3. full(q') => Capacity - size(q') = 0
  BY <1>1, EmptyFull
<1> QED BY <1>2, <1>3, WakersType DEF ItemsAreAnnounced, RoomIsAnnounced, ItemWakers, RoomWakers

(* How a thread's move from one label of pc to another changes the wakers. *)
LEMMA ProducerMoves ==
  ASSUME Inv, NEW p \in Producers, NEW label \in Labels, pc' = [pc EXCEPT ![p] = label]
  PROVE  /\ label = "notify" /\ pc[p] # "notify" => ItemWakers' = ItemWakers + 1
         /\ label # "notify" /\ pc[p] # "notify" => ItemWakers' = ItemWakers
         /\ label \in {"lock", "timedout"} => RoomWakers' >= RoomWakers
         /\ label \notin {"lock", "timedout"} /\ pc[p] \in {"lock", "timedout"} => RoomWakers' = RoomWakers - 1
         /\ label \notin {"lock", "timedout"} /\ pc[p] \notin {"lock", "timedout"} => RoomWakers' = RoomWakers
<1>1. p \notin Consumers /\ pc \in [Threads -> Labels]
  BY ThreadsAssumption DEF Inv, TypeOK
<1>2. /\ Arriving(Consumers)' = Arriving(Consumers) /\ Notifying(Consumers)' = Notifying(Consumers)
  BY <1>1 DEF Arriving, Notifying, Threads
<1>3. Notifying(Producers)' = IF label = "notify" THEN Notifying(Producers) \union {p}
                                                  ELSE Notifying(Producers) \ {p}
  BY <1>1 DEF Notifying, Threads
<1>4. Arriving(Producers)' = IF label \in {"lock", "timedout"} THEN Arriving(Producers) \union {p}
                                                               ELSE Arriving(Producers) \ {p}
  BY <1>1 DEF Arriving, Threads
<1>5. p \in Notifying(Producers) <=> pc[p] = "notify"
  BY DEF Notifying
<1>6. p \in Arriving(Producers) <=> pc[p] \in {"lock", "timedout"}
  BY DEF Arriving
<1>7. /\ label = "notify" /\ pc[p] # "notify" => ItemWakers' = ItemWakers + 1
      /\ label # "notify" /\ pc[p] # "notify" => ItemWakers' = ItemWakers
  BY <1>2, <1>3, <1>5, WakersFinite, CardJoin, CardLeave DEF ItemWakers
<1>8. CASE label \in {"lock", "timedout"}
  <2>1. \/ Cardinality(Arriving(Producers)') = Cardinality(Arriving(Producers))
        \/ Cardinality(Arriving(Producers)') = Cardinality(Arriving(Producers)) + 1
    BY <1>4, <1>8, WakersFinite, CardJoin
  <2>2. RoomWakers' >= RoomWakers
    BY <2>1, <1>2, WakersFinite DEF RoomWakers
  <2> QED BY <2>2, <1>7, <1>8
<1>9. CASE label \notin {"lock", "timedout"}
  <2>1. /\ pc[p] \in {"lock", "timedout"} => RoomWakers' = RoomWakers - 1
        /\ pc[p] \notin {"lock", "timedout"} => RoomWakers' = RoomWakers
    BY <1>2, <1>4, <1>6, <1>9, WakersFinite, CardLeave DEF RoomWakers
  <2> QED BY <2>1, <1>7, <1>9
<1> QED BY <1>8, <1>9

(* The same for a move of a consumer. *)
LEMMA ConsumerMoves ==
  ASSUME Inv, NEW c \in Consumers, NEW label \in Labels, pc' = [pc EXCEPT ![c] = label]
  PROVE  /\ label = "notify" /\ pc[c] # "notify" => RoomWakers' = RoomWakers + 1
         /\ label # "notify" /\ pc[c] # "notify" => RoomWakers' = RoomWakers
         /\ label \in {"lock", "timedout"} => ItemWakers' >= ItemWakers
         /\ label \notin {"lock", "timedout"} /\ pc[c] \in {"lock", "timedout"} => ItemWakers' = ItemWakers - 1
         /\ label \notin {"lock", "timedout"} /\ pc[c] \notin {"lock", "timedout"} => ItemWakers' = ItemWakers
<1>1. c \notin Producers /\ pc \in [Threads -> Labels]
  BY ThreadsAssumption DEF Inv, TypeOK
<1>2. /\ Arriving(Producers)' = Arriving(Producers) /\ Notifying(Producers)' = Notifying(Producers)
  BY <1>1 DEF Arriving, Notifying, Threads
<1>3. Notifying(Consumers)' = IF label = "notify" THEN Notifying(Consumers) \union {c}
                                                  ELSE Notifying(Consumers) \ {c}
  BY <1>1 DEF Notifying, Threads
<1>4. Arriving(Consumers)' = IF label \in {"lock", "timedout"} THEN Arriving(Consumers) \union {c}
                                                               ELSE Arriving(Consumers) \ {c}
  BY <1>1 DEF Arriving, Threads
<1>5. c \in Notifying(Consumers) <=> pc[c] = "notify"
  BY DEF Notifying
<1>6. c \in Arriving(Consumers) <=> pc[c] \in {"lock", "timedout"}
  BY DEF Arriving
<1>7. /\ label = "notify" /\ pc[c] # "notify" => RoomWakers' = RoomWakers + 1
      /\ label # "notify" /\ pc[c] # "notify" => RoomWakers' = RoomWakers
  BY <1>2, <1>3, <1>5, WakersFinite, CardJoin, CardLeave DEF RoomWakers
<1>8. CASE label \in {"lock", "timedout"}
  <2>1. \/ Cardinality(Arriving(Consumers)') = Cardinality(Arriving(Consumers))
        \/ Cardinality(Arriving(Consumers)') = Cardinality(Arriving(Consumers)) + 1
    BY <1>4, <1>8, WakersFinite, CardJoin
  <2>2. ItemWakers' >= ItemWakers
    BY <2>1, <1>2, WakersFinite DEF ItemWakers
  <2> QED BY <2>2, <1>7, <1>8
<1>9. CASE label \notin {"lock", "timedout"}
  <2>1. /\ pc[c] \in {"lock", "timedout"} => ItemWakers' = ItemWakers - 1
        /\ pc[c] \notin {"lock", "timedout"} => ItemWakers' = ItemWakers
    BY <1>2, <1>4, <1>6, <1>9, WakersFinite, CardLeave DEF ItemWakers
  <2> QED BY <2>1, <1>7, <1>9
<1> QED BY <1>8, <1>9

(* notify_one trades a thread that owes a notify for one about to lock. *)
LEMMA NotifyMoves ==
  ASSUME Inv, NEW p \in Producers, NEW c \in Consumers
  PROVE  /\ pc[p] = "notify" /\ pc[c] = "wait" /\ pc' = [pc EXCEPT ![p] = "out", ![c] = "lock"] =>
              ItemWakers' = ItemWakers /\ RoomWakers' = RoomWakers
         /\ pc[c] = "notify" /\ pc[p] = "wait" /\ pc' = [pc EXCEPT ![c] = "out", ![p] = "lock"] =>
              ItemWakers' = ItemWakers /\ RoomWakers' = RoomWakers
<1>1. p # c /\ p \notin Consumers /\ c \notin Producers /\ pc \in [Threads -> Labels] /\ p \in Threads /\ c \in Threads
  BY ThreadsAssumption DEF Inv, TypeOK, Threads
<1>2. ASSUME pc[p] = "notify", pc[c] = "wait", pc' = [pc EXCEPT ![p] = "out", ![c] = "lock"]
      PROVE ItemWakers' = ItemWakers /\ RoomWakers' = RoomWakers
  <2>1. \A t \in Threads : pc'[t] = IF t = p THEN "out" ELSE IF t = c THEN "lock" ELSE pc[t]
    BY <1>1, <1>2
  <2>2. Notifying(Producers)' = Notifying(Producers) \ {p} /\ p \in Notifying(Producers)
    BY <1>1, <1>2, <2>1 DEF Notifying, Threads
  <2>3. Arriving(Consumers)' = Arriving(Consumers) \union {c} /\ c \notin Arriving(Consumers)
    BY <1>1, <1>2, <2>1 DEF Arriving, Threads
  <2>4. Notifying(Consumers)' = Notifying(Consumers)
    BY <1>1, <1>2, <2>1 DEF Notifying, Threads
  <2>5. Arriving(Producers)' = Arriving(Producers)
    BY <1>1, <1>2, <2>1 DEF Arriving, Threads
  <2>6. Cardinality(Notifying(Producers)') = Cardinality(Notifying(Producers)) - 1
    BY <2>2, WakersFinite, CardLeave
  <2>7. Cardinality(Arriving(Consumers)') = Cardinality(Arriving(Consumers)) + 1
    BY <2>3, WakersFinite, CardJoin
  <2> QED BY <2>4, <2>5, <2>6, <2>7, WakersFinite DEF ItemWakers, RoomWakers
<1>3. ASSUME pc[c] = "notify", pc[p] = "wait", pc' = [pc EXCEPT ![c] = "out", ![p] = "lock"]
      PROVE ItemWakers' = ItemWakers /\ RoomWakers' = RoomWakers
  <2>1. \A t \in Threads : pc'[t] = IF t = c THEN "out" ELSE IF t = p THEN "lock" ELSE pc[t]
    BY <1>1, <1>3
  <2>2. Notifying(Consumers)' = Notifying(Consumers) \ {c} /\ c \in Notifying(Consumers)
    BY <1>1, <1>3, <2>1 DEF Notifying, Threads
  <2>3. Arriving(Producers)' = Arriving(Producers) \union {p} /\ p \notin Arriving(Producers)
    BY <1>1, <1>3, <2>1 DEF Arriving, Threads
  <2>4. Notifying(Producers)' = Notifying(Producers)
    BY <1>1, <1>3, <2>1 DEF Notifying, Threads
  <2>5. Arriving(Consumers)' = Arriving(Consumers)
    BY <1>1, <1>3, <2>1 DEF Arriving, Threads
  <2>6. Cardinality(Notifying(Consumers)') = Cardinality(Notifying(Consumers)) - 1
    BY <2>2, WakersFinite, CardLeave
  <2>7. Cardinality(Arriving(Producers)') = Cardinality(Arriving(Producers)) + 1
    BY <2>3, WakersFinite, CardJoin
  <2> QED BY <2>4, <2>5, <2>6, <2>7, WakersFinite DEF ItemWakers, RoomWakers
<1> QED BY <1>2, <1>3

(* No step of a producer loses a wake-up (mpmc_blocking_queue.h:110-251). *)
LEMMA AnnouncedProducerStep ==
  ASSUME Inv, Inv', WakeupsAreAnnounced, NEW p \in Producers, ProducerStep(p)
  PROVE  WakeupsAreAnnounced'
<1>0. /\ q \in Ring /\ size(q) \in Nat /\ size(q') \in Nat /\ Capacity \in Nat
      /\ full(q) <=> size(q) = Capacity
  BY SizeType, EmptyFull, CapacityAssumption DEF Inv, TypeOK
<1>1. CASE is_stopped'
  BY <1>1 DEF WakeupsAreAnnounced, ItemsAreAnnounced, RoomIsAnnounced
<1>2. CASE ~is_stopped' /\ pc[p] \in {"lock", "timedout"} /\ PushAndUnlock(p)
           /\ UNCHANGED <<not_full_cv, not_empty_cv, state>>
  <2>1. arg[p] \in Item /\ ~is_stopped /\ pc' = [pc EXCEPT ![p] = "notify"] /\ q' = push_back(q, arg[p])
    BY <1>2 DEF Inv, ThreadInv, is_stopped, PushAndUnlock, At
  <2>2. ItemWakers' = ItemWakers + 1 /\ RoomWakers' = RoomWakers - 1
    BY <2>1, <1>2, ProducerMoves DEF Labels
  <2>3. size(q') <= size(q) + 1 /\ (~full(q) => size(q') = size(q) + 1)
    BY <2>1, <1>0, PushSize
  <2>4. ItemsAreAnnounced'
    BY <2>1, <2>2, <2>3, <1>0, <1>2, ItemsKept, WakersType DEF WakeupsAreAnnounced
  <2>5. CASE ~full(q)
    <3>1. RoomIsAnnounced'
      BY <2>1, <2>2, <2>3, <2>5, <1>0, <1>2, RoomKept, WakersType DEF WakeupsAreAnnounced
    <3> QED BY <2>4, <3>1 DEF WakeupsAreAnnounced
  <2>6. CASE full(q)
    <3>1. q' \in Ring /\ full(q')
      <4>1. q' \in Ring /\ size(q') >= size(q)
        BY <2>1, <1>0, PushSize, RingOps
      <4>2. size(q') \in 0..Capacity
        BY <4>1, SizeType
      <4> QED BY <4>1, <4>2, <2>6, <1>0, EmptyFull
    <3> QED BY <2>4, <3>1, NothingToAnnounce DEF WakeupsAreAnnounced
  <2> QED BY <2>5, <2>6
<1>3. CASE /\ ~is_stopped' /\ full(q) /\ pc[p] \in {"lock", "timedout"}
           /\ \E label \in {"wait", "out"} : pc' = [pc EXCEPT ![p] = label]
           /\ UNCHANGED <<q, state, not_empty_cv>>
  <2>1. ItemWakers' = ItemWakers
    BY <1>3, ProducerMoves DEF Labels
  <2>2. ItemsAreAnnounced'
    BY <2>1, <1>0, <1>3, ItemsKept, WakersType DEF WakeupsAreAnnounced, is_stopped
  <2>3. full(q')
    BY <1>3
  <2> QED BY <2>2, <2>3, NothingToAnnounce DEF WakeupsAreAnnounced
<1>4. CASE ~is_stopped' /\ NotifyNotEmpty(p) /\ not_empty_cv = {}
  <2>1. pc' = [pc EXCEPT ![p] = "out"] /\ pc[p] = "notify" /\ not_empty_cv' = {} /\ UNCHANGED <<q, state, not_full_cv>>
    BY <1>4 DEF NotifyNotEmpty, At
  <2>2. RoomWakers' = RoomWakers
    BY <2>1, ProducerMoves DEF Labels
  <2>3. RoomIsAnnounced'
    BY <2>1, <2>2, <1>0, RoomKept, WakersType DEF WakeupsAreAnnounced, is_stopped
  <2> QED BY <2>1, <2>3 DEF WakeupsAreAnnounced, ItemsAreAnnounced
<1>5. CASE ~is_stopped' /\ NotifyNotEmpty(p) /\ not_empty_cv # {}
  <2>1. PICK c \in not_empty_cv : /\ not_empty_cv' = not_empty_cv \ {c}
                                  /\ pc' = [pc EXCEPT ![p] = "out", ![c] = "lock"]
    BY <1>5 DEF NotifyNotEmpty
  <2>2. c \in Consumers /\ pc[c] = "wait" /\ pc[p] = "notify" /\ UNCHANGED <<q, state, not_full_cv>>
    BY <1>5 DEF NotifyNotEmpty, Inv, ThreadInv
  <2>3. ItemWakers' = ItemWakers /\ RoomWakers' = RoomWakers
    BY <2>1, <2>2, NotifyMoves
  <2>4. ItemsAreAnnounced'
    BY <2>2, <2>3, <1>0, <1>5, ItemsKept, WakersType DEF WakeupsAreAnnounced, is_stopped
  <2>5. RoomIsAnnounced'
    BY <2>2, <2>3, <1>0, RoomKept, WakersType DEF WakeupsAreAnnounced, is_stopped
  <2> QED BY <2>4, <2>5 DEF WakeupsAreAnnounced
<1> QED
  BY <1>1, <1>2, <1>3, <1>4, <1>5 DEF ProducerStep, EnqueueLocked, EnqueueOverwriteLocked,
     TryEnqueueLocked, ReturnFalse, Return, At, is_stopped, NotifyNotEmpty

(* No step of a consumer does (mpmc_blocking_queue.h:253-311). *)
LEMMA AnnouncedConsumerStep ==
  ASSUME Inv, Inv', WakeupsAreAnnounced, NEW c \in Consumers, ConsumerStep(c)
  PROVE  WakeupsAreAnnounced'
<1>0. /\ q \in Ring /\ size(q) \in Nat /\ size(q') \in Nat /\ Capacity \in Nat
  BY SizeType, EmptyFull, CapacityAssumption DEF Inv, TypeOK
<1>1. CASE is_stopped'
  BY <1>1 DEF WakeupsAreAnnounced, ItemsAreAnnounced, RoomIsAnnounced
<1>2. CASE ~is_stopped' /\ pc[c] \in {"lock", "timedout"} /\ PopAndUnlock(c) /\ ~empty(q)
           /\ UNCHANGED <<not_full_cv, not_empty_cv, state>>
  <2>1. ~is_stopped /\ pc' = [pc EXCEPT ![c] = "notify"] /\ q' = pop_front(q)
    BY <1>2 DEF is_stopped, PopAndUnlock, At
  <2>2. RoomWakers' = RoomWakers + 1 /\ ItemWakers' = ItemWakers - 1
    BY <2>1, <1>2, ConsumerMoves DEF Labels
  <2>3. size(q') = size(q) - 1
    BY <2>1, <1>0, <1>2, PopSize
  <2>4. ItemsAreAnnounced'
    BY <2>1, <2>2, <2>3, <1>0, <1>2, ItemsKept, WakersType DEF WakeupsAreAnnounced
  <2>5. RoomIsAnnounced'
    BY <2>1, <2>2, <2>3, <1>0, <1>2, RoomKept, WakersType DEF WakeupsAreAnnounced
  <2> QED BY <2>4, <2>5 DEF WakeupsAreAnnounced
<1>3. CASE /\ ~is_stopped' /\ empty(q) /\ pc[c] \in {"lock", "timedout"}
           /\ \E label \in {"wait", "out", "notify"} : pc' = [pc EXCEPT ![c] = label]
           /\ UNCHANGED <<q, state, not_full_cv>>
  <2>1. RoomWakers' = RoomWakers \/ RoomWakers' = RoomWakers + 1
    BY <1>3, ConsumerMoves DEF Labels
  <2>2. RoomIsAnnounced'
    BY <2>1, <1>0, <1>3, RoomKept, WakersType DEF WakeupsAreAnnounced, is_stopped
  <2>3. empty(q')
    BY <1>3
  <2> QED BY <2>2, <2>3, NothingToAnnounce DEF WakeupsAreAnnounced
<1>4. CASE ~is_stopped' /\ NotifyNotFull(c) /\ not_full_cv = {}
  <2>1. pc' = [pc EXCEPT ![c] = "out"] /\ pc[c] = "notify" /\ not_full_cv' = {} /\ UNCHANGED <<q, state, not_empty_cv>>
    BY <1>4 DEF NotifyNotFull, At
  <2>2. ItemWakers' = ItemWakers
    BY <2>1, ConsumerMoves DEF Labels
  <2>3. ItemsAreAnnounced'
    BY <2>1, <2>2, <1>0, ItemsKept, WakersType DEF WakeupsAreAnnounced, is_stopped
  <2> QED BY <2>1, <2>3 DEF WakeupsAreAnnounced, RoomIsAnnounced
<1>5. CASE ~is_stopped' /\ NotifyNotFull(c) /\ not_full_cv # {}
  <2>1. PICK p \in not_full_cv : /\ not_full_cv' = not_full_cv \ {p}
                                 /\ pc' = [pc EXCEPT ![c] = "out", ![p] = "lock"]
    BY <1>5 DEF NotifyNotFull
  <2>2. p \in Producers /\ pc[p] = "wait" /\ pc[c] = "notify" /\ UNCHANGED <<q, state, not_empty_cv>>
    BY <1>5 DEF NotifyNotFull, Inv, ThreadInv
  <2>3. ItemWakers' = ItemWakers /\ RoomWakers' = RoomWakers
    BY <2>1, <2>2, NotifyMoves
  <2>4. RoomIsAnnounced'
    BY <2>2, <2>3, <1>0, <1>5, RoomKept, WakersType DEF WakeupsAreAnnounced, is_stopped
  <2>5. ItemsAreAnnounced'
    BY <2>2, <2>3, <1>0, ItemsKept, WakersType DEF WakeupsAreAnnounced, is_stopped
  <2> QED BY <2>4, <2>5 DEF WakeupsAreAnnounced
<1> QED
  BY <1>1, <1>2, <1>3, <1>4, <1>5 DEF ConsumerStep, DequeueLocked, TryDequeueLocked,
     UnlockEmptyHanded, Return, At, is_stopped, NotifyNotFull

(* A thread that starts a call, or leaves a wait set, only adds wake-ups. *)
LEMMA AnnouncedArrival ==
  ASSUME Inv, Inv', WakeupsAreAnnounced, NEW t \in Producers \union Consumers, NEW label \in {"lock", "timedout"},
         pc[t] # "notify", pc' = [pc EXCEPT ![t] = label], UNCHANGED <<q, state>>,
         not_full_cv' \subseteq not_full_cv, not_empty_cv' \subseteq not_empty_cv
  PROVE  WakeupsAreAnnounced'
<1>0. size(q) \in Nat /\ size(q') = size(q)
  BY SizeType, CapacityAssumption DEF Inv, TypeOK
<1>1. ItemWakers' >= ItemWakers /\ RoomWakers' >= RoomWakers
  <2>0. label \in Labels /\ label # "notify"
    BY DEF Labels
  <2>1. CASE t \in Producers
    <3>1. ItemWakers' = ItemWakers /\ RoomWakers' >= RoomWakers
      BY <2>0, <2>1, ProducerMoves
    <3> QED BY <3>1, WakersType
  <2>2. CASE t \in Consumers
    <3>1. RoomWakers' = RoomWakers /\ ItemWakers' >= ItemWakers
      BY <2>0, <2>2, ConsumerMoves
    <3> QED BY <3>1, WakersType
  <2> QED BY <2>1, <2>2
<1>2. ItemsAreAnnounced'
  BY <1>0, <1>1, ItemsKept, WakersType DEF WakeupsAreAnnounced, is_stopped
<1>3. RoomIsAnnounced'
  BY <1>0, <1>1, RoomKept, WakersType DEF WakeupsAreAnnounced, is_stopped
<1> QED BY <1>2, <1>3 DEF WakeupsAreAnnounced

(* A stop makes both conditions vacuous. *)
LEMMA AnnouncedStop ==
  ASSUME Inv, Inv', WakeupsAreAnnounced, NEW s \in Stoppers, StopperStep(s) \/ \E f \in StopOps : StopLocked(s, f)
  PROVE  WakeupsAreAnnounced'
<1>1. is_stopped'
  BY DEF StopperStep, StopNotifyNotEmpty, StopNotifyNotFull, StopLocked, is_stopped, Inv, ThreadInv
<1> QED BY <1>1 DEF WakeupsAreAnnounced, ItemsAreAnnounced, RoomIsAnnounced

(* No step of the queue loses a wake-up. *)
LEMMA AnnouncedNext == Inv /\ Inv' /\ WakeupsAreAnnounced /\ [QueueNext]_queueVars => WakeupsAreAnnounced'
<1> SUFFICES ASSUME Inv, Inv', WakeupsAreAnnounced, [QueueNext]_queueVars PROVE WakeupsAreAnnounced'
  OBVIOUS
<1>1. CASE UNCHANGED queueVars
  BY <1>1 DEF queueVars, WakeupsAreAnnounced, ItemsAreAnnounced, RoomIsAnnounced, is_stopped, Notifying, Arriving
<1>2. ASSUME NEW p \in Producers, NEW f \in PutOps, NEW x \in Item, EnqueueCall(p, f, x)
      PROVE WakeupsAreAnnounced'
  <2>1. CASE is_stopped
    BY <1>2, <2>1 DEF EnqueueCall, is_stopped, WakeupsAreAnnounced, ItemsAreAnnounced, RoomIsAnnounced
  <2>2. CASE ~is_stopped
    BY <1>2, <2>2, AnnouncedArrival DEF EnqueueCall, At
  <2> QED BY <2>1, <2>2
<1>3. ASSUME NEW c \in Consumers, NEW f \in GetOps, DequeueCall(c, f) PROVE WakeupsAreAnnounced'
  BY <1>3, AnnouncedArrival DEF DequeueCall, At
<1>4. ASSUME NEW t \in Producers \union Consumers, TimeOut(t) \/ SpuriousWakeup(t) PROVE WakeupsAreAnnounced'
  <2>1. /\ pc[t] # "notify" /\ UNCHANGED <<q, state>>
        /\ pc' = [pc EXCEPT ![t] = "lock"] \/ pc' = [pc EXCEPT ![t] = "timedout"]
        /\ not_full_cv' \subseteq not_full_cv /\ not_empty_cv' \subseteq not_empty_cv
    BY <1>4 DEF TimeOut, SpuriousWakeup, At
  <2> QED BY <2>1, AnnouncedArrival
<1> QED
  BY <1>1, <1>2, <1>3, <1>4, AnnouncedProducerStep, AnnouncedConsumerStep, AnnouncedStop DEF QueueNext

-----------------------------------------------------------------------------
(***************************************************************************)
(* No wake-up is lost, whatever the number of threads and the capacity:    *)
(* while consumers sleep on an open queue there are at least as many       *)
(* wake-ups on their way as items, and while producers sleep at least as   *)
(* many as free cells (mpmc_blocking_queue.h:110-311).                     *)
(***************************************************************************)
THEOREM NoLostWakeup == QueueSpec => []WakeupsAreAnnounced
<1>1. QueueInit => WakeupsAreAnnounced
  BY DEF QueueInit, WakeupsAreAnnounced, ItemsAreAnnounced, RoomIsAnnounced
<1>2. QueueSpec => []Inv
  BY InvInit, InvNext, PTL DEF QueueSpec
<1> QED BY <1>1, <1>2, AnnouncedNext, PTL DEF QueueSpec

-----------------------------------------------------------------------------
(* Every step keeps the notify_all of a stop ahead of those it must wake. *)
LEMMA StopWakesNext == Inv /\ StopWakesEveryone /\ [QueueNext]_queueVars => StopWakesEveryone'
<1> SUFFICES ASSUME Inv, StopWakesEveryone, [QueueNext]_queueVars PROVE StopWakesEveryone'
  OBVIOUS
<1>0. /\ \A s \in Stoppers : s \notin Producers /\ s \notin Consumers
      /\ pc \in [Threads -> Labels] /\ not_full_cv \subseteq Producers /\ not_empty_cv \subseteq Consumers
  BY ThreadsAssumption DEF Inv, TypeOK
<1>1. CASE UNCHANGED queueVars
  BY <1>1 DEF queueVars, StopWakesEveryone, is_stopped
<1>2. ASSUME NEW t \in Producers \union Consumers,
             \A s \in Stoppers : pc'[s] = pc[s],
             UNCHANGED state,
             is_stopped => not_full_cv' \subseteq not_full_cv /\ not_empty_cv' \subseteq not_empty_cv
      PROVE  StopWakesEveryone'
  BY <1>2 DEF StopWakesEveryone, is_stopped
<1>3. ASSUME NEW p \in Producers, ProducerStep(p) PROVE StopWakesEveryone'
  BY <1>3, <1>2, <1>0 DEF ProducerStep, EnqueueLocked, EnqueueOverwriteLocked, TryEnqueueLocked, NotifyNotEmpty,
     PushAndUnlock, ReturnFalse, Return, At, Threads
<1>4. ASSUME NEW c \in Consumers, ConsumerStep(c) PROVE StopWakesEveryone'
  BY <1>4, <1>2, <1>0 DEF ConsumerStep, DequeueLocked, TryDequeueLocked, NotifyNotFull, PopAndUnlock,
     UnlockEmptyHanded, Return, At, Threads
<1>5. ASSUME NEW p \in Producers, NEW f \in PutOps, NEW x \in Item, EnqueueCall(p, f, x)
      PROVE StopWakesEveryone'
  BY <1>5, <1>2, <1>0 DEF EnqueueCall, At, Threads
<1>6. ASSUME NEW c \in Consumers, NEW f \in GetOps, DequeueCall(c, f) PROVE StopWakesEveryone'
  BY <1>6, <1>2, <1>0 DEF DequeueCall, At, Threads
<1>7. ASSUME NEW t \in Producers \union Consumers, TimeOut(t) \/ SpuriousWakeup(t)
      PROVE StopWakesEveryone'
  BY <1>7, <1>2, <1>0 DEF TimeOut, SpuriousWakeup, At, Threads
<1>8. ASSUME NEW s \in Stoppers, NEW f \in StopOps, StopLocked(s, f) PROVE StopWakesEveryone'
  BY <1>8, <1>0 DEF StopLocked, At, StopWakesEveryone, is_stopped, Threads
<1>9. ASSUME NEW s \in Stoppers, StopNotifyNotEmpty(s) PROVE StopWakesEveryone'
  BY <1>9, <1>0 DEF StopNotifyNotEmpty, StopWakesEveryone, is_stopped, Threads
<1>10. ASSUME NEW s \in Stoppers, StopNotifyNotFull(s) PROVE StopWakesEveryone'
  BY <1>10, <1>0 DEF StopNotifyNotFull, StopWakesEveryone, is_stopped, Threads
<1> QED
  BY <1>1, <1>3, <1>4, <1>5, <1>6, <1>7, <1>8, <1>9, <1>10 DEF QueueNext, StopperStep

(* A thread asleep on a stopped queue will be woken by the stop itself     *)
(* (mpmc_blocking_queue.h:313-337).                                        *)
THEOREM StopWakes == QueueSpec => []StopWakesEveryone
<1>1. QueueInit => StopWakesEveryone
  BY DEF QueueInit, StopWakesEveryone
<1>2. QueueSpec => []Inv
  BY InvInit, InvNext, PTL DEF QueueSpec
<1> QED BY <1>1, <1>2, StopWakesNext, PTL DEF QueueSpec

-----------------------------------------------------------------------------
(* The pool: where a task is, and the invariant that says it.                *)
Listed(s) == {s[k] : k \in 1..Len(s)}
Distinct(s) == \A j, k \in 1..Len(s) : s[j] = s[k] => j = k

Queued == Listed(Contents(q))
HeldTasks == {result[w] : w \in {v \in Workers : Held(v)}}

(* A producer that still has its task.                                       *)
Brings(p) == pc[p] \in {"lock", "timedout", "wait"}

PoolTypes ==
  /\ wpc \in [Workers -> {"loop", "dequeue", "run", "exited"}]
  /\ opc \in [Owners -> {"open", "joining", "stopped", "destroyed"}]

(* The places of a task exclude each other, and every accepted task has one. *)
PlaceInv ==
  /\ accepted = executed \union overrun \union Queued \union HeldTasks
  /\ executed \intersect overrun = {}
  /\ (executed \union overrun) \intersect (Queued \union HeldTasks) = {}
  /\ Queued \intersect HeldTasks = {}
  /\ Distinct(Contents(q))
  /\ \A v, w \in Workers : Held(v) /\ Held(w) /\ result[v] = result[w] => v = w

(* What the producers still bring is new and different.                      *)
BringInv ==
  /\ accepted \subseteq offered
  /\ \A p \in Producers : Brings(p) => arg[p] \in offered \ accepted
  /\ \A p, r \in Producers : Brings(p) /\ Brings(r) /\ arg[p] = arg[r] => p = r

(* A worker is in the queue only to dequeue, and leaves the pool only when   *)
(* the queue is stopped and has nothing left to drain.                       *)
Leaving(w) == wpc[w] = "exited" \/ (wpc[w] = "dequeue" /\ pc[w] = "out" /\ result[w] = NoItem)
WorkerInv ==
  /\ \A w \in Workers :
       /\ pc[w] \in {"out", "lock", "wait", "notify"}
       /\ wpc[w] # "dequeue" => pc[w] = "out"
       /\ pc[w] \in {"lock", "wait"} => op[w] = "dequeue"
       /\ pc[w] = "notify" => result[w] # NoItem
       /\ Leaving(w) => is_stopped /\ (state = "Drain" => empty(q))
  /\ \A o \in Owners : opc[o] \in {"stopped", "destroyed"} => \A w \in Workers : wpc[w] = "exited"

PoolInv == Inv /\ PoolTypes /\ PlaceInv /\ BringInv /\ WorkerInv

(* What is listed after an append.                                           *)
LEMMA ListAppend ==
  ASSUME NEW S, NEW s \in Seq(S), NEW x \in S
  PROVE  /\ Listed(Append(s, x)) = Listed(s) \union {x}
         /\ Distinct(s) /\ x \notin Listed(s) => Distinct(Append(s, x))
<1> DEFINE a == Append(s, x)
<1>1. /\ Len(s) \in Nat /\ Len(a) = Len(s) + 1 /\ a[Len(s) + 1] = x
      /\ \A i \in 1..Len(s) : a[i] = s[i]
  OBVIOUS
<1> HIDE DEF a
<1>2. \A i : i \in 1..Len(a) <=> i \in 1..Len(s) \/ i = Len(s) + 1
  BY <1>1
<1>3. Listed(a) = Listed(s) \union {x}
  <2>1. \A y : y \in Listed(a) <=> \E i \in 1..Len(a) : a[i] = y
    BY DEF Listed
  <2>2. \A y : y \in Listed(s) <=> \E i \in 1..Len(s) : s[i] = y
    BY DEF Listed
  <2> QED BY <1>1, <1>2, <2>1, <2>2
<1>4. ASSUME Distinct(s), x \notin Listed(s) PROVE Distinct(a)
  <2>1. \A i \in 1..Len(s) : a[i] # x
    BY <1>1, <1>4 DEF Listed
  <2> QED BY <1>1, <1>2, <1>4, <2>1 DEF Distinct
<1> QED BY <1>3, <1>4 DEF a

(* What is listed after the head is taken.                                   *)
LEMMA ListTail ==
  ASSUME NEW S, NEW s \in Seq(S), s # <<>>, Distinct(s)
  PROVE  /\ Tail(s) \in Seq(S) /\ Head(s) \in S /\ Head(s) \in Listed(s)
         /\ Listed(Tail(s)) = Listed(s) \ {Head(s)}
         /\ Distinct(Tail(s))
<1> DEFINE a == Tail(s)
<1>1. /\ Len(s) \in Nat \ {0} /\ Len(a) = Len(s) - 1 /\ Head(s) = s[1] /\ a \in Seq(S) /\ Head(s) \in S
      /\ \A i \in 1..Len(a) : a[i] = s[i + 1]
  OBVIOUS
<1> HIDE DEF a
<1>2. /\ \A i \in 1..Len(a) : i + 1 \in 1..Len(s) /\ i + 1 # 1
      /\ \A i \in 1..Len(s) : i = 1 \/ (i - 1 \in 1..Len(a) /\ (i - 1) + 1 = i)
      /\ 1 \in 1..Len(s)
  BY <1>1
<1>3. \A y : y \in Listed(a) <=> \E i \in 1..Len(a) : s[i + 1] = y
  BY <1>1 DEF Listed
<1>4. \A y : y \in Listed(s) <=> \E i \in 1..Len(s) : s[i] = y
  BY DEF Listed
<1>5. \A y : y \in Listed(a) => y \in Listed(s) /\ y # s[1]
  BY <1>2, <1>3, <1>4 DEF Distinct
<1>6. \A y : y \in Listed(s) /\ y # s[1] => y \in Listed(a)
  BY <1>2, <1>3, <1>4
<1>7. Listed(a) = Listed(s) \ {Head(s)}
  BY <1>1, <1>5, <1>6
<1>8. Distinct(a)
  <2> SUFFICES ASSUME NEW i \in 1..Len(a), NEW j \in 1..Len(a), a[i] = a[j] PROVE i = j
    BY DEF Distinct
  <2>1. i + 1 = j + 1
    BY <1>1, <1>2 DEF Distinct
  <2> QED BY <2>1
<1> QED BY <1>1, <1>2, <1>4, <1>7, <1>8 DEF a

(* What a step can do to the tasks.                                          *)
HeldSame == \A w \in Workers : (Held(w)' <=> Held(w)) /\ (Held(w) => result'[w] = result[w])

Pushes(p) ==
  /\ Brings(p)
  /\ q' = push_back(q, arg[p])
  /\ accepted' = accepted \union {arg[p]}
  /\ overrun' = IF full(q) THEN overrun \union {front(q)} ELSE overrun
  /\ executed' = executed

Pops(w) ==
  /\ ~empty(q) /\ q' = pop_front(q)
  /\ ~Held(w) /\ Held(w)' /\ result' = [result EXCEPT ![w] = front(q)]
  /\ \A v \in Workers \ {w} : Held(v)' <=> Held(v)
  /\ UNCHANGED <<accepted, overrun, executed>>

Runs(w) ==
  /\ Held(w) /\ ~Held(w)'
  /\ \A v \in Workers \ {w} : Held(v)' <=> Held(v)
  /\ executed' = executed \union {result[w]}
  /\ UNCHANGED <<q, result, accepted, overrun>>

(* A task is held by some worker.                                            *)
LEMMA HeldIs == \A x : /\ x \in HeldTasks <=> \E w \in Workers : Held(w) /\ result[w] = x
                       /\ x \in HeldTasks' <=> \E w \in Workers : Held(w)' /\ result'[w] = x
BY DEF HeldTasks

(* The tasks in the queue are those of its contents.                         *)
LEMMA ContentsIs ==
  ASSUME Inv
  PROVE  Contents(q) \in Seq(Item \union {NoItem}) /\ Len(Contents(q)) = size(q) /\ (empty(q) <=> Contents(q) = <<>>)
BY ContentsType, EmptyFull DEF Inv, TypeOK

(* A push moves one task from its producer to the queue, and the oldest one  *)
(* out of a full queue.                                                      *)
LEMMA PushKeeps ==
  ASSUME Inv, PlaceInv, BringInv, NEW p \in Producers, Pushes(p), HeldSame
  PROVE  PlaceInv'
<1> DEFINE s == Contents(q)
<1>1. /\ q \in Ring /\ s \in Seq(Item \union {NoItem}) /\ (empty(q) <=> s = <<>>)
      /\ arg[p] \in Item /\ arg[p] \notin accepted
  BY ContentsIs DEF Inv, TypeOK, ThreadInv, Pushes, Brings, BringInv
<1>2. PICK x \in Item : x = arg[p]
  BY <1>1
<1>3. HeldTasks' = HeldTasks /\ \A v, w \in Workers : Held(v)' /\ Held(w)' /\ result'[v] = result'[w] => v = w
  BY HeldIs DEF HeldSame, PlaceInv
<1>4. x \notin Queued /\ x \notin HeldTasks /\ x \notin executed /\ x \notin overrun
  BY <1>1, <1>2 DEF PlaceInv
<1>5. Contents(q)' = Contents(q')
  BY DEF Contents, size
<1>6. Queued' = Listed(Contents(q')) /\ (Distinct(Contents(q))' <=> Distinct(Contents(q')))
  BY <1>5 DEF Queued, Listed, Distinct
<1>7. CASE ~full(q)
  <2>1. Contents(q') = Append(s, x)
    BY <1>1, <1>2, <1>7, PushBackContents DEF Pushes
  <2>2. Listed(Append(s, x)) = Queued \union {x} /\ Distinct(Append(s, x))
    BY <1>1, <1>4, ListAppend DEF PlaceInv, Queued
  <2>3. Queued' = Queued \union {x} /\ Distinct(Contents(q))'
    BY <1>6, <2>1, <2>2
  <2>4. UNCHANGED <<executed, overrun>> /\ accepted' = accepted \union {x}
    BY <1>2, <1>7 DEF Pushes
  <2> HIDE DEF s
  <2> QED BY <1>3, <1>4, <2>3, <2>4 DEF PlaceInv
<1>8. CASE full(q)
  <2>1. Contents(q') = Append(Tail(s), x) /\ s # <<>> /\ front(q) = Head(s)
    BY <1>1, <1>2, <1>8, PushBackOverwrites, PopFrontContents, EmptyFull, CapacityAssumption DEF Pushes
  <2>2. Tail(s) \in Seq(Item \union {NoItem}) /\ Head(s) \in Queued /\ Listed(Tail(s)) = Queued \ {Head(s)}
        /\ Distinct(Tail(s))
    BY <1>1, <2>1, ListTail DEF PlaceInv, Queued
  <2>3. Listed(Append(Tail(s), x)) = (Queued \ {Head(s)}) \union {x} /\ Distinct(Append(Tail(s), x))
    <3>1. x \notin Listed(Tail(s))
      BY <1>4, <2>2
    <3>2. x \in Item \union {NoItem}
      OBVIOUS
    <3> HIDE DEF s
    <3>3. /\ Listed(Append(Tail(s), x)) = Listed(Tail(s)) \union {x}
          /\ Distinct(Tail(s)) /\ x \notin Listed(Tail(s)) => Distinct(Append(Tail(s), x))
      BY <2>2, <3>2, ListAppend
    <3> QED BY <2>2, <3>1, <3>3
  <2>4. Queued' = (Queued \ {Head(s)}) \union {x} /\ Distinct(Contents(q))'
    BY <1>6, <2>1, <2>3
  <2>5. PICK y : y = Head(s)
    OBVIOUS
  <2>6. executed' = executed /\ overrun' = overrun \union {y} /\ accepted' = accepted \union {x}
    BY <1>2, <1>8, <2>1, <2>5 DEF Pushes
  <2>7. y \in Queued /\ Queued' = (Queued \ {y}) \union {x}
    BY <2>2, <2>4, <2>5
  <2> HIDE DEF s
  <2> QED BY <1>3, <1>4, <2>4, <2>6, <2>7 DEF PlaceInv
<1> QED BY <1>7, <1>8

(* A pop moves the oldest task from the queue to a worker.                   *)
LEMMA PopKeeps ==
  ASSUME Inv, PlaceInv, NEW w \in Workers, Pops(w)
  PROVE  PlaceInv'
<1> DEFINE s == Contents(q)
<1>1. /\ q \in Ring /\ s \in Seq(Item \union {NoItem}) /\ s # <<>> /\ result \in [Workers -> Item \union {NoItem}]
  BY ContentsIs DEF Inv, TypeOK, Pops, Workers
<1>2. Contents(q') = Tail(s) /\ front(q) = Head(s)
  BY <1>1, PopFrontContents DEF Pops
<1>3. Head(s) \in Queued /\ Listed(Tail(s)) = Queued \ {Head(s)} /\ Distinct(Tail(s))
  BY <1>1, ListTail DEF PlaceInv, Queued
<1>4. Contents(q)' = Contents(q')
  BY DEF Contents, size
<1>5. Queued' = Queued \ {Head(s)} /\ Distinct(Contents(q))'
  BY <1>2, <1>3, <1>4 DEF Queued, Listed, Distinct
<1>6. PICK y : y = Head(s)
  OBVIOUS
<1>7. result'[w] = y /\ \A v \in Workers \ {w} : result'[v] = result[v]
  BY <1>1, <1>2, <1>6 DEF Pops
<1>8. y \in Queued /\ y \notin HeldTasks
  BY <1>3, <1>6 DEF PlaceInv
<1>9. HeldTasks' = HeldTasks \union {y}
  BY <1>7, HeldIs DEF Pops
<1>10. \A v, u \in Workers : Held(v)' /\ Held(u)' /\ result'[v] = result'[u] => v = u
  BY <1>7, <1>8, HeldIs DEF Pops, PlaceInv
<1> HIDE DEF s
<1> QED BY <1>5, <1>6, <1>8, <1>9, <1>10 DEF Pops, PlaceInv

(* A run moves a task from its worker to those executed.                     *)
LEMMA RunKeeps ==
  ASSUME PlaceInv, NEW w \in Workers, Runs(w)
  PROVE  PlaceInv'
<1>1. PICK y : y = result[w]
  OBVIOUS
<1>2. y \in HeldTasks /\ HeldTasks' = HeldTasks \ {y}
  BY <1>1, HeldIs DEF Runs, PlaceInv
<1>3. \A v, u \in Workers : Held(v)' /\ Held(u)' /\ result'[v] = result'[u] => v = u
  BY DEF Runs, PlaceInv
<1>4. Queued' = Queued /\ Distinct(Contents(q))' = Distinct(Contents(q))
  BY DEF Runs, Queued, Listed, Distinct, Contents, size
<1>5. executed' = executed \union {y} /\ UNCHANGED <<accepted, overrun>>
  BY <1>1 DEF Runs
<1> QED BY <1>2, <1>3, <1>4, <1>5 DEF PlaceInv

(* Other steps leave the tasks where they are.                               *)
LEMMA QuietKeeps ==
  ASSUME PlaceInv, HeldSame, UNCHANGED <<q, executed, overrun, accepted>>
  PROVE  PlaceInv'
<1>1. Queued' = Queued /\ Distinct(Contents(q))' = Distinct(Contents(q))
  BY DEF Queued, Listed, Distinct, Contents, size
<1>2. HeldTasks' = HeldTasks
  BY HeldIs DEF HeldSame
<1>3. \A v, w \in Workers : Held(v)' /\ Held(w)' /\ result'[v] = result'[w] => v = w
  BY DEF HeldSame, PlaceInv
<1> QED BY <1>1, <1>2, <1>3 DEF PlaceInv

(* The overrun counter tells whether push_back pushed an item out.           *)
LEMMA OverrunTells ==
  ASSUME NEW r \in Ring, NEW x
  PROVE  push_back(r, x).overrun > r.overrun <=> full(r)
BY DEF push_back, full, Ring

(* What a step leaves of the workers: none of their calls returns or begins, *)
(* though a waiting one may be woken.                                        *)
WorkersQuiet ==
  /\ \A w \in Workers : pc'[w] = pc[w] \/ (pc[w] = "wait" /\ pc'[w] = "lock")
  /\ \A w \in Workers : op'[w] = op[w]
  /\ UNCHANGED <<result, wpc>>

(* What it leaves of the producers other than one that took a step: what     *)
(* they bring.                                                               *)
BringsOn(r) == Brings(r)' => Brings(r) /\ arg'[r] = arg[r]

(* Then the same workers hold the same tasks.                                *)
LEMMA QuietHolds == ASSUME WorkersQuiet PROVE HeldSame
<1> SUFFICES ASSUME NEW w \in Workers PROVE (Held(w)' <=> Held(w)) /\ result'[w] = result[w]
  BY DEF HeldSame
<1> QED BY DEF WorkersQuiet, Held

(* Workers that stay as they are keep their invariant.                       *)
LEMMA QuietWorkers ==
  ASSUME WorkerInv, WorkersQuiet,
         \A o \in Owners : opc'[o] \in {"stopped", "destroyed"} =>
            opc[o] \in {"stopped", "destroyed"} \/ \A w \in Workers : wpc[w] = "exited",
         is_stopped => state' = state /\ (empty(q) => empty(q'))
  PROVE  WorkerInv'
<1>1. \A w \in Workers : Leaving(w)' => Leaving(w)
  BY DEF WorkersQuiet, Leaving
<1>2. \A w \in Workers : Leaving(w)' => is_stopped' /\ (state' = "Drain" => empty(q'))
  BY <1>1 DEF WorkerInv, is_stopped
<1>3. empty(q)' = empty(q')
  BY DEF empty
<1>4. \A w \in Workers :
       /\ pc'[w] \in {"out", "lock", "wait", "notify"}
       /\ wpc'[w] # "dequeue" => pc'[w] = "out"
       /\ pc'[w] \in {"lock", "wait"} => op'[w] = "dequeue"
       /\ pc'[w] = "notify" => result'[w] # NoItem
  BY DEF WorkersQuiet, WorkerInv
<1>5. \A o \in Owners : opc'[o] \in {"stopped", "destroyed"} => \A w \in Workers : wpc'[w] = "exited"
  BY DEF WorkersQuiet, WorkerInv
<1> QED BY <1>2, <1>3, <1>4, <1>5 DEF WorkerInv

(* A push takes its task from the producer, which brings it no more.         *)
LEMMA PushBrings ==
  ASSUME Inv, BringInv, NEW p \in Producers, Pushes(p), ~Brings(p)', offered' = offered,
         \A r \in Producers : BringsOn(r)
  PROVE  BringInv'
<1>1. accepted' \subseteq offered'
  BY DEF BringInv, Pushes
<1>2. \A r \in Producers : Brings(r)' => Brings(r) /\ arg'[r] = arg[r] /\ r # p
  BY DEF BringsOn
<1>3. \A r \in Producers : Brings(r)' => arg'[r] \in offered' \ accepted'
  BY <1>2 DEF BringInv, Pushes
<1>4. \A r, s \in Producers : Brings(r)' /\ Brings(s)' /\ arg'[r] = arg'[s] => r = s
  BY <1>2 DEF BringInv
<1> QED BY <1>1, <1>3, <1>4 DEF BringInv

(* Other steps of those that bring tasks keep what is said of them.          *)
LEMMA QuietBrings ==
  ASSUME BringInv, UNCHANGED <<offered, accepted>>, \A r \in Producers : BringsOn(r)
  PROVE  BringInv'
<1>1. accepted' \subseteq offered'
  BY DEF BringInv
<1>2. \A r \in Producers : Brings(r)' => Brings(r) /\ arg'[r] = arg[r]
  BY DEF BringsOn
<1>3. \A r \in Producers : Brings(r)' => arg'[r] \in offered' \ accepted'
  BY <1>2 DEF BringInv
<1>4. \A r, s \in Producers : Brings(r)' /\ Brings(s)' /\ arg'[r] = arg'[s] => r = s
  BY <1>2 DEF BringInv
<1> QED BY <1>1, <1>3, <1>4 DEF BringInv

(* What submit does under mutex_ and when it notifies.                       *)
LEMMA SubmitEffect ==
  ASSUME PoolInv, NEW p \in Producers, SubmitStep(p)
  PROVE  /\ WorkersQuiet
         /\ \A r \in Producers : BringsOn(r)
         /\ UNCHANGED <<state, offered, opc>>
         /\ \/ Pushes(p) /\ ~is_stopped /\ ~Brings(p)'
            \/ UNCHANGED <<q, accepted, overrun, executed>>
<1> USE DEF PoolInv, Inv
<1>1. pc \in [Threads -> Labels] /\ op \in [Threads -> PutOps \union GetOps \union StopOps \union {"none"}]
      /\ arg \in [Producers -> Item \union {NoItem}] /\ p \in Threads /\ p \notin Consumers /\ q.overrun \in Nat
      /\ Producers \subseteq Threads /\ Consumers \subseteq Threads /\ Producers \intersect Consumers = {}
  BY ThreadsAssumption DEF TypeOK, Threads, Ring
<1>2. not_empty_cv = {c \in Consumers : pc[c] = "wait"}
  BY DEF ThreadInv
<1>3. UNCHANGED <<state, offered, opc, result, wpc, executed>>
  BY DEF SubmitStep, ProducerStep, EnqueueLocked, EnqueueOverwriteLocked, TryEnqueueLocked, NotifyNotEmpty
<1>4. CASE ~is_stopped /\ Brings(p) /\ PushAndUnlock(p)
  <2>1. pc' = [pc EXCEPT ![p] = "notify"] /\ op' = op /\ arg' = [arg EXCEPT ![p] = NoItem] /\ q' = push_back(q, arg[p])
        /\ pc[p] # "notify"
    BY <1>4 DEF PushAndUnlock, At, Brings
  <2>2. WorkersQuiet
    BY <1>1, <1>3, <2>1 DEF WorkersQuiet, Workers
  <2>3. (\A r \in Producers : BringsOn(r)) /\ ~Brings(p)'
    BY <1>1, <2>1 DEF BringsOn, Brings
  <2>4. q'.overrun > q.overrun <=> full(q)
    BY <2>1, OverrunTells DEF TypeOK
  <2>5. Pushes(p)
    BY <1>1, <1>3, <1>4, <2>1, <2>4 DEF SubmitStep, Pushes
  <2> QED BY <1>3, <1>4, <2>2, <2>3, <2>5
<1>5. CASE /\ q' = q
           /\ pc'[p] # "notify"
           /\ \/ pc' = [pc EXCEPT ![p] = "wait"] /\ arg' = arg /\ op' = op /\ Brings(p)
              \/ pc' = [pc EXCEPT ![p] = "out"] /\ op' = [op EXCEPT ![p] = "none"]
                   /\ arg' = [arg EXCEPT ![p] = NoItem]
              \/ /\ op' = [op EXCEPT ![p] = "none"] /\ arg' = arg
                 /\ \/ pc' = [pc EXCEPT ![p] = "out"]
                    \/ \E c \in not_empty_cv : pc' = [pc EXCEPT ![p] = "out", ![c] = "lock"]
  <2>1. UNCHANGED <<q, accepted, overrun, executed>>
    BY <1>1, <1>3, <1>5 DEF SubmitStep
  <2>2. WorkersQuiet
    BY <1>1, <1>2, <1>3, <1>5 DEF WorkersQuiet, Workers
  <2>3. \A r \in Producers : BringsOn(r)
    BY <1>1, <1>2, <1>5 DEF BringsOn, Brings
  <2> QED BY <1>3, <2>1, <2>2, <2>3
<1>6. ProducerStep(p)
  BY DEF SubmitStep
<1>7. \/ ~is_stopped /\ Brings(p) /\ PushAndUnlock(p)
      \/ q' = q /\ pc' = [pc EXCEPT ![p] = "wait"] /\ arg' = arg /\ op' = op /\ Brings(p)
      \/ q' = q /\ pc' = [pc EXCEPT ![p] = "out"] /\ op' = [op EXCEPT ![p] = "none"]
                   /\ arg' = [arg EXCEPT ![p] = NoItem]
      \/ q' = q /\ NotifyNotEmpty(p)
  <2>1. CASE EnqueueLocked(p)
    BY <2>1 DEF EnqueueLocked, ReturnFalse, Return, At, Brings
  <2>2. CASE EnqueueOverwriteLocked(p)
    BY <2>2 DEF EnqueueOverwriteLocked, ReturnFalse, Return, At, Brings
  <2>3. CASE TryEnqueueLocked(p)
    BY <2>3 DEF TryEnqueueLocked, ReturnFalse, Return, At, Brings
  <2>4. CASE NotifyNotEmpty(p)
    BY <2>4 DEF NotifyNotEmpty
  <2> QED BY <1>6, <2>1, <2>2, <2>3, <2>4 DEF ProducerStep
<1>8. CASE q' = q /\ NotifyNotEmpty(p)
  <2>1. /\ op' = [op EXCEPT ![p] = "none"] /\ arg' = arg
        /\ \/ pc' = [pc EXCEPT ![p] = "out"]
           \/ \E c \in not_empty_cv : pc' = [pc EXCEPT ![p] = "out", ![c] = "lock"]
    BY <1>8 DEF NotifyNotEmpty, At
  <2>2. pc'[p] # "notify"
    BY <1>1, <1>2, <2>1
  <2> QED BY <1>5, <1>8, <2>1, <2>2
<1>9. CASE \/ q' = q /\ pc' = [pc EXCEPT ![p] = "wait"] /\ arg' = arg /\ op' = op /\ Brings(p)
           \/ q' = q /\ pc' = [pc EXCEPT ![p] = "out"] /\ op' = [op EXCEPT ![p] = "none"]
                   /\ arg' = [arg EXCEPT ![p] = NoItem]
  BY <1>1, <1>5, <1>9
<1> QED BY <1>4, <1>7, <1>8, <1>9

(* Every step of the pool is one of its queue, or leaves the queue alone.    *)
LEMMA PoolIsQueue == Next => [QueueNext]_queueVars
<1> SUFFICES ASSUME Next PROVE [QueueNext]_queueVars
  OBVIOUS
<1>1. ASSUME NEW p \in Producers, SubmitStep(p) \/ \E f \in SubmitOps, x \in Item : Submit(p, f, x)
      PROVE  QueueNext
  BY <1>1, SubmitOpsAssumption DEF SubmitStep, Submit, QueueNext
<1>2. ASSUME NEW w \in Workers, WorkerStep(w)
      PROVE  [QueueNext]_queueVars
  <2>1. "dequeue" \in GetOps
    BY DEF GetOps
  <2>2. CASE WorkerLoop(w) \/ WorkerDequeue(w)
    BY <2>1, <2>2 DEF WorkerLoop, WorkerDequeue, QueueNext, Workers
  <2>3. CASE WorkerDequeued(w) \/ WorkerRan(w)
    BY <2>3 DEF WorkerDequeued, WorkerRan
  <2> QED BY <1>2, <2>2, <2>3 DEF WorkerStep
<1>3. ASSUME NEW o \in Owners, OwnerNotify(o) \/ OwnerJoined(o) \/ OwnerDestroy(o) \/ \E f \in StopOps : OwnerStop(o, f)
      PROVE  [QueueNext]_queueVars
  <2>1. "stop_gracefully" \in StopOps
    BY DEF StopOps
  <2>2. CASE OwnerJoined(o)
    BY <2>2 DEF OwnerJoined
  <2>3. CASE OwnerNotify(o) \/ OwnerDestroy(o) \/ \E f \in StopOps : OwnerStop(o, f)
    BY <2>1, <2>3 DEF OwnerNotify, OwnerDestroy, OwnerStop, QueueNext, Owners
  <2> QED BY <1>3, <2>2, <2>3
<1>4. ASSUME NEW t \in Producers \union Workers, WaitEnds(t)
      PROVE  QueueNext
  BY <1>4 DEF WaitEnds, QueueNext, Workers
<1> QED BY <1>1, <1>2, <1>3, <1>4 DEF Next

(* A submission, and every step of one, keeps the pool's invariant.          *)
LEMMA SubmitKeeps ==
  ASSUME PoolInv, NEW p \in Producers,
         SubmitStep(p) \/ \E f \in SubmitOps, x \in Item : Submit(p, f, x)
  PROVE  PlaceInv' /\ BringInv' /\ WorkerInv' /\ PoolTypes'
<1>1. CASE SubmitStep(p)
  <2>1. /\ WorkersQuiet /\ (\A r \in Producers : BringsOn(r)) /\ UNCHANGED <<state, offered, opc>>
        /\ \/ Pushes(p) /\ ~is_stopped /\ ~Brings(p)'
           \/ UNCHANGED <<q, accepted, overrun, executed>>
    BY <1>1, SubmitEffect
  <2>2. HeldSame
    BY <2>1, QuietHolds
  <2>3. PlaceInv' /\ BringInv'
    BY <2>1, <2>2, PushKeeps, PushBrings, QuietKeeps, QuietBrings DEF PoolInv
  <2>4. WorkerInv'
    BY <2>1, QuietWorkers DEF PoolInv
  <2>5. PoolTypes'
    BY <2>1 DEF PoolInv, PoolTypes, WorkersQuiet
  <2> QED BY <2>3, <2>4, <2>5
<1>2. ASSUME NEW f \in SubmitOps, NEW x \in Item, Submit(p, f, x)
      PROVE  PlaceInv' /\ BringInv' /\ WorkerInv' /\ PoolTypes'
  <2>1. /\ x \notin offered /\ offered' = offered \union {x}
        /\ UNCHANGED <<q, state, result, wpc, opc, accepted, overrun, executed>>
        /\ \/ UNCHANGED <<pc, op, arg>>
           \/ pc' = [pc EXCEPT ![p] = "lock"] /\ op' = [op EXCEPT ![p] = f] /\ arg' = [arg EXCEPT ![p] = x]
    BY <1>2 DEF Submit, EnqueueCall, At, poolVars
  <2>2. /\ pc \in [Threads -> Labels] /\ op \in [Threads -> PutOps \union GetOps \union StopOps \union {"none"}]
        /\ arg \in [Producers -> Item \union {NoItem}] /\ p \in Threads /\ p \notin Consumers
        /\ Producers \subseteq Threads /\ Consumers \subseteq Threads
    BY ThreadsAssumption DEF PoolInv, Inv, TypeOK, Threads
  <2>3. WorkersQuiet
    BY <2>1, <2>2 DEF WorkersQuiet, Workers
  <2>4. PlaceInv'
    BY <2>1, <2>3, QuietHolds, QuietKeeps DEF PoolInv
  <2>5. WorkerInv'
    BY <2>1, <2>3, QuietWorkers DEF PoolInv
  <2>6. \A r \in Producers : Brings(r)' => (Brings(r) /\ arg'[r] = arg[r]) \/ (r = p /\ arg'[r] = x)
    BY <2>1, <2>2 DEF Brings
  <2>7. accepted' \subseteq offered' /\ x \notin accepted'
    BY <2>1 DEF PoolInv, BringInv
  <2>8. \A r \in Producers : Brings(r)' => arg'[r] \in offered' \ accepted'
    BY <2>1, <2>6, <2>7 DEF PoolInv, BringInv
  <2>9. \A r, s \in Producers : Brings(r)' /\ Brings(s)' /\ arg'[r] = arg'[s] => r = s
    BY <2>1, <2>6 DEF PoolInv, BringInv
  <2>10. BringInv'
    BY <2>7, <2>8, <2>9 DEF BringInv
  <2>11. PoolTypes'
    BY <2>1 DEF PoolInv, PoolTypes
  <2> QED BY <2>4, <2>5, <2>10, <2>11
<1> QED BY <1>1, <1>2

(* So does a stop, a join and the destructor.                                *)
LEMMA OwnerKeeps ==
  ASSUME PoolInv, NEW o \in Owners,
         OwnerNotify(o) \/ OwnerJoined(o) \/ OwnerDestroy(o) \/ \E f \in StopOps : OwnerStop(o, f)
  PROVE  PlaceInv' /\ BringInv' /\ WorkerInv' /\ PoolTypes'
<1>1. /\ pc \in [Threads -> Labels] /\ op \in [Threads -> PutOps \union GetOps \union StopOps \union {"none"}]
      /\ o \in Threads /\ o \notin Consumers /\ o \notin Producers
      /\ Producers \subseteq Threads /\ Consumers \subseteq Threads /\ Producers \intersect Consumers = {}
      /\ not_empty_cv = {c \in Consumers : pc[c] = "wait"} /\ not_full_cv = {r \in Producers : pc[r] = "wait"}
      /\ opc \in [Owners -> {"open", "joining", "stopped", "destroyed"}]
  BY ThreadsAssumption DEF PoolInv, PoolTypes, Inv, TypeOK, ThreadInv, Threads, Owners
<1>2. UNCHANGED <<q, arg, result, offered, wpc, accepted, overrun, executed>>
  BY DEF OwnerNotify, OwnerJoined, OwnerDestroy, OwnerStop, StopLocked, StopperStep, StopNotifyNotEmpty,
         StopNotifyNotFull, poolVars, queueVars
<1>3. /\ \A t \in Producers \union Consumers : pc'[t] = pc[t] \/ (pc[t] = "wait" /\ pc'[t] = "lock")
      /\ \A t \in Producers \union Consumers : op'[t] = op[t]
      /\ is_stopped => state' = state
  <2>1. CASE OwnerNotify(o)
    BY <1>1, <2>1 DEF OwnerNotify, StopperStep, StopNotifyNotEmpty, StopNotifyNotFull
  <2>2. CASE OwnerJoined(o)
    BY <2>2 DEF OwnerJoined, queueVars
  <2>3. CASE OwnerDestroy(o) \/ \E f \in StopOps : OwnerStop(o, f)
    BY <1>1, <2>3 DEF OwnerDestroy, OwnerStop, StopLocked, At
  <2> QED BY <2>1, <2>2, <2>3
<1>4. WorkersQuiet
  BY <1>2, <1>3 DEF WorkersQuiet, Workers
<1>5. \A r \in Producers : BringsOn(r)
  BY <1>2, <1>3 DEF BringsOn, Brings
<1>6. /\ opc' \in [Owners -> {"open", "joining", "stopped", "destroyed"}]
      /\ \A v \in Owners : opc'[v] \in {"stopped", "destroyed"} =>
            opc[v] \in {"stopped", "destroyed"} \/ \A w \in Workers : wpc[w] = "exited"
  BY <1>1 DEF OwnerNotify, OwnerJoined, OwnerDestroy, OwnerStop, poolVars
<1>7. WorkerInv'
  BY <1>2, <1>3, <1>4, <1>6, QuietWorkers DEF PoolInv
<1>8. PlaceInv' /\ BringInv'
  BY <1>2, <1>4, <1>5, QuietHolds, QuietKeeps, QuietBrings DEF PoolInv
<1> QED BY <1>2, <1>6, <1>7, <1>8 DEF PoolInv, PoolTypes

(* So does the end of a wait that nobody notified.                           *)
LEMMA WaitEndsKeeps ==
  ASSUME PoolInv, NEW t \in Producers \union Workers, WaitEnds(t)
  PROVE  PlaceInv' /\ BringInv' /\ WorkerInv' /\ PoolTypes'
<1>1. /\ pc \in [Threads -> Labels] /\ t \in Threads
      /\ Producers \subseteq Threads /\ Consumers \subseteq Threads /\ Producers \intersect Consumers = {}
      /\ t \in Consumers => op[t] = "dequeue"
  BY ThreadsAssumption DEF PoolInv, WorkerInv, Inv, TypeOK, Threads, Workers, WaitEnds, TimeOut, SpuriousWakeup
<1>2. /\ UNCHANGED <<q, state, op, arg, result, offered, wpc, opc, accepted, overrun, executed>>
      /\ pc[t] = "wait"
      /\ pc' = [pc EXCEPT ![t] = "lock"] \/ (pc' = [pc EXCEPT ![t] = "timedout"] /\ t \in Producers)
  BY <1>1 DEF WaitEnds, TimeOut, SpuriousWakeup, At, poolVars, Workers
<1>3. WorkersQuiet
  BY <1>1, <1>2 DEF WorkersQuiet, Workers
<1>4. \A r \in Producers : BringsOn(r)
  BY <1>1, <1>2 DEF BringsOn, Brings
<1>5. WorkerInv'
  BY <1>2, <1>3, QuietWorkers DEF PoolInv
<1>6. PlaceInv' /\ BringInv'
  BY <1>2, <1>3, <1>4, QuietHolds, QuietKeeps, QuietBrings DEF PoolInv
<1> QED BY <1>2, <1>5, <1>6 DEF PoolInv, PoolTypes

(* What a step of one worker leaves of the others.                           *)
OthersSame(w) == \A v \in Workers \ {w} : pc'[v] = pc[v] /\ op'[v] = op[v] /\ wpc'[v] = wpc[v] /\ result'[v] = result[v]

(* What WorkerInv says of one worker.                                        *)
WorkerIs(w) ==
  /\ pc[w] \in {"out", "lock", "wait", "notify"}
  /\ wpc[w] # "dequeue" => pc[w] = "out"
  /\ pc[w] \in {"lock", "wait"} => op[w] = "dequeue"
  /\ pc[w] = "notify" => result[w] # NoItem
  /\ Leaving(w) => is_stopped /\ (state = "Drain" => empty(q))

(* A step of one worker leaves the invariant of the others, when a queue     *)
(* that is stopped stays so and an empty one stays empty.                    *)
LEMMA OneWorker ==
  ASSUME WorkerInv, NEW w \in Workers, OthersSame(w), wpc[w] # "exited", UNCHANGED <<state, opc>>,
         empty(q) => empty(q'), WorkerIs(w)'
  PROVE  WorkerInv'
<1>1. \A o \in Owners : opc'[o] \notin {"stopped", "destroyed"}
  BY DEF WorkerInv
<1>2. empty(q)' = empty(q')
  BY DEF empty
<1>3. \A v \in Workers \ {w} : WorkerIs(v)'
  <2> SUFFICES ASSUME NEW v \in Workers \ {w} PROVE WorkerIs(v)'
    OBVIOUS
  <2>1. /\ pc'[v] = pc[v] /\ op'[v] = op[v] /\ result'[v] = result[v] /\ (Leaving(v)' <=> Leaving(v))
        /\ wpc'[v] = wpc[v] /\ (is_stopped' <=> is_stopped)
    BY DEF OthersSame, Leaving, is_stopped
  <2>2. Leaving(v)' => is_stopped' /\ (state' = "Drain" => empty(q'))
    BY <2>1 DEF WorkerInv
  <2>3. /\ pc'[v] \in {"out", "lock", "wait", "notify"}
        /\ wpc'[v] # "dequeue" => pc'[v] = "out"
        /\ pc'[v] \in {"lock", "wait"} => op'[v] = "dequeue"
        /\ pc'[v] = "notify" => result'[v] # NoItem
    BY <2>1 DEF WorkerInv
  <2> QED BY <1>2, <2>2, <2>3 DEF WorkerIs
<1>4. \A v \in Workers : WorkerIs(v)'
  BY <1>3
<1> QED BY <1>1, <1>4 DEF WorkerInv, WorkerIs

(* Whether the other workers hold a task does not change either.             *)
LEMMA OthersHold ==
  ASSUME NEW w \in Workers, OthersSame(w)
  PROVE  \A v \in Workers \ {w} : (Held(v)' <=> Held(v)) /\ result'[v] = result[v]
<1> SUFFICES ASSUME NEW v \in Workers \ {w} PROVE (Held(v)' <=> Held(v)) /\ result'[v] = result[v]
  OBVIOUS
<1> QED BY DEF OthersSame, Held

(* A call of dequeue, begun and carried out, keeps the pool's invariant.     *)
LEMMA DequeueKeeps ==
  ASSUME PoolInv, NEW w \in Workers, WorkerLoop(w) \/ WorkerDequeue(w)
  PROVE  PlaceInv' /\ BringInv' /\ WorkerInv' /\ PoolTypes'
<1>1. /\ pc \in [Threads -> Labels] /\ op \in [Threads -> PutOps \union GetOps \union StopOps \union {"none"}]
      /\ w \in Threads /\ w \notin Producers
      /\ Producers \subseteq Threads /\ Consumers \subseteq Threads
      /\ not_full_cv = {r \in Producers : pc[r] = "wait"}
      /\ wpc \in [Workers -> {"loop", "dequeue", "run", "exited"}]
      /\ result \in [Workers -> Item \union {NoItem}]
  BY ThreadsAssumption DEF PoolInv, PoolTypes, Inv, TypeOK, ThreadInv, Threads, Workers
<1>2. WorkerIs(w)
  BY DEF PoolInv, WorkerInv, WorkerIs
<1>3. UNCHANGED <<state, arg, offered, opc, accepted, overrun, executed>>
  BY DEF WorkerLoop, WorkerDequeue, DequeueCall, ConsumerStep, DequeueLocked, TryDequeueLocked, NotifyNotFull, poolVars
<1>4. SUFFICES /\ OthersSame(w) /\ (empty(q) => empty(q')) /\ WorkerIs(w)' /\ wpc[w] # "exited"
               /\ \A r \in Producers : BringsOn(r)
               /\ wpc' \in [Workers -> {"loop", "dequeue", "run", "exited"}]
               /\ (HeldSame /\ q' = q) \/ Pops(w)
  <2>1. WorkerInv'
    BY <1>3, <1>4, OneWorker DEF PoolInv
  <2>2. BringInv'
    BY <1>3, <1>4, QuietBrings DEF PoolInv
  <2>3. PlaceInv'
    BY <1>3, <1>4, PopKeeps, QuietKeeps DEF PoolInv
  <2>4. PoolTypes'
    BY <1>3, <1>4 DEF PoolInv, PoolTypes
  <2> QED BY <2>1, <2>2, <2>3, <2>4
<1>5. CASE WorkerLoop(w)
  <2>1. /\ wpc[w] = "loop" /\ wpc' = [wpc EXCEPT ![w] = "dequeue"] /\ pc' = [pc EXCEPT ![w] = "lock"]
        /\ op' = [op EXCEPT ![w] = "dequeue"] /\ UNCHANGED <<q, arg, result>>
    BY <1>5 DEF WorkerLoop, DequeueCall, At
  <2>2. OthersSame(w) /\ wpc'[w] = "dequeue" /\ pc'[w] = "lock" /\ op'[w] = "dequeue"
    BY <1>1, <2>1 DEF OthersSame, Workers
  <2>3. WorkerIs(w)' /\ ~Held(w)' /\ ~Held(w)
    BY <2>1, <2>2 DEF WorkerIs, Leaving, Held
  <2>4. HeldSame
    BY <2>2, <2>3, OthersHold DEF HeldSame
  <2>5. \A r \in Producers : BringsOn(r)
    BY <1>1, <2>1 DEF BringsOn, Brings
  <2>6. empty(q) => empty(q')
    BY <2>1
  <2> QED BY <1>1, <2>1, <2>2, <2>3, <2>4, <2>5, <2>6
<1>6. CASE WorkerDequeue(w)
  <2>1. wpc[w] = "dequeue" /\ wpc' = wpc /\ wpc'[w] = "dequeue"
    BY <1>6 DEF WorkerDequeue, poolVars
  <2>2. ~TryDequeueLocked(w)
    BY <1>2 DEF TryDequeueLocked, WorkerIs
  <2>3. CASE NotifyNotFull(w)
    <3>1. /\ pc[w] = "notify" /\ result[w] # NoItem /\ UNCHANGED <<q, arg, result>>
          /\ op' = [op EXCEPT ![w] = "none"]
          /\ \/ pc' = [pc EXCEPT ![w] = "out"]
             \/ \E r \in not_full_cv : pc' = [pc EXCEPT ![w] = "out", ![r] = "lock"]
      BY <1>2, <2>3 DEF NotifyNotFull, At, WorkerIs
    <3>2. OthersSame(w) /\ pc'[w] = "out"
      BY <1>1, <2>1, <3>1, ThreadsAssumption DEF OthersSame, Workers
    <3>3. WorkerIs(w)' /\ Held(w)' /\ Held(w)
      BY <2>1, <3>1, <3>2 DEF WorkerIs, Leaving, Held
    <3>4. HeldSame
      BY <3>1, <3>2, <3>3, OthersHold DEF HeldSame
    <3>5. \A r \in Producers : BringsOn(r)
      BY <1>1, <3>1 DEF BringsOn, Brings
    <3>6. empty(q) => empty(q')
      BY <3>1
    <3> QED BY <1>1, <2>1, <3>1, <3>2, <3>3, <3>4, <3>5, <3>6
  <2>4. CASE DequeueLocked(w)
    <3>1. pc[w] \in {"lock", "wait"} => op[w] = "dequeue"
      BY <1>2 DEF WorkerIs
    <3>2. /\ pc[w] = "lock" /\ arg' = arg
          /\ \/ /\ ~empty(q) /\ q' = pop_front(q) /\ result' = [result EXCEPT ![w] = front(q)]
                /\ pc' = [pc EXCEPT ![w] = "notify"] /\ op' = op
             \/ /\ is_stopped /\ (state = "Drain" => empty(q)) /\ q' = q
                /\ result' = [result EXCEPT ![w] = NoItem]
                /\ pc' = [pc EXCEPT ![w] = "out"] /\ op' = [op EXCEPT ![w] = "none"]
             \/ pc' = [pc EXCEPT ![w] = "wait"] /\ UNCHANGED <<q, op, result>>
      BY <1>2, <2>4, <3>1 DEF DequeueLocked, PopAndUnlock, UnlockEmptyHanded, Return, At, WorkerIs, is_stopped
    <3>3. OthersSame(w) /\ ~Held(w)
      BY <1>1, <2>1, <3>2 DEF OthersSame, Workers, Held
    <3>4. \A r \in Producers : BringsOn(r)
      BY <1>1, <3>2 DEF BringsOn, Brings
    <3>5. CASE /\ ~empty(q) /\ q' = pop_front(q) /\ result' = [result EXCEPT ![w] = front(q)]
               /\ pc' = [pc EXCEPT ![w] = "notify"] /\ op' = op
      <4>1. front(q) \in accepted
        <5>1. q \in Ring /\ Contents(q) \in Seq(Item \union {NoItem}) /\ Contents(q) # <<>>
          BY <3>5, ContentsIs DEF PoolInv, Inv, TypeOK
        <5>2. front(q) = Head(Contents(q)) /\ Head(Contents(q)) \in Queued
          BY <3>5, <5>1, PopFrontContents, ListTail DEF PoolInv, PlaceInv, Queued
        <5> QED BY <5>2 DEF PoolInv, PlaceInv
      <4>2. front(q) \in Item /\ front(q) # NoItem
        BY <4>1, NoItemAssumption DEF PoolInv, BringInv, Inv, TypeOK
      <4>3. pc'[w] = "notify" /\ result'[w] = front(q)
        BY <1>1, <3>5 DEF Workers
      <4>4. WorkerIs(w)' /\ Held(w)'
        BY <2>1, <4>2, <4>3 DEF WorkerIs, Leaving, Held
      <4>5. \A v \in Workers \ {w} : Held(v)' <=> Held(v)
        BY <3>3, OthersHold
      <4>6. Pops(w)
        BY <1>3, <3>3, <3>5, <4>4, <4>5 DEF Pops
      <4> QED BY <1>1, <2>1, <3>3, <3>4, <3>5, <4>4, <4>6
    <3>6. CASE /\ is_stopped /\ (state = "Drain" => empty(q)) /\ q' = q
               /\ result' = [result EXCEPT ![w] = NoItem]
               /\ pc' = [pc EXCEPT ![w] = "out"] /\ op' = [op EXCEPT ![w] = "none"]
      <4>1. pc'[w] = "out" /\ result'[w] = NoItem
        BY <1>1, <3>6 DEF Workers
      <4>2. is_stopped' /\ (state' = "Drain" => empty(q)')
        BY <1>3, <3>6 DEF is_stopped, empty
      <4>3. WorkerIs(w)' /\ ~Held(w)'
        BY <2>1, <4>1, <4>2 DEF WorkerIs, Held
      <4>4. HeldSame
        BY <3>3, <4>3, OthersHold DEF HeldSame
      <4> QED BY <1>1, <2>1, <3>3, <3>4, <3>6, <4>3, <4>4
    <3>7. CASE pc' = [pc EXCEPT ![w] = "wait"] /\ UNCHANGED <<q, op, result>>
      <4>1. pc'[w] = "wait" /\ op'[w] = "dequeue"
        BY <1>1, <3>1, <3>2, <3>7 DEF Workers
      <4>2. WorkerIs(w)' /\ ~Held(w)'
        BY <2>1, <4>1 DEF WorkerIs, Leaving, Held
      <4>3. HeldSame
        BY <3>3, <4>2, OthersHold DEF HeldSame
      <4> QED BY <1>1, <2>1, <3>3, <3>4, <3>7, <4>2, <4>3
    <3> QED BY <3>2, <3>5, <3>6, <3>7
  <2> QED BY <1>6, <2>2, <2>3, <2>4 DEF WorkerDequeue, ConsumerStep
<1> QED BY <1>5, <1>6

(* A worker that starts a task, ends, or has run one keeps it too.           *)
LEMMA RunningKeeps ==
  ASSUME PoolInv, NEW w \in Workers, WorkerDequeued(w) \/ WorkerRan(w)
  PROVE  PlaceInv' /\ BringInv' /\ WorkerInv' /\ PoolTypes'
<1>1. wpc \in [Workers -> {"loop", "dequeue", "run", "exited"}] /\ WorkerIs(w)
  BY DEF PoolInv, PoolTypes, WorkerInv, WorkerIs
<1>2. UNCHANGED <<q, state, pc, op, arg, result, offered, opc>>
  BY DEF WorkerDequeued, WorkerRan, queueVars
<1>3. is_stopped' = is_stopped /\ empty(q)' = empty(q) /\ (empty(q) => empty(q'))
  BY <1>2 DEF is_stopped, empty
<1>4. \A r \in Producers : BringsOn(r)
  BY <1>2 DEF BringsOn, Brings
<1>5. CASE WorkerDequeued(w)
  <2>1. /\ wpc[w] = "dequeue" /\ pc[w] = "out" /\ UNCHANGED <<accepted, overrun, executed>>
        /\ IF result[w] = NoItem THEN wpc' = [wpc EXCEPT ![w] = "exited"] ELSE wpc' = [wpc EXCEPT ![w] = "run"]
    BY <1>5 DEF WorkerDequeued
  <2>2. OthersSame(w) /\ wpc'[w] = (IF result[w] = NoItem THEN "exited" ELSE "run")
    BY <1>1, <1>2, <2>1 DEF OthersSame
  <2>3. Held(w)' <=> Held(w)
    BY <1>2, <2>1, <2>2 DEF Held
  <2>4. HeldSame
    BY <1>2, <2>2, <2>3, OthersHold DEF HeldSame
  <2>5. Leaving(w)' => Leaving(w)
    BY <1>2, <2>1, <2>2 DEF Leaving
  <2>6. WorkerIs(w)'
    BY <1>1, <1>2, <1>3, <2>1, <2>5 DEF WorkerIs
  <2>7. WorkerInv'
    BY <1>2, <1>3, <2>1, <2>2, <2>6, OneWorker DEF PoolInv
  <2>8. PlaceInv' /\ BringInv'
    BY <1>2, <1>4, <2>1, <2>4, QuietKeeps, QuietBrings DEF PoolInv
  <2>9. PoolTypes'
    BY <1>1, <1>2, <2>1 DEF PoolInv, PoolTypes
  <2> QED BY <2>7, <2>8, <2>9
<1>6. CASE WorkerRan(w)
  <2>1. /\ wpc[w] = "run" /\ wpc' = [wpc EXCEPT ![w] = "loop"] /\ executed' = executed \union {result[w]}
        /\ UNCHANGED <<accepted, overrun>>
    BY <1>6 DEF WorkerRan
  <2>2. OthersSame(w) /\ wpc'[w] = "loop"
    BY <1>1, <1>2, <2>1 DEF OthersSame
  <2>3. pc[w] = "out" /\ pc'[w] = "out"
    BY <1>1, <1>2, <2>1 DEF WorkerIs
  <2>4. Held(w) /\ ~Held(w)' /\ WorkerIs(w)'
    BY <2>1, <2>2, <2>3 DEF Held, WorkerIs, Leaving
  <2>5. \A v \in Workers \ {w} : Held(v)' <=> Held(v)
    BY <2>2, OthersHold
  <2>6. Runs(w)
    BY <1>2, <2>1, <2>4, <2>5 DEF Runs
  <2>7. WorkerInv'
    BY <1>2, <1>3, <2>1, <2>2, <2>4, OneWorker DEF PoolInv
  <2>8. PlaceInv' /\ BringInv'
    BY <1>2, <1>4, <2>1, <2>6, RunKeeps, QuietBrings DEF PoolInv
  <2>9. PoolTypes'
    BY <1>1, <1>2, <2>1 DEF PoolInv, PoolTypes
  <2> QED BY <2>7, <2>8, <2>9
<1> QED BY <1>5, <1>6

(* The pool's invariant holds when it is constructed.                        *)
LEMMA PoolInit == Init => PoolInv
<1> SUFFICES ASSUME Init PROVE PoolInv
  OBVIOUS
<1>1. Inv
  BY InvInit DEF Init
<1>2. Contents(q) = <<>>
  BY NewRingType DEF Init, QueueInit
<1>3. Queued = {} /\ Distinct(Contents(q))
  BY <1>2 DEF Queued, Listed, Distinct
<1>4. /\ \A w \in Workers : pc[w] = "out" /\ wpc[w] = "loop"
      /\ \A p \in Producers : pc[p] = "out"
      /\ \A o \in Owners : opc[o] = "open"
      /\ PoolTypes
  BY DEF Init, QueueInit, Threads, Workers, PoolTypes
<1>5. \A w \in Workers : ~Held(w) /\ ~Leaving(w)
  BY <1>4 DEF Held, Leaving
<1>6. HeldTasks = {}
  BY <1>5 DEF HeldTasks
<1>7. accepted = {} /\ executed = {} /\ overrun = {}
  BY DEF Init
<1>8. PlaceInv
  BY <1>3, <1>5, <1>6, <1>7 DEF PlaceInv
<1>9. BringInv
  BY <1>4, <1>7 DEF BringInv, Brings
<1>10. WorkerInv
  BY <1>4, <1>5 DEF WorkerInv
<1> QED BY <1>1, <1>4, <1>8, <1>9, <1>10 DEF PoolInv

(* Every step of the pool keeps it.                                          *)
LEMMA PoolNext == PoolInv /\ [Next]_vars => PoolInv'
<1> SUFFICES ASSUME PoolInv, [Next]_vars PROVE PoolInv'
  OBVIOUS
<1>1. Inv'
  <2>1. [QueueNext]_queueVars
    BY PoolIsQueue DEF vars
  <2> QED BY <2>1, InvNext DEF PoolInv
<1>2. CASE Next
  <2>1. ASSUME NEW p \in Producers, SubmitStep(p) \/ \E f \in SubmitOps, x \in Item : Submit(p, f, x)
        PROVE  PoolInv'
    BY <1>1, <2>1, SubmitKeeps DEF PoolInv
  <2>2. ASSUME NEW w \in Workers, WorkerStep(w)
        PROVE  PoolInv'
    BY <1>1, <2>2, DequeueKeeps, RunningKeeps DEF PoolInv, WorkerStep
  <2>3. ASSUME NEW o \in Owners, OwnerNotify(o) \/ OwnerJoined(o) \/ OwnerDestroy(o) \/ \E f \in StopOps : OwnerStop(o, f)
        PROVE  PoolInv'
    BY <1>1, <2>3, OwnerKeeps DEF PoolInv
  <2>4. ASSUME NEW t \in Producers \union Workers, WaitEnds(t)
        PROVE  PoolInv'
    BY <1>1, <2>4, WaitEndsKeeps DEF PoolInv
  <2> QED BY <1>2, <2>1, <2>2, <2>3, <2>4 DEF Next
<1>3. CASE UNCHANGED vars
  <2>1. UNCHANGED <<q, state, pc, op, arg, result, offered, wpc, opc, accepted, overrun, executed>>
    BY <1>3 DEF vars, queueVars, poolVars
  <2>2. WorkersQuiet /\ \A r \in Producers : BringsOn(r)
    BY <2>1 DEF WorkersQuiet, BringsOn, Brings
  <2>3. WorkerInv'
    BY <2>1, <2>2, QuietWorkers DEF PoolInv
  <2>4. PlaceInv' /\ BringInv'
    BY <2>1, <2>2, QuietHolds, QuietKeeps, QuietBrings DEF PoolInv
  <2>5. PoolTypes'
    BY <2>1 DEF PoolInv, PoolTypes
  <2> QED BY <1>1, <2>3, <2>4, <2>5 DEF PoolInv
<1> QED BY <1>2, <1>3

(* So it holds throughout.                                                   *)
LEMMA PoolInvHolds == Spec => []PoolInv
BY PoolInit, PoolNext, PTL DEF Spec

(* The invariant counts the places of a task.                                *)
LEMMA PlacesCounted == ASSUME PoolInv PROVE EachTaskInOnePlace
<1> SUFFICES ASSUME NEW x \in Item PROVE Places(x) = (IF x \in accepted THEN 1 ELSE 0)
  BY DEF EachTaskInOnePlace
<1> DEFINE C == {k \in 1..size(q) : Contents(q)[k] = x}
           H == {w \in Workers : Held(w) /\ result[w] = x}
<1>1. Len(Contents(q)) = size(q)
  BY ContentsIs DEF PoolInv
<1>2. (x \in Queued <=> C # {}) /\ (x \in HeldTasks <=> H # {})
  BY <1>1, HeldIs DEF Queued, Listed
<1>3. Cardinality(C) = IF x \in Queued THEN 1 ELSE 0
  <2>1. \A a, b \in C : a = b
    BY <1>1 DEF PoolInv, PlaceInv, Distinct
  <2>2. CASE C = {}
    BY <1>2, <2>2, FS_EmptySet
  <2>3. CASE C # {}
    <3>1. PICK a : C = {a}
      BY <2>1, <2>3
    <3> QED BY <1>2, <2>3, <3>1, FS_Singleton
  <2> QED BY <2>2, <2>3
<1>4. Cardinality(H) = IF x \in HeldTasks THEN 1 ELSE 0
  <2>1. \A a, b \in H : a = b
    BY DEF PoolInv, PlaceInv
  <2>2. CASE H = {}
    BY <1>2, <2>2, FS_EmptySet
  <2>3. CASE H # {}
    <3>1. PICK a : H = {a}
      BY <2>1, <2>3
    <3> QED BY <1>2, <2>3, <3>1, FS_Singleton
  <2> QED BY <2>2, <2>3
<1>5. Places(x) = (IF x \in overrun THEN 1 ELSE 0) + (IF x \in executed THEN 1 ELSE 0)
                    + (IF x \in Queued THEN 1 ELSE 0) + (IF x \in HeldTasks THEN 1 ELSE 0)
  BY <1>3, <1>4 DEF Places
<1> QED BY <1>5 DEF PoolInv, PlaceInv

(* No task is lost or run twice, whatever the number of submitters, workers, *)
(* stops and tasks (thread_pool.cc:44-57): an accepted task is in exactly    *)
(* one place, a refused one nowhere.                                         *)
THEOREM NoTaskLost == Spec => []EachTaskInOnePlace
BY PoolInvHolds, PlacesCounted, PTL

(* Once a graceful stop has returned every worker has left, and the last one *)
(* left an empty queue.                                                      *)
LEMMA DrainedAfterStop == ASSUME PoolInv PROVE GracefulStopDrains
<1> SUFFICES ASSUME NEW o \in Owners, opc[o] \in {"stopped", "destroyed"}, state = "Drain"
             PROVE  accepted = executed \union overrun
  BY DEF GracefulStopDrains
<1>1. \A w \in Workers : wpc[w] = "exited"
  BY DEF PoolInv, WorkerInv
<1>2. HeldTasks = {}
  BY <1>1 DEF HeldTasks, Held
<1>3. empty(q)
  <2>1. PICK w \in Workers : wpc[w] = "exited"
    BY <1>1, WorkersAssumption DEF Workers
  <2> QED BY <2>1 DEF PoolInv, WorkerInv, Leaving
<1>4. Queued = {}
  <2>1. Contents(q) = <<>>
    BY <1>3, ContentsIs DEF PoolInv
  <2> QED BY <2>1 DEF Queued, Listed
<1> QED BY <1>2, <1>4 DEF PoolInv, PlaceInv

(* stop_gracefully drains (thread_pool.h:32), however many tasks wait when   *)
(* it is called and whoever is inside submit at that time.                   *)
THEOREM StopDrains == Spec => []GracefulStopDrains
BY PoolInvHolds, DrainedAfterStop, PTL
=============================================================================
