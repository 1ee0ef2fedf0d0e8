----------------------- MODULE MpmcBoundedQueueProofs -----------------------
(***************************************************************************)
(* The lock-free ring of mpmc_bounded_queue, for every capacity and every  *)
(* set of threads: no two threads are at the data of one slot, and every   *)
(* step is a step of ClaimQueue.  The argument is about positions, not     *)
(* slots: the Capacity positions from dequeuePos_ on lie in different      *)
(* slots, and the sequence number of a slot says which round of its        *)
(* position is over.                                                       *)
(***************************************************************************)
EXTENDS MpmcBoundedQueue, FiniteSetTheorems, TLAPS

(* A producer that has claimed a position and not published it.              *)
Filling(t) == t \in Producers /\ pc[t] \in {"data", "seq"}

(* A consumer that has taken a position and not given its slot back.         *)
Reading(t) == t \in Consumers /\ pc[t] \in {"data", "seq"}

Claimed == dequeuePos_..(enqueuePos_ - 1)
Free == enqueuePos_..(dequeuePos_ + Capacity - 1)
Published(p) == seq_[Slot(p)] = p + 1

(* What the sequence number of each position of the window may be.           *)
WindowInv ==
  /\ dequeuePos_ =< enqueuePos_ /\ enqueuePos_ =< dequeuePos_ + Capacity
  /\ \A p \in Claimed :
       \/ Published(p)
       \/ seq_[Slot(p)] = p /\ \E t \in Producers : Filling(t) /\ pos[t] = p
  /\ \A p \in Free :
       \/ seq_[Slot(p)] = p
       \/ /\ seq_[Slot(p)] = p - Capacity + 1
          /\ \E t \in Consumers : Reading(t) /\ pos[t] = p - Capacity

(* A position has at most one thread, and its slot waits for that thread.    *)
ClaimInv ==
  /\ \A t \in Producers : Filling(t) => pos[t] \in Claimed /\ seq_[Slot(pos[t])] = pos[t]
  /\ \A t, u \in Producers : Filling(t) /\ Filling(u) /\ pos[t] = pos[u] => t = u
  /\ \A t \in Consumers : Reading(t) => pos[t] + Capacity \in Free /\ Published(pos[t])
  /\ \A t, u \in Consumers : Reading(t) /\ Reading(u) /\ pos[t] = pos[u] => t = u

(* What a thread has read still holds if its exchange is going to succeed.   *)
CursorInv ==
  /\ \A t \in Producers : pc[t] \in {"test", "cas"} => pos[t] =< enqueuePos_
  /\ \A t \in Producers : pc[t] = "cas" /\ pos[t] = enqueuePos_ => seq_[Slot(pos[t])] = pos[t]
  /\ \A t \in Consumers : pc[t] \in {"test", "cas"} => pos[t] =< dequeuePos_
  /\ \A t \in Consumers : pc[t] = "cas" /\ pos[t] = dequeuePos_ => Published(pos[t])

(* No item is in two places.                                                 *)
ItemInv ==
  /\ \A t \in Producers : pc[t] # "idle" => item[t] \in 1..used
  /\ \A t, u \in Producers : pc[t] # "idle" /\ pc[u] # "idle" /\ item[t] = item[u] => t = u
  /\ \A p \in Claimed : Published(p) => data_[Slot(p)] \in 1..used
  /\ \A p, q \in Claimed :
       Published(p) /\ Published(q) /\ data_[Slot(p)] = data_[Slot(q)] => p = q
  /\ \A p \in Claimed : \A t \in Producers :
       Published(p) /\ pc[t] # "idle" => data_[Slot(p)] # item[t]
  /\ \A t \in Producers : pc[t] = "seq" => data_[Slot(pos[t])] = item[t]
  /\ \A t \in Consumers : Reading(t) => data_[Slot(pos[t])] \in Item
  /\ \A t \in Consumers : pc[t] = "seq" => item[t] = data_[Slot(pos[t])]

Inv == TypeOK /\ WindowInv /\ ClaimInv /\ CursorInv /\ ItemInv

-----------------------------------------------------------------------------
(* Rounds: a position is its slot and the number of turns before it.         *)
LEMMA Rounds ==
  ASSUME NEW p \in Nat
  PROVE  /\ p \div Capacity \in Nat
         /\ p % Capacity \in Slots
         /\ p = Capacity * (p \div Capacity) + (p % Capacity)
  BY BoundedQueueAssumption DEF Slots

(* The slot and the round of a position are determined by it.                *)
LEMMA RoundsUnique ==
  ASSUME NEW p \in Nat, NEW k \in Nat, NEW r \in Slots, p = Capacity * k + r
  PROVE  k = p \div Capacity /\ r = p % Capacity
  BY BoundedQueueAssumption DEF Slots

(* A position has a slot.                                                    *)
LEMMA SlotType == ASSUME NEW p \in Nat PROVE Slot(p) \in Slots
  BY Rounds DEF Slot

(* Two positions less than a turn apart are in different slots.              *)
LEMMA OnePosition ==
  ASSUME NEW p \in Nat, NEW q \in Nat, Slot(p) = Slot(q), p < q + Capacity, q < p + Capacity
  PROVE  p = q
<1> DEFINE k == p \div Capacity
           j == q \div Capacity
<1>1. k \in Nat /\ j \in Nat
  BY Rounds
<1>2. p = Capacity * k + (p % Capacity) /\ q = Capacity * j + (q % Capacity)
  BY Rounds
<1> HIDE DEF k, j
<1>3. Capacity * j - Capacity * k = Capacity * (j - k)
  BY <1>1, BoundedQueueAssumption
<1>4. q - p = Capacity * j - Capacity * k
  BY <1>1, <1>2, Rounds, BoundedQueueAssumption DEF Slot, Slots
<1>5. CASE j - k >= 1
  <2>1. Capacity * (j - k) >= Capacity
    BY <1>5, <1>1, BoundedQueueAssumption
  <2> QED BY <2>1, <1>4, <1>3, <1>1, BoundedQueueAssumption
<1>6. CASE j - k <= -1
  <2>1. Capacity * (j - k) <= -Capacity
    BY <1>6, <1>1, BoundedQueueAssumption
  <2> QED BY <2>1, <1>4, <1>3, <1>1, BoundedQueueAssumption
<1>7. CASE j = k
  BY <1>7, <1>2, <1>4, <1>1, BoundedQueueAssumption
<1> QED BY <1>5, <1>6, <1>7, <1>1

(* The same slot comes round again after Capacity positions.                 *)
LEMMA SlotTurn == ASSUME NEW p \in Nat PROVE Slot(p + Capacity) = Slot(p)
<1> DEFINE k == p \div Capacity
<1>1. k \in Nat /\ p = Capacity * k + (p % Capacity) /\ p % Capacity \in Slots
  BY Rounds
<1> HIDE DEF k
<1>2. p + Capacity = Capacity * (k + 1) + (p % Capacity)
  BY <1>1, BoundedQueueAssumption DEF Slots
<1>3. p + Capacity \in Nat /\ k + 1 \in Nat
  BY <1>1, BoundedQueueAssumption
<1> QED BY <1>1, <1>2, <1>3, RoundsUnique DEF Slot

(* Every slot has a position in each window of Capacity positions.           *)
LEMMA InWindow ==
  ASSUME NEW d \in Nat, NEW q \in Nat
  PROVE  \E p \in d..(d + Capacity - 1) : Slot(p) = Slot(q)
<1> DEFINE k == d \div Capacity
           r == d % Capacity
           s == q % Capacity
<1>1. /\ k \in Nat /\ r \in Slots /\ s \in Slots
      /\ d = Capacity * k + r
      /\ s = Slot(q)
  BY Rounds DEF Slot
<1> HIDE DEF k, r, s
<1>2. CASE s >= r
  <2>1. d + (s - r) = Capacity * k + s /\ d + (s - r) \in Nat
    BY <1>1, <1>2, BoundedQueueAssumption DEF Slots
  <2>2. Slot(d + (s - r)) = s
    BY <1>1, <2>1, RoundsUnique DEF Slot
  <2>3. d + (s - r) \in d..(d + Capacity - 1)
    BY <1>1, <1>2, <2>1, BoundedQueueAssumption DEF Slots
  <2> QED BY <1>1, <2>2, <2>3
<1>3. CASE s < r
  <2>1. d + (s - r) + Capacity = Capacity * (k + 1) + s
    BY <1>1, <1>3, BoundedQueueAssumption DEF Slots
  <2>2. /\ d + (s - r) + Capacity \in d..(d + Capacity - 1)
        /\ d + (s - r) + Capacity \in Nat /\ k + 1 \in Nat
    BY <1>1, <1>3, BoundedQueueAssumption DEF Slots
  <2>3. Slot(d + (s - r) + Capacity) = s
    BY <1>1, <2>1, <2>2, RoundsUnique DEF Slot
  <2> QED BY <1>1, <2>2, <2>3
<1> QED BY <1>1, <1>2, <1>3 DEF Slots

-----------------------------------------------------------------------------
(* A thread moves between its tests, and no shared memory changes.           *)
Local(t) ==
  /\ t \in Threads
  /\ UNCHANGED <<enqueuePos_, dequeuePos_, seq_, data_>>
  /\ pc[t] \notin {"data", "seq"} /\ pc'[t] \notin {"data", "seq"}
  /\ \A u \in Threads \ {t} : pc'[u] = pc[u] /\ pos'[u] = pos[u] /\ item'[u] = item[u]

(* Such a move leaves the positions to their threads.                        *)
LEMMA LocalWindow ==
  ASSUME Inv, TypeOK', NEW t, Local(t)
  PROVE  WindowInv' /\ ClaimInv'
<1>1. \A u \in Producers : (Filling(u))' <=> Filling(u)
  BY DEF Local, Filling, Threads
<1>2. \A u \in Consumers : (Reading(u))' <=> Reading(u)
  BY DEF Local, Reading, Threads
<1>3. \A u \in Producers : Filling(u) => pos'[u] = pos[u]
  BY DEF Local, Filling, Threads
<1>4. \A u \in Consumers : Reading(u) => pos'[u] = pos[u]
  BY DEF Local, Reading, Threads
<1>5. enqueuePos_' = enqueuePos_ /\ dequeuePos_' = dequeuePos_ /\ seq_' = seq_
  BY DEF Local
<1>6. WindowInv'
  BY <1>1, <1>2, <1>3, <1>4, <1>5 DEF Inv, WindowInv, Claimed, Free, Published, Slot
<1>7. ClaimInv'
  BY <1>1, <1>2, <1>3, <1>4, <1>5 DEF Inv, ClaimInv, Claimed, Free, Published, Slot
<1> QED BY <1>6, <1>7

(* It leaves the items where they are, unless it is a new call.              *)
LEMMA LocalItems ==
  ASSUME Inv, TypeOK', NEW t, Local(t), used' = used,
         t \in Producers /\ pc'[t] # "idle" => pc[t] # "idle" /\ item'[t] = item[t]
  PROVE  ItemInv'
<1>1. \A u \in Producers : pc'[u] # "idle" => pc[u] # "idle" /\ item'[u] = item[u]
  BY DEF Local, Threads
<1>2. \A u \in Threads : pc'[u] \in {"data", "seq"} => pc[u] = pc'[u] /\ pos'[u] = pos[u] /\ item'[u] = item[u]
  BY DEF Local, Threads
<1>3. Claimed' = Claimed /\ seq_' = seq_ /\ data_' = data_
  BY DEF Local, Claimed
<1>4. \A p \in Claimed : (Published(p))' <=> Published(p)
  BY <1>3 DEF Published, Slot
<1>5. /\ \A u \in Producers : pc'[u] # "idle" => item'[u] \in 1..used'
      /\ \A u, v \in Producers : pc'[u] # "idle" /\ pc'[v] # "idle" /\ item'[u] = item'[v] => u = v
  BY <1>1 DEF Inv, ItemInv
<1>6. /\ \A p \in Claimed' : (Published(p))' => data_'[Slot(p)] \in 1..used'
      /\ \A p, q \in Claimed' :
           (Published(p))' /\ (Published(q))' /\ data_'[Slot(p)] = data_'[Slot(q)] => p = q
  BY <1>3, <1>4 DEF Inv, ItemInv
<1>7. \A p \in Claimed' : \A u \in Producers :
        (Published(p))' /\ pc'[u] # "idle" => data_'[Slot(p)] # item'[u]
  BY <1>1, <1>3, <1>4 DEF Inv, ItemInv
<1>8. \A u \in Producers : pc'[u] = "seq" => data_'[Slot(pos'[u])] = item'[u]
  BY <1>2, <1>3 DEF Inv, ItemInv, Threads
<1>9. /\ \A u \in Consumers : (Reading(u))' => data_'[Slot(pos'[u])] \in Item
      /\ \A u \in Consumers : pc'[u] = "seq" => item'[u] = data_'[Slot(pos'[u])]
  BY <1>2, <1>3 DEF Inv, ItemInv, Threads, Reading
<1> QED BY <1>5, <1>6, <1>7, <1>8, <1>9 DEF ItemInv, Slot

-----------------------------------------------------------------------------
(* The types of every step.                                                  *)
LEMMA TypeInit == Init => TypeOK
  BY BoundedQueueAssumption DEF Init, TypeOK, Slots

(* No step leaves them.                                                     *)
LEMMA TypeNext == TypeOK /\ [Next]_vars => TypeOK'
<1> SUFFICES ASSUME TypeOK, [Next]_vars PROVE TypeOK'
  OBVIOUS
<1> USE BoundedQueueAssumption
<1>1. ASSUME NEW t \in Producers, EnqueueCall(t) PROVE TypeOK'
  BY <1>1 DEF TypeOK, EnqueueCall, Goto, Threads, Item
<1>2. ASSUME NEW t \in Producers, EnqueueLoad(t) PROVE TypeOK'
  BY <1>2 DEF TypeOK, EnqueueLoad, Goto, Threads
<1>3. ASSUME NEW t \in Producers, EnqueueTest(t) PROVE TypeOK'
  BY <1>3 DEF TypeOK, EnqueueTest, Return, Goto, Threads
<1>4. ASSUME NEW t \in Producers, EnqueueCas(t) PROVE TypeOK'
  BY <1>4 DEF TypeOK, EnqueueCas, Goto, Threads
<1>5. ASSUME NEW t \in Producers, EnqueueData(t) PROVE TypeOK'
  BY <1>5 DEF TypeOK, EnqueueData, Goto, Threads
<1>6. ASSUME NEW t \in Producers, EnqueueSeq(t) PROVE TypeOK'
  <2>1. t \in Threads /\ pos[t] + 1 \in Nat /\ item[t] \in 0..MaxItems \union {NoItem}
    BY DEF TypeOK, Threads, Item
  <2> QED BY <2>1, <1>6 DEF TypeOK, EnqueueSeq, Return, Goto
<1>7. ASSUME NEW t \in Consumers, DequeueCall(t) PROVE TypeOK'
  BY <1>7 DEF TypeOK, DequeueCall, Goto, Threads
<1>8. ASSUME NEW t \in Consumers, DequeueLoad(t) PROVE TypeOK'
  BY <1>8 DEF TypeOK, DequeueLoad, Goto, Threads
<1>9. ASSUME NEW t \in Consumers, DequeueTest(t) PROVE TypeOK'
  BY <1>9 DEF TypeOK, DequeueTest, Return, Goto, Threads
<1>10. ASSUME NEW t \in Consumers, DequeueCas(t) PROVE TypeOK'
  BY <1>10 DEF TypeOK, DequeueCas, Goto, Threads
<1>11. ASSUME NEW t \in Consumers, DequeueData(t) PROVE TypeOK'
  <2>1. Slot(pos[t]) \in Slots
    BY SlotType DEF TypeOK, Threads
  <2> QED BY <2>1, <1>11 DEF TypeOK, DequeueData, Goto, Threads
<1>12. ASSUME NEW t \in Consumers, DequeueSeq(t) PROVE TypeOK'
  <2>1. t \in Threads /\ pos[t] + Capacity \in Nat /\ item[t] \in 0..MaxItems \union {NoItem}
    BY DEF TypeOK, Threads, Item
  <2> QED BY <2>1, <1>12 DEF TypeOK, DequeueSeq, Return, Goto
<1>13. CASE UNCHANGED vars
  BY <1>13 DEF TypeOK, vars
<1> QED
  BY <1>1, <1>2, <1>3, <1>4, <1>5, <1>6, <1>7, <1>8, <1>9, <1>10, <1>11, <1>12, <1>13
     DEF Next, ProducerStep, ConsumerStep

-----------------------------------------------------------------------------
(* The claimed and the free positions are in different slots.                *)
LEMMA Window ==
  ASSUME Inv
  PROVE  /\ Claimed \subseteq Nat /\ Free \subseteq Nat /\ Claimed \intersect Free = {}
         /\ \A p, q \in Claimed \union Free : Slot(p) = Slot(q) => p = q
         /\ Claimed \union Free = dequeuePos_..(dequeuePos_ + Capacity - 1)
<1>1. /\ Claimed \subseteq Nat /\ Free \subseteq Nat /\ Claimed \intersect Free = {}
      /\ Claimed \union Free = dequeuePos_..(dequeuePos_ + Capacity - 1)
  BY BoundedQueueAssumption DEF Inv, TypeOK, WindowInv, Claimed, Free
<1>2. ASSUME NEW p \in Claimed \union Free, NEW q \in Claimed \union Free, Slot(p) = Slot(q)
      PROVE  p = q
  <2>1. p \in Nat /\ q \in Nat
    BY <1>1
  <2>2. p < q + Capacity /\ q < p + Capacity
    BY <1>1, BoundedQueueAssumption DEF Inv, TypeOK
  <2> QED BY <2>1, <2>2, <1>2, OnePosition
<1> QED BY <1>1, <1>2

(* A consumer holds the slot of a free position.                             *)
LEMMA ReaderSlot ==
  ASSUME Inv, NEW t \in Consumers, Reading(t)
  PROVE  /\ pos[t] \in Nat /\ pos[t] + Capacity \in Free /\ Slot(pos[t] + Capacity) = Slot(pos[t])
         /\ seq_[Slot(pos[t])] = pos[t] + 1 /\ Slot(pos[t]) \in Slots
<1>1. pos[t] \in Nat
  BY DEF Inv, TypeOK, Threads
<1> QED BY <1>1, SlotTurn, SlotType DEF Inv, ClaimInv, Published

(* A producer holds the slot of a claimed position.                          *)
LEMMA FillerSlot ==
  ASSUME Inv, NEW t \in Producers, Filling(t)
  PROVE  /\ pos[t] \in Nat /\ pos[t] \in Claimed
         /\ seq_[Slot(pos[t])] = pos[t] /\ Slot(pos[t]) \in Slots
<1>1. pos[t] \in Nat
  BY DEF Inv, TypeOK, Threads
<1> QED BY <1>1, SlotType DEF Inv, ClaimInv

-----------------------------------------------------------------------------
(* Steps of enqueue, one lemma for each.                                     *)
LEMMA EnqueueCallInv ==
  ASSUME Inv, TypeOK', NEW t \in Producers, EnqueueCall(t)
  PROVE  Inv'
<1>1. Local(t) /\ pc'[t] = "load" /\ used \in Nat /\ used' = used + 1 /\ item'[t] = used + 1
  BY DEF EnqueueCall, Local, Goto, Inv, TypeOK, Threads
<1>2. \A u \in Threads \ {t} : pc'[u] = pc[u] /\ pos'[u] = pos[u] /\ item'[u] = item[u]
  BY <1>1 DEF Local
<1>3. WindowInv' /\ ClaimInv'
  BY <1>1, LocalWindow
<1>4. CursorInv'
  BY <1>1, <1>2 DEF Inv, CursorInv, Local, Threads, Slot, Published
<1>5. ItemInv'
  <2>1. Claimed' = Claimed /\ seq_' = seq_ /\ data_' = data_
    BY <1>1 DEF Local, Claimed
  <2>2. \A p \in Claimed : (Published(p))' <=> Published(p)
    BY <2>1 DEF Published, Slot
  <2>3. \A u \in Producers \ {t} : pc'[u] = pc[u] /\ pos'[u] = pos[u] /\ item'[u] = item[u]
    BY <1>2 DEF Threads
  <2>4. \A u \in Consumers : pc'[u] = pc[u] /\ pos'[u] = pos[u] /\ item'[u] = item[u]
    BY <1>2, BoundedQueueAssumption DEF Threads
  <2>5. /\ \A u \in Producers : pc'[u] # "idle" => item'[u] \in 1..used'
        /\ \A u, v \in Producers : pc'[u] # "idle" /\ pc'[v] # "idle" /\ item'[u] = item'[v] => u = v
    BY <1>1, <2>3 DEF Inv, ItemInv
  <2>6. /\ \A p \in Claimed' : (Published(p))' => data_'[Slot(p)] \in 1..used'
        /\ \A p, q \in Claimed' :
             (Published(p))' /\ (Published(q))' /\ data_'[Slot(p)] = data_'[Slot(q)] => p = q
    BY <1>1, <2>1, <2>2 DEF Inv, ItemInv
  <2>7. \A p \in Claimed' : \A u \in Producers :
          (Published(p))' /\ pc'[u] # "idle" => data_'[Slot(p)] # item'[u]
    BY <1>1, <2>1, <2>2, <2>3 DEF Inv, ItemInv
  <2>8. \A u \in Producers : pc'[u] = "seq" => data_'[Slot(pos'[u])] = item'[u]
    BY <1>1, <2>1, <2>3 DEF Inv, ItemInv
  <2>9. /\ \A u \in Consumers : (Reading(u))' => data_'[Slot(pos'[u])] \in Item
        /\ \A u \in Consumers : pc'[u] = "seq" => item'[u] = data_'[Slot(pos'[u])]
    BY <2>1, <2>4 DEF Inv, ItemInv, Reading
  <2> QED BY <2>5, <2>6, <2>7, <2>8, <2>9 DEF ItemInv, Slot
<1> QED BY <1>3, <1>4, <1>5 DEF Inv

(* The cursor is at most what it was read as.                               *)
LEMMA EnqueueLoadInv ==
  ASSUME Inv, TypeOK', NEW t \in Producers, EnqueueLoad(t)
  PROVE  Inv'
<1>1. Local(t) /\ pc'[t] = "test" /\ pc[t] = "load" /\ pos'[t] = enqueuePos_
      /\ used' = used /\ item' = item
  BY DEF EnqueueLoad, Local, Goto, Inv, TypeOK, Threads
<1>2. \A u \in Threads \ {t} : pc'[u] = pc[u] /\ pos'[u] = pos[u]
  BY <1>1 DEF Local
<1>3. CursorInv'
  BY <1>1, <1>2, BoundedQueueAssumption DEF Inv, TypeOK, CursorInv, Local, Threads, Slot, Published
<1>4. ItemInv'
  BY <1>1, LocalItems
<1> QED BY <1>1, <1>3, <1>4, LocalWindow DEF Inv

(* A producer goes on to its exchange only over a free slot.                *)
LEMMA EnqueueTestInv ==
  ASSUME Inv, TypeOK', NEW t \in Producers, EnqueueTest(t)
  PROVE  Inv'
<1>1. /\ Local(t) /\ pc[t] = "test" /\ used' = used
      /\ \A u \in Threads \ {t} : pc'[u] = pc[u] /\ pos'[u] = pos[u]
  BY DEF EnqueueTest, Return, Local, Goto, Inv, TypeOK, Threads
<1>2. pos[t] \in Nat /\ seq_[Slot(pos[t])] \in Nat
  BY SlotType DEF Inv, TypeOK, Threads
<1>3. \/ pc'[t] = "cas" /\ seq_[Slot(pos[t])] = pos[t] /\ item' = item /\ pos' = pos
      \/ pc'[t] = "idle"
      \/ pc'[t] = "load" /\ item' = item /\ pos' = pos
  BY <1>2 DEF EnqueueTest, Return, Goto, Inv, TypeOK, Threads
<1>4. CursorInv'
  BY <1>1, <1>3, BoundedQueueAssumption DEF Inv, CursorInv, Local, Threads, Slot, Published
<1>5. ItemInv'
  BY <1>1, <1>3, LocalItems
<1> QED BY <1>1, <1>4, <1>5, LocalWindow DEF Inv

(* An exchange that fails.                                                   *)
LEMMA EnqueueRetryInv ==
  ASSUME Inv, TypeOK', NEW t \in Producers, EnqueueCas(t), pc'[t] # "data"
  PROVE  Inv'
<1>1. /\ Local(t) /\ pc[t] = "cas" /\ used' = used /\ item' = item /\ pos' = pos /\ pc'[t] = "load"
      /\ \A u \in Threads \ {t} : pc'[u] = pc[u] /\ pos'[u] = pos[u]
  BY DEF EnqueueCas, Local, Goto, Inv, TypeOK, Threads
<1>2. CursorInv'
  BY <1>1, BoundedQueueAssumption DEF Inv, CursorInv, Local, Threads, Slot, Published
<1>3. ItemInv'
  BY <1>1, LocalItems
<1> QED BY <1>1, <1>2, <1>3, LocalWindow DEF Inv

-----------------------------------------------------------------------------
(* Steps of dequeue that move only their thread.                             *)
LEMMA DequeueCallInv ==
  ASSUME Inv, TypeOK', NEW t \in Consumers, DequeueCall(t)
  PROVE  Inv'
<1>1. /\ Local(t) /\ pc'[t] = "load" /\ used' = used /\ t \notin Producers
      /\ \A u \in Threads \ {t} : pc'[u] = pc[u] /\ pos'[u] = pos[u]
  BY BoundedQueueAssumption DEF DequeueCall, Local, Goto, Inv, TypeOK, Threads
<1>2. CursorInv'
  BY <1>1 DEF Inv, CursorInv, Local, Threads, Slot, Published
<1>3. ItemInv'
  BY <1>1, LocalItems
<1> QED BY <1>1, <1>2, <1>3, LocalWindow DEF Inv

(* The same of the cursor of dequeue.                                       *)
LEMMA DequeueLoadInv ==
  ASSUME Inv, TypeOK', NEW t \in Consumers, DequeueLoad(t)
  PROVE  Inv'
<1>1. /\ Local(t) /\ pc'[t] = "test" /\ pos'[t] = dequeuePos_ /\ used' = used /\ t \notin Producers
      /\ \A u \in Threads \ {t} : pc'[u] = pc[u] /\ pos'[u] = pos[u]
  BY BoundedQueueAssumption DEF DequeueLoad, Local, Goto, Inv, TypeOK, Threads
<1>2. CursorInv'
  BY <1>1 DEF Inv, TypeOK, CursorInv, Local, Threads, Slot, Published
<1>3. ItemInv'
  BY <1>1, LocalItems
<1> QED BY <1>1, <1>2, <1>3, LocalWindow DEF Inv

(* A consumer goes on to its exchange only over a published position.       *)
LEMMA DequeueTestInv ==
  ASSUME Inv, TypeOK', NEW t \in Consumers, DequeueTest(t)
  PROVE  Inv'
<1>1. /\ Local(t) /\ pc[t] = "test" /\ used' = used /\ t \notin Producers
      /\ \A u \in Threads \ {t} : pc'[u] = pc[u] /\ pos'[u] = pos[u]
  BY BoundedQueueAssumption DEF DequeueTest, Return, Local, Goto, Inv, TypeOK, Threads
<1>2. pos[t] \in Nat /\ seq_[Slot(pos[t])] \in Nat
  BY SlotType DEF Inv, TypeOK, Threads
<1>3. \/ pc'[t] = "cas" /\ Published(pos[t]) /\ pos' = pos
      \/ pc'[t] \in {"idle", "load"}
  BY <1>2 DEF DequeueTest, Return, Goto, Inv, TypeOK, Threads, Published
<1>4. CursorInv'
  BY <1>1, <1>3 DEF Inv, CursorInv, Local, Threads, Slot, Published
<1>5. ItemInv'
  BY <1>1, LocalItems
<1> QED BY <1>1, <1>4, <1>5, LocalWindow DEF Inv

(* An exchange that fails.                                                  *)
LEMMA DequeueRetryInv ==
  ASSUME Inv, TypeOK', NEW t \in Consumers, DequeueCas(t), pc'[t] # "data"
  PROVE  Inv'
<1>1. /\ Local(t) /\ pc[t] = "cas" /\ used' = used /\ pc'[t] = "load" /\ t \notin Producers
      /\ \A u \in Threads \ {t} : pc'[u] = pc[u] /\ pos'[u] = pos[u]
  BY BoundedQueueAssumption DEF DequeueCas, Local, Goto, Inv, TypeOK, Threads
<1>2. CursorInv'
  BY <1>1 DEF Inv, CursorInv, Local, Threads, Slot, Published
<1>3. ItemInv'
  BY <1>1, LocalItems
<1> QED BY <1>1, <1>2, <1>3, LocalWindow DEF Inv

-----------------------------------------------------------------------------
(* A producer whose exchange succeeds has found a free slot.                 *)
LEMMA ClaimIsFree ==
  ASSUME Inv, NEW t \in Producers, pc[t] = "cas", pos[t] = enqueuePos_
  PROVE  /\ enqueuePos_ \in Free /\ seq_[Slot(enqueuePos_)] = enqueuePos_
         /\ dequeuePos_ \in Nat /\ enqueuePos_ \in Nat
<1> USE BoundedQueueAssumption
<1>1. /\ enqueuePos_ \in Nat /\ dequeuePos_ \in Nat
      /\ dequeuePos_ =< enqueuePos_ /\ enqueuePos_ =< dequeuePos_ + Capacity
      /\ seq_[Slot(enqueuePos_)] = enqueuePos_
  BY DEF Inv, TypeOK, WindowInv, CursorInv
<1>2. ASSUME enqueuePos_ = dequeuePos_ + Capacity PROVE FALSE
  <2>1. Slot(enqueuePos_) = Slot(dequeuePos_) /\ dequeuePos_ \in Claimed
    BY <1>1, <1>2, SlotTurn DEF Claimed
  <2>2. seq_[Slot(dequeuePos_)] \in {dequeuePos_, dequeuePos_ + 1}
    BY <2>1 DEF Inv, WindowInv, Published
  <2> QED BY <1>1, <1>2, <2>1, <2>2
<1> QED BY <1>1, <1>2 DEF Free

(* Its position becomes a claimed one, and the others keep theirs.          *)
LEMMA EnqueueClaimInv ==
  ASSUME Inv, TypeOK', NEW t \in Producers, EnqueueCas(t), pc'[t] = "data"
  PROVE  Inv'
<1> DEFINE e == enqueuePos_
<1>1. /\ pc[t] = "cas" /\ pos[t] = e /\ enqueuePos_' = e + 1
      /\ dequeuePos_' = dequeuePos_ /\ seq_' = seq_ /\ data_' = data_
      /\ pos' = pos /\ item' = item /\ used' = used
      /\ \A u \in Threads \ {t} : pc'[u] = pc[u]
  BY DEF EnqueueCas, Goto, Inv, TypeOK, Threads
<1>2. e \in Free /\ seq_[Slot(e)] = e /\ dequeuePos_ \in Nat /\ e \in Nat
  BY <1>1, ClaimIsFree
<1>3. Claimed' = Claimed \union {e} /\ Free' = Free \ {e}
  BY <1>1, <1>2, BoundedQueueAssumption DEF Claimed, Free, Inv, WindowInv
<1>4. /\ \A u \in Producers : (Filling(u))' <=> Filling(u) \/ u = t
      /\ \A u \in Consumers : (Reading(u))' <=> Reading(u)
      /\ \A u \in Producers : (pc'[u] # "idle") <=> (pc[u] # "idle")
      /\ \A u \in Producers : pc'[u] = "seq" <=> pc[u] = "seq"
      /\ \A u \in Consumers : pc'[u] = pc[u]
      /\ ~ Filling(t)
  BY <1>1, BoundedQueueAssumption DEF Filling, Reading, Threads
<1>5. \A p : (Published(p))' <=> Published(p)
  BY <1>1 DEF Published, Slot
<1>6. \A p \in Claimed : p # e /\ p \in Nat
  BY <1>2 DEF Claimed
<1>7. ~ Published(e)
  BY <1>2 DEF Published
<1>8. WindowInv'
  <2>1. dequeuePos_' =< enqueuePos_' /\ enqueuePos_' =< dequeuePos_' + Capacity
    BY <1>1, <1>2, BoundedQueueAssumption DEF Free, Inv, WindowInv
  <2>2. ASSUME NEW p \in Claimed'
        PROVE  \/ (Published(p))'
               \/ seq_'[Slot(p)] = p /\ \E u \in Producers : (Filling(u))' /\ pos'[u] = p
    BY <1>1, <1>2, <1>3, <1>4, <1>5 DEF Inv, WindowInv
  <2>3. ASSUME NEW p \in Free'
        PROVE  \/ seq_'[Slot(p)] = p
               \/ /\ seq_'[Slot(p)] = p - Capacity + 1
                  /\ \E u \in Consumers : (Reading(u))' /\ pos'[u] = p - Capacity
    BY <1>1, <1>3, <1>4 DEF Inv, WindowInv
  <2> QED BY <2>1, <2>2, <2>3 DEF WindowInv, Slot
<1>9. ClaimInv'
  <2>1. \A u \in Producers : (Filling(u))' => pos'[u] \in Claimed' /\ seq_'[Slot(pos'[u])] = pos'[u]
    BY <1>1, <1>2, <1>3, <1>4 DEF Inv, ClaimInv
  <2>2. \A u, v \in Producers : (Filling(u))' /\ (Filling(v))' /\ pos'[u] = pos'[v] => u = v
    BY <1>1, <1>4, <1>6 DEF Inv, ClaimInv
  <2>3. \A u \in Consumers : (Reading(u))' => pos'[u] + Capacity \in Free' /\ (Published(pos[u]))'
    <3> SUFFICES ASSUME NEW u \in Consumers, Reading(u)
                 PROVE  pos[u] + Capacity \in Free \ {e} /\ Published(pos[u])
      BY <1>1, <1>3, <1>4, <1>5
    <3>1. pos[u] + Capacity \in Free /\ Slot(pos[u] + Capacity) = Slot(pos[u]) /\ pos[u] \in Nat
          /\ Published(pos[u])
      BY ReaderSlot DEF Published
    <3>2. ASSUME pos[u] + Capacity = e PROVE FALSE
      BY <3>1, <3>2, <1>2, BoundedQueueAssumption DEF Published
    <3> QED BY <3>1, <3>2
  <2>4. \A u, v \in Consumers : (Reading(u))' /\ (Reading(v))' /\ pos'[u] = pos'[v] => u = v
    BY <1>1, <1>4 DEF Inv, ClaimInv
  <2> QED BY <2>1, <2>2, <2>3, <2>4, <1>1 DEF ClaimInv, Slot, Published
<1>10. CursorInv'
  <2>1. \A u \in Producers : pc'[u] \in {"test", "cas"} => pos'[u] =< e /\ pos'[u] \in Nat
    BY <1>1 DEF Inv, TypeOK, CursorInv, Threads
  <2>2. \A u \in Consumers : pc'[u] \in {"test", "cas"} => pos'[u] =< dequeuePos_'
    BY <1>1, <1>4 DEF Inv, CursorInv
  <2>3. \A u \in Consumers : pc'[u] = "cas" /\ pos'[u] = dequeuePos_' => (Published(pos[u]))'
    BY <1>1, <1>4, <1>5 DEF Inv, CursorInv
  <2>4. \A u \in Producers : pc'[u] \in {"test", "cas"} => pos'[u] =< enqueuePos_' /\ pos'[u] # enqueuePos_'
    BY <2>1, <1>1, <1>2
  <2> QED BY <2>2, <2>3, <2>4, <1>1 DEF CursorInv, Published, Slot
<1>11. ItemInv'
  <2>1. /\ \A u \in Producers : pc'[u] # "idle" => item'[u] \in 1..used'
        /\ \A u, v \in Producers : pc'[u] # "idle" /\ pc'[v] # "idle" /\ item'[u] = item'[v] => u = v
    BY <1>1, <1>4 DEF Inv, ItemInv
  <2>2. /\ \A p \in Claimed' : (Published(p))' => data_'[Slot(p)] \in 1..used'
        /\ \A p, q \in Claimed' :
             (Published(p))' /\ (Published(q))' /\ data_'[Slot(p)] = data_'[Slot(q)] => p = q
    BY <1>1, <1>3, <1>5, <1>7 DEF Inv, ItemInv
  <2>3. \A p \in Claimed' : \A u \in Producers :
          (Published(p))' /\ pc'[u] # "idle" => data_'[Slot(p)] # item'[u]
    BY <1>1, <1>3, <1>4, <1>5, <1>7 DEF Inv, ItemInv
  <2>4. \A u \in Producers : pc'[u] = "seq" => data_'[Slot(pos'[u])] = item'[u]
    BY <1>1, <1>4 DEF Inv, ItemInv
  <2>5. /\ \A u \in Consumers : (Reading(u))' => data_'[Slot(pos'[u])] \in Item
        /\ \A u \in Consumers : pc'[u] = "seq" => item'[u] = data_'[Slot(pos'[u])]
    BY <1>1, <1>4 DEF Inv, ItemInv
  <2> QED BY <2>1, <2>2, <2>3, <2>4, <2>5 DEF ItemInv, Slot
<1> QED BY <1>8, <1>9, <1>10, <1>11 DEF Inv

-----------------------------------------------------------------------------
(* A consumer whose exchange succeeds has found a published position.        *)
LEMMA TakeIsPublished ==
  ASSUME Inv, NEW t \in Consumers, pc[t] = "cas", pos[t] = dequeuePos_
  PROVE  /\ dequeuePos_ \in Claimed /\ Published(dequeuePos_)
         /\ dequeuePos_ \in Nat /\ enqueuePos_ \in Nat
<1> USE BoundedQueueAssumption
<1>1. /\ enqueuePos_ \in Nat /\ dequeuePos_ \in Nat
      /\ dequeuePos_ =< enqueuePos_ /\ enqueuePos_ =< dequeuePos_ + Capacity
      /\ Published(dequeuePos_)
  BY DEF Inv, TypeOK, WindowInv, CursorInv
<1>2. ASSUME enqueuePos_ = dequeuePos_ PROVE FALSE
  <2>1. dequeuePos_ \in Free
    BY <1>1, <1>2 DEF Free
  <2>2. seq_[Slot(dequeuePos_)] \in {dequeuePos_, dequeuePos_ - Capacity + 1}
    BY <2>1 DEF Inv, WindowInv
  <2> QED BY <1>1, <2>2 DEF Published
<1> QED BY <1>1, <1>2 DEF Claimed

(* Its position becomes a free one, which it still holds.                   *)
LEMMA DequeueTakeInv ==
  ASSUME Inv, TypeOK', NEW t \in Consumers, DequeueCas(t), pc'[t] = "data"
  PROVE  Inv'
<1> DEFINE d == dequeuePos_
<1>1. /\ pc[t] = "cas" /\ pos[t] = d /\ dequeuePos_' = d + 1
      /\ enqueuePos_' = enqueuePos_ /\ seq_' = seq_ /\ data_' = data_
      /\ pos' = pos /\ item' = item /\ used' = used
      /\ \A u \in Threads \ {t} : pc'[u] = pc[u]
  BY DEF DequeueCas, Goto, Inv, TypeOK, Threads
<1>2. d \in Claimed /\ Published(d) /\ d \in Nat /\ enqueuePos_ \in Nat /\ enqueuePos_ > d
  BY <1>1, TakeIsPublished DEF Claimed
<1>3. Claimed' = Claimed \ {d} /\ Free' = Free \union {d + Capacity}
  BY <1>1, <1>2, BoundedQueueAssumption DEF Claimed, Free, Inv, WindowInv
<1>4. /\ \A u \in Producers : (Filling(u))' <=> Filling(u)
      /\ \A u \in Consumers : (Reading(u))' <=> Reading(u) \/ u = t
      /\ \A u \in Producers : pc'[u] = pc[u]
      /\ \A u \in Consumers : pc'[u] = "seq" <=> pc[u] = "seq"
      /\ ~ Reading(t)
  BY <1>1, BoundedQueueAssumption DEF Filling, Reading, Threads
<1>5. \A p : (Published(p))' <=> Published(p)
  BY <1>1 DEF Published, Slot
<1>6. seq_[Slot(d)] = d + 1 /\ seq_[Slot(d + Capacity)] = d + 1
  BY <1>2, SlotTurn DEF Published
<1>7. WindowInv'
  <2>1. dequeuePos_' =< enqueuePos_' /\ enqueuePos_' =< dequeuePos_' + Capacity
    BY <1>1, <1>2, BoundedQueueAssumption DEF Inv, WindowInv
  <2>2. ASSUME NEW p \in Claimed'
        PROVE  \/ (Published(p))'
               \/ seq_'[Slot(p)] = p /\ \E u \in Producers : (Filling(u))' /\ pos'[u] = p
    BY <1>1, <1>3, <1>4, <1>5 DEF Inv, WindowInv
  <2>3. ASSUME NEW p \in Free'
        PROVE  \/ seq_'[Slot(p)] = p
               \/ /\ seq_'[Slot(p)] = p - Capacity + 1
                  /\ \E u \in Consumers : (Reading(u))' /\ pos'[u] = p - Capacity
    <3>1. CASE p \in Free
      BY <3>1, <1>1, <1>4 DEF Inv, WindowInv
    <3>2. CASE p = d + Capacity
      <4>1. seq_'[Slot(p)] = p - Capacity + 1 /\ pos'[t] = p - Capacity
        BY <3>2, <1>1, <1>2, <1>6, BoundedQueueAssumption
      <4> QED BY <4>1, <1>4
    <3> QED BY <3>1, <3>2, <1>3
  <2> QED BY <2>1, <2>2, <2>3 DEF WindowInv, Slot
<1>8. ClaimInv'
  <2>1. \A u \in Producers : (Filling(u))' => pos'[u] \in Claimed' /\ seq_'[Slot(pos'[u])] = pos'[u]
    <3> SUFFICES ASSUME NEW u \in Producers, Filling(u)
                 PROVE  pos[u] \in Claimed \ {d} /\ seq_[Slot(pos[u])] = pos[u]
      BY <1>1, <1>3, <1>4
    <3>1. pos[u] \in Claimed /\ seq_[Slot(pos[u])] = pos[u]
      BY FillerSlot
    <3> QED BY <3>1, <1>6, <1>2
  <2>2. \A u, v \in Producers : (Filling(u))' /\ (Filling(v))' /\ pos'[u] = pos'[v] => u = v
    BY <1>1, <1>4 DEF Inv, ClaimInv
  <2>3. \A u \in Consumers : (Reading(u))' => pos'[u] + Capacity \in Free' /\ (Published(pos[u]))'
    <3> SUFFICES ASSUME NEW u \in Consumers, Reading(u) \/ u = t
                 PROVE  pos[u] + Capacity \in Free \union {d + Capacity} /\ Published(pos[u])
      BY <1>1, <1>3, <1>4, <1>5
    <3>1. CASE u = t
      BY <3>1, <1>1, <1>2
    <3>2. CASE Reading(u)
      BY <3>2, ReaderSlot DEF Published
    <3> QED BY <3>1, <3>2
  <2>4. \A u, v \in Consumers : (Reading(u))' /\ (Reading(v))' /\ pos'[u] = pos'[v] => u = v
    <3>1. ASSUME NEW u \in Consumers, Reading(u) PROVE pos[u] # d
      <4>1. pos[u] + Capacity \in Free /\ pos[u] \in Nat
        BY <3>1, ReaderSlot
      <4> QED BY <4>1, <1>2, BoundedQueueAssumption DEF Free
    <3> QED BY <3>1, <1>1, <1>4 DEF Inv, ClaimInv
  <2> QED BY <2>1, <2>2, <2>3, <2>4, <1>1 DEF ClaimInv, Slot, Published
<1>9. CursorInv'
  <2>1. \A u \in Consumers : pc'[u] \in {"test", "cas"} => pos'[u] =< d /\ pos'[u] \in Nat
    BY <1>1 DEF Inv, TypeOK, CursorInv, Threads
  <2>2. \A u \in Producers : pc'[u] \in {"test", "cas"} => pos'[u] =< enqueuePos_'
    BY <1>1, <1>4 DEF Inv, CursorInv
  <2>3. \A u \in Producers : pc'[u] = "cas" /\ pos'[u] = enqueuePos_' => seq_'[Slot(pos'[u])] = pos'[u]
    BY <1>1, <1>4 DEF Inv, CursorInv
  <2>4. \A u \in Consumers : pc'[u] \in {"test", "cas"} => pos'[u] =< dequeuePos_' /\ pos'[u] # dequeuePos_'
    BY <2>1, <1>1, <1>2
  <2> QED BY <2>2, <2>3, <2>4, <1>1 DEF CursorInv, Published, Slot
<1>10. ItemInv'
  <2>1. /\ \A u \in Producers : pc'[u] # "idle" => item'[u] \in 1..used'
        /\ \A u, v \in Producers : pc'[u] # "idle" /\ pc'[v] # "idle" /\ item'[u] = item'[v] => u = v
    BY <1>1, <1>4 DEF Inv, ItemInv
  <2>2. /\ \A p \in Claimed' : (Published(p))' => data_'[Slot(p)] \in 1..used'
        /\ \A p, q \in Claimed' :
             (Published(p))' /\ (Published(q))' /\ data_'[Slot(p)] = data_'[Slot(q)] => p = q
    BY <1>1, <1>3, <1>5 DEF Inv, ItemInv
  <2>3. \A p \in Claimed' : \A u \in Producers :
          (Published(p))' /\ pc'[u] # "idle" => data_'[Slot(p)] # item'[u]
    BY <1>1, <1>3, <1>4, <1>5 DEF Inv, ItemInv
  <2>4. \A u \in Producers : pc'[u] = "seq" => data_'[Slot(pos'[u])] = item'[u]
    BY <1>1, <1>4 DEF Inv, ItemInv
  <2>5. data_[Slot(d)] \in Item
    <3>1. data_[Slot(d)] \in 1..used /\ used \in Nat /\ used =< MaxItems
      BY <1>2, BoundedQueueAssumption DEF Inv, ItemInv, TypeOK
    <3> QED BY <3>1, BoundedQueueAssumption DEF Item
  <2>6. /\ \A u \in Consumers : (Reading(u))' => data_'[Slot(pos'[u])] \in Item
        /\ \A u \in Consumers : pc'[u] = "seq" => item'[u] = data_'[Slot(pos'[u])]
    BY <2>5, <1>1, <1>4 DEF Inv, ItemInv
  <2> QED BY <2>1, <2>2, <2>3, <2>4, <2>6 DEF ItemInv, Slot
<1> QED BY <1>7, <1>8, <1>9, <1>10 DEF Inv

-----------------------------------------------------------------------------
(* Writing the data of a claimed position disturbs nobody.                   *)
LEMMA EnqueueDataInv ==
  ASSUME Inv, TypeOK', NEW t \in Producers, EnqueueData(t)
  PROVE  Inv'
<1>1. /\ pc[t] = "data" /\ pc'[t] = "seq" /\ data_' = [data_ EXCEPT ![Slot(pos[t])] = item[t]]
      /\ enqueuePos_' = enqueuePos_ /\ dequeuePos_' = dequeuePos_ /\ seq_' = seq_
      /\ pos' = pos /\ item' = item /\ used' = used
      /\ \A u \in Threads \ {t} : pc'[u] = pc[u]
  BY DEF EnqueueData, Goto, Inv, TypeOK, Threads
<1>2. /\ \A u \in Producers : (Filling(u))' <=> Filling(u)
      /\ \A u \in Consumers : (Reading(u))' <=> Reading(u)
      /\ \A u \in Producers : (pc'[u] # "idle") <=> (pc[u] # "idle")
      /\ \A u \in Producers : pc'[u] \in {"test", "cas"} => pc'[u] = pc[u]
      /\ \A u \in Consumers : pc'[u] = pc[u]
      /\ Filling(t)
  BY <1>1, BoundedQueueAssumption DEF Filling, Reading, Threads
<1>3. Claimed' = Claimed /\ Free' = Free /\ \A p : (Published(p))' <=> Published(p)
  BY <1>1 DEF Published, Slot, Claimed, Free
<1>4. WindowInv' /\ ClaimInv' /\ CursorInv'
  BY <1>1, <1>2, <1>3 DEF Inv, WindowInv, ClaimInv, CursorInv, Slot, Published
<1>5. ItemInv'
  <2>1. pos[t] \in Claimed /\ seq_[Slot(pos[t])] = pos[t] /\ Slot(pos[t]) \in Slots /\ pos[t] \in Nat
    BY <1>2, FillerSlot
  <2>2. ~ Published(pos[t])
    BY <2>1 DEF Published
  <2>3. ASSUME NEW p \in Claimed \union Free, p # pos[t]
        PROVE  data_'[Slot(p)] = data_[Slot(p)]
    <3>1. Slot(p) # Slot(pos[t]) /\ p \in Nat
      BY <2>1, <2>3, Window
    <3>2. Slot(p) \in Slots
      BY <3>1, SlotType
    <3> QED BY <3>1, <3>2, <1>1 DEF Inv, TypeOK
  <2>4. data_'[Slot(pos[t])] = item[t]
    BY <2>1, <1>1 DEF Inv, TypeOK
  <2>5. ASSUME NEW u \in Consumers, Reading(u) PROVE data_'[Slot(pos[u])] = data_[Slot(pos[u])]
    <3>1. pos[u] + Capacity \in Free /\ Slot(pos[u] + Capacity) = Slot(pos[u])
      BY <2>5, ReaderSlot
    <3>2. pos[u] + Capacity # pos[t]
      BY <3>1, <2>1, Window
    <3> QED BY <3>1, <3>2, <2>3
  <2>6. /\ \A u \in Producers : pc'[u] # "idle" => item'[u] \in 1..used'
        /\ \A u, v \in Producers : pc'[u] # "idle" /\ pc'[v] # "idle" /\ item'[u] = item'[v] => u = v
    BY <1>1, <1>2 DEF Inv, ItemInv
  <2>7. \A p \in Claimed : Published(p) => data_'[Slot(p)] = data_[Slot(p)]
    BY <2>2, <2>3
  <2>8. /\ \A p \in Claimed' : (Published(p))' => data_'[Slot(p)] \in 1..used'
        /\ \A p, q \in Claimed' :
             (Published(p))' /\ (Published(q))' /\ data_'[Slot(p)] = data_'[Slot(q)] => p = q
    BY <1>1, <1>3, <2>7 DEF Inv, ItemInv
  <2>9. \A p \in Claimed' : \A u \in Producers :
          (Published(p))' /\ pc'[u] # "idle" => data_'[Slot(p)] # item'[u]
    BY <1>1, <1>2, <1>3, <2>7 DEF Inv, ItemInv
  <2>10. \A u \in Producers : pc'[u] = "seq" => data_'[Slot(pos'[u])] = item'[u]
    <3> SUFFICES ASSUME NEW u \in Producers, pc'[u] = "seq" PROVE data_'[Slot(pos[u])] = item[u]
      BY <1>1
    <3>1. CASE u = t
      BY <3>1, <2>4
    <3>2. CASE u # t
      <4>1. pc[u] = "seq" /\ Filling(u)
        BY <3>2, <1>1 DEF Threads, Filling
      <4>2. pos[u] \in Claimed /\ pos[u] # pos[t]
        BY <4>1, <3>2, <1>2, FillerSlot DEF Inv, ClaimInv
      <4> QED BY <4>1, <4>2, <2>3 DEF Inv, ItemInv
    <3> QED BY <3>1, <3>2
  <2>11. /\ \A u \in Consumers : (Reading(u))' => data_'[Slot(pos'[u])] \in Item
         /\ \A u \in Consumers : pc'[u] = "seq" => item'[u] = data_'[Slot(pos'[u])]
    BY <1>1, <1>2, <2>5 DEF Inv, ItemInv, Reading
  <2> QED BY <2>6, <2>8, <2>9, <2>10, <2>11 DEF ItemInv, Slot
<1> QED BY <1>4, <1>5 DEF Inv

(* Reading the data of a position disturbs nobody either.                   *)
LEMMA DequeueDataInv ==
  ASSUME Inv, TypeOK', NEW t \in Consumers, DequeueData(t)
  PROVE  Inv'
<1>1. /\ pc[t] = "data" /\ pc'[t] = "seq" /\ item'[t] = data_[Slot(pos[t])]
      /\ enqueuePos_' = enqueuePos_ /\ dequeuePos_' = dequeuePos_ /\ seq_' = seq_
      /\ pos' = pos /\ data_' = data_ /\ used' = used
      /\ \A u \in Threads \ {t} : pc'[u] = pc[u] /\ item'[u] = item[u]
  BY DEF DequeueData, Goto, Inv, TypeOK, Threads
<1>2. /\ \A u \in Producers : (Filling(u))' <=> Filling(u)
      /\ \A u \in Consumers : (Reading(u))' <=> Reading(u)
      /\ \A u \in Producers : pc'[u] = pc[u] /\ item'[u] = item[u]
      /\ \A u \in Consumers : pc'[u] \in {"test", "cas"} => pc'[u] = pc[u]
  BY <1>1, BoundedQueueAssumption DEF Filling, Reading, Threads
<1>3. Claimed' = Claimed /\ Free' = Free /\ \A p : (Published(p))' <=> Published(p)
  BY <1>1 DEF Published, Slot, Claimed, Free
<1>4. WindowInv' /\ ClaimInv' /\ CursorInv'
  BY <1>1, <1>2, <1>3 DEF Inv, WindowInv, ClaimInv, CursorInv, Slot, Published
<1>5. ItemInv'
  <2>1. /\ \A u \in Producers : pc'[u] # "idle" => item'[u] \in 1..used'
        /\ \A u, v \in Producers : pc'[u] # "idle" /\ pc'[v] # "idle" /\ item'[u] = item'[v] => u = v
    BY <1>1, <1>2 DEF Inv, ItemInv
  <2>2. /\ \A p \in Claimed' : (Published(p))' => data_'[Slot(p)] \in 1..used'
        /\ \A p, q \in Claimed' :
             (Published(p))' /\ (Published(q))' /\ data_'[Slot(p)] = data_'[Slot(q)] => p = q
    BY <1>1, <1>3 DEF Inv, ItemInv
  <2>3. /\ \A p \in Claimed' : \A u \in Producers :
             (Published(p))' /\ pc'[u] # "idle" => data_'[Slot(p)] # item'[u]
        /\ \A u \in Producers : pc'[u] = "seq" => data_'[Slot(pos'[u])] = item'[u]
    BY <1>1, <1>2, <1>3 DEF Inv, ItemInv
  <2>4. /\ \A u \in Consumers : (Reading(u))' => data_'[Slot(pos'[u])] \in Item
        /\ \A u \in Consumers : pc'[u] = "seq" => item'[u] = data_'[Slot(pos'[u])]
    BY <1>1, <1>2 DEF Inv, ItemInv, Threads
  <2> QED BY <2>1, <2>2, <2>3, <2>4 DEF ItemInv, Slot
<1> QED BY <1>4, <1>5 DEF Inv

-----------------------------------------------------------------------------
(* Publishing a position hands its slot to the consumers.                    *)
LEMMA EnqueueSeqInv ==
  ASSUME Inv, TypeOK', NEW t \in Producers, EnqueueSeq(t)
  PROVE  Inv'
<1> DEFINE c == pos[t]
<1>1. /\ pc[t] = "seq" /\ pc'[t] = "idle" /\ seq_' = [seq_ EXCEPT ![Slot(c)] = c + 1]
      /\ enqueuePos_' = enqueuePos_ /\ dequeuePos_' = dequeuePos_ /\ data_' = data_
      /\ used' = used
      /\ \A u \in Threads \ {t} : pc'[u] = pc[u] /\ pos'[u] = pos[u] /\ item'[u] = item[u]
  BY DEF EnqueueSeq, Return, Goto, Inv, TypeOK, Threads
<1>2. /\ Filling(t)
      /\ \A u \in Producers : (Filling(u))' <=> Filling(u) /\ u # t
      /\ \A u \in Consumers : (Reading(u))' <=> Reading(u)
      /\ \A u \in Producers : pc'[u] # "idle" => u # t /\ pc'[u] = pc[u]
      /\ \A u \in Producers \ {t} : pos'[u] = pos[u] /\ item'[u] = item[u]
      /\ \A u \in Consumers : pc'[u] = pc[u] /\ pos'[u] = pos[u] /\ item'[u] = item[u]
  BY <1>1, BoundedQueueAssumption DEF Filling, Reading, Threads
<1>3. Claimed' = Claimed /\ Free' = Free
  BY <1>1 DEF Claimed, Free
<1>4. c \in Claimed /\ seq_[Slot(c)] = c /\ Slot(c) \in Slots /\ c \in Nat
  BY <1>2, FillerSlot
<1> HIDE DEF c
<1>5. ~ Published(c) /\ seq_'[Slot(c)] = c + 1
  BY <1>1, <1>4 DEF Published, Inv, TypeOK
<1>6. ASSUME NEW p \in Claimed \union Free, p # c PROVE seq_'[Slot(p)] = seq_[Slot(p)]
  <2>1. Slot(p) # Slot(c) /\ p \in Nat
    BY <1>4, <1>6, Window
  <2>2. Slot(p) \in Slots
    BY <2>1, SlotType
  <2> QED BY <2>1, <2>2, <1>1 DEF Inv, TypeOK
<1>7. ASSUME NEW u \in Consumers, Reading(u) PROVE seq_'[Slot(pos[u])] = seq_[Slot(pos[u])]
  <2>1. pos[u] + Capacity \in Free /\ Slot(pos[u] + Capacity) = Slot(pos[u])
    BY <1>7, ReaderSlot
  <2>2. pos[u] + Capacity # c
    BY <2>1, <1>4, Window
  <2> QED BY <2>1, <2>2, <1>6
<1>8. \A p \in Claimed : (Published(p))' <=> Published(p) \/ p = c
  BY <1>4, <1>5, <1>6 DEF Published, Slot
<1>9. WindowInv'
  <2>1. dequeuePos_' =< enqueuePos_' /\ enqueuePos_' =< dequeuePos_' + Capacity
    BY <1>1 DEF Inv, WindowInv
  <2>2. ASSUME NEW p \in Claimed'
        PROVE  \/ (Published(p))'
               \/ seq_'[Slot(p)] = p /\ \E u \in Producers : (Filling(u))' /\ pos'[u] = p
    <3>1. CASE p = c
      BY <3>1, <1>3, <1>8
    <3>2. CASE p # c /\ Published(p)
      BY <3>2, <1>3, <1>8
    <3>3. CASE p # c /\ seq_[Slot(p)] = p /\ \E u \in Producers : Filling(u) /\ pos[u] = p
      <4>1. PICK u \in Producers : Filling(u) /\ pos[u] = p
        BY <3>3
      <4>2. u # t /\ (Filling(u))' /\ pos'[u] = p
        BY <4>1, <3>3, <1>2 DEF c
      <4> QED BY <4>2, <3>3, <1>3, <1>6
    <3> QED BY <3>1, <3>2, <3>3, <1>3 DEF Inv, WindowInv
  <2>3. ASSUME NEW p \in Free'
        PROVE  \/ seq_'[Slot(p)] = p
               \/ /\ seq_'[Slot(p)] = p - Capacity + 1
                  /\ \E u \in Consumers : (Reading(u))' /\ pos'[u] = p - Capacity
    <3>1. p \in Free /\ seq_'[Slot(p)] = seq_[Slot(p)]
      BY <1>3, <1>4, <1>6, Window
    <3> QED BY <3>1, <1>2 DEF Inv, WindowInv
  <2> QED BY <2>1, <2>2, <2>3 DEF WindowInv, Slot
<1>10. ClaimInv'
  <2>1. \A u \in Producers : (Filling(u))' => pos'[u] \in Claimed' /\ seq_'[Slot(pos'[u])] = pos'[u]
    <3> SUFFICES ASSUME NEW u \in Producers, Filling(u), u # t
                 PROVE  pos[u] \in Claimed /\ seq_'[Slot(pos[u])] = pos[u]
      BY <1>2, <1>3
    <3>1. pos[u] \in Claimed /\ seq_[Slot(pos[u])] = pos[u] /\ pos[u] # c
      BY <1>2, FillerSlot DEF Inv, ClaimInv, c
    <3> QED BY <3>1, <1>6
  <2>2. \A u, v \in Producers : (Filling(u))' /\ (Filling(v))' /\ pos'[u] = pos'[v] => u = v
    BY <1>2 DEF Inv, ClaimInv
  <2>3. \A u \in Consumers : (Reading(u))' => pos'[u] + Capacity \in Free' /\ (Published(pos[u]))'
    BY <1>2, <1>3, <1>7 DEF Inv, ClaimInv, Published, Slot
  <2>4. \A u, v \in Consumers : (Reading(u))' /\ (Reading(v))' /\ pos'[u] = pos'[v] => u = v
    BY <1>2 DEF Inv, ClaimInv
  <2> QED BY <2>1, <2>2, <2>3, <2>4 DEF ClaimInv, Slot, Published
<1>11. CursorInv'
  <2>1. \A u \in Producers : pc'[u] \in {"test", "cas"} => pos'[u] =< enqueuePos_'
    BY <1>1, <1>2 DEF Inv, CursorInv
  <2>2. \A u \in Producers : pc'[u] = "cas" /\ pos'[u] = enqueuePos_' => seq_'[Slot(pos'[u])] = pos'[u]
    <3> SUFFICES ASSUME NEW u \in Producers, u # t, pc[u] = "cas", pos[u] = enqueuePos_
                 PROVE  seq_'[Slot(enqueuePos_)] = enqueuePos_
      BY <1>1, <1>2
    <3>1. enqueuePos_ \in Free /\ seq_[Slot(enqueuePos_)] = enqueuePos_
      BY ClaimIsFree
    <3> QED BY <3>1, <1>4, <1>6, Window
  <2>3. \A u \in Consumers : pc'[u] \in {"test", "cas"} => pos'[u] =< dequeuePos_'
    BY <1>1, <1>2 DEF Inv, CursorInv
  <2>4. \A u \in Consumers : pc'[u] = "cas" /\ pos'[u] = dequeuePos_' => (Published(pos[u]))'
    <3> SUFFICES ASSUME NEW u \in Consumers, pc[u] = "cas", pos[u] = dequeuePos_
                 PROVE  seq_'[Slot(dequeuePos_)] = dequeuePos_ + 1
      BY <1>1, <1>2 DEF Published, Slot
    <3>1. dequeuePos_ \in Claimed /\ Published(dequeuePos_)
      BY TakeIsPublished
    <3> QED BY <3>1, <1>8 DEF Published, Slot
  <2> QED BY <2>1, <2>2, <2>3, <2>4 DEF CursorInv, Published, Slot
<1>12. ItemInv'
  <2>1. item[t] \in 1..used /\ data_[Slot(c)] = item[t]
    BY <1>1 DEF Inv, ItemInv, c
  <2>2. /\ \A u \in Producers : pc'[u] # "idle" => item'[u] \in 1..used'
        /\ \A u, v \in Producers : pc'[u] # "idle" /\ pc'[v] # "idle" /\ item'[u] = item'[v] => u = v
    BY <1>1, <1>2 DEF Inv, ItemInv
  <2>3. \A p \in Claimed' : (Published(p))' => data_'[Slot(p)] \in 1..used'
    BY <1>1, <1>3, <1>8, <2>1 DEF Inv, ItemInv
  <2>4. \A p, q \in Claimed' :
           (Published(p))' /\ (Published(q))' /\ data_'[Slot(p)] = data_'[Slot(q)] => p = q
    <3>1. \A p \in Claimed : Published(p) => data_[Slot(p)] # item[t]
      BY <1>1 DEF Inv, ItemInv
    <3> QED BY <3>1, <1>1, <1>3, <1>8, <2>1 DEF Inv, ItemInv
  <2>5. \A p \in Claimed' : \A u \in Producers :
          (Published(p))' /\ pc'[u] # "idle" => data_'[Slot(p)] # item'[u]
    <3> SUFFICES ASSUME NEW p \in Claimed, Published(p) \/ p = c,
                        NEW u \in Producers, u # t, pc[u] # "idle"
                 PROVE  data_[Slot(p)] # item[u]
      BY <1>1, <1>2, <1>3, <1>8
    <3>1. CASE p = c
      BY <3>1, <2>1, <1>1 DEF Inv, ItemInv
    <3>2. CASE Published(p)
      BY <3>2 DEF Inv, ItemInv
    <3> QED BY <3>1, <3>2
  <2>6. \A u \in Producers : pc'[u] = "seq" => data_'[Slot(pos'[u])] = item'[u]
    BY <1>1, <1>2 DEF Inv, ItemInv
  <2>7. /\ \A u \in Consumers : (Reading(u))' => data_'[Slot(pos'[u])] \in Item
        /\ \A u \in Consumers : pc'[u] = "seq" => item'[u] = data_'[Slot(pos'[u])]
    BY <1>1, <1>2 DEF Inv, ItemInv
  <2> QED BY <2>2, <2>3, <2>4, <2>5, <2>6, <2>7 DEF ItemInv, Slot
<1> QED BY <1>9, <1>10, <1>11, <1>12 DEF Inv

(* Giving a slot back frees its position of the next round.                  *)
LEMMA DequeueSeqInv ==
  ASSUME Inv, TypeOK', NEW t \in Consumers, DequeueSeq(t)
  PROVE  Inv'
<1> DEFINE f == pos[t] + Capacity
<1>1. /\ pc[t] = "seq" /\ pc'[t] = "idle" /\ seq_' = [seq_ EXCEPT ![Slot(pos[t])] = f]
      /\ enqueuePos_' = enqueuePos_ /\ dequeuePos_' = dequeuePos_ /\ data_' = data_
      /\ used' = used
      /\ \A u \in Threads \ {t} : pc'[u] = pc[u] /\ pos'[u] = pos[u] /\ item'[u] = item[u]
  BY DEF DequeueSeq, Return, Goto, Inv, TypeOK, Threads
<1>2. /\ Reading(t)
      /\ \A u \in Producers : (Filling(u))' <=> Filling(u)
      /\ \A u \in Consumers : (Reading(u))' <=> Reading(u) /\ u # t
      /\ \A u \in Consumers : pc'[u] # "idle" => u # t /\ pc'[u] = pc[u]
      /\ \A u \in Consumers \ {t} : pos'[u] = pos[u] /\ item'[u] = item[u]
      /\ \A u \in Producers : pc'[u] = pc[u] /\ pos'[u] = pos[u] /\ item'[u] = item[u]
  BY <1>1, BoundedQueueAssumption DEF Filling, Reading, Threads
<1>3. Claimed' = Claimed /\ Free' = Free
  BY <1>1 DEF Claimed, Free
<1>4. f \in Free /\ f \in Nat /\ Slot(f) = Slot(pos[t]) /\ Slot(f) \in Slots /\ pos[t] \in Nat
      /\ seq_[Slot(f)] = f - Capacity + 1
  BY <1>2, ReaderSlot, Window, BoundedQueueAssumption
<1>5. seq_'[Slot(f)] = f /\ seq_[Slot(f)] # f
  BY <1>1, <1>4, BoundedQueueAssumption DEF Inv, TypeOK
<1>a. ASSUME NEW u \in Consumers, Reading(u), u # t PROVE pos[u] + Capacity # f
  BY <1>a, <1>2, <1>4, ReaderSlot, BoundedQueueAssumption DEF Inv, ClaimInv
<1> HIDE DEF f
<1>6. ASSUME NEW p \in Claimed \union Free, p # f PROVE seq_'[Slot(p)] = seq_[Slot(p)]
  <2>1. Slot(p) # Slot(f) /\ p \in Nat
    BY <1>4, <1>6, Window
  <2>2. Slot(p) \in Slots
    BY <2>1, SlotType
  <2> QED BY <2>1, <2>2, <1>1, <1>4 DEF Inv, TypeOK
<1>7. ASSUME NEW u \in Consumers, Reading(u), u # t PROVE seq_'[Slot(pos[u])] = seq_[Slot(pos[u])]
  <2>1. pos[u] + Capacity \in Free /\ Slot(pos[u] + Capacity) = Slot(pos[u])
    BY <1>7, ReaderSlot
  <2> QED BY <2>1, <1>7, <1>a, <1>6
<1>8. \A p \in Claimed : p # f /\ seq_'[Slot(p)] = seq_[Slot(p)] /\ ((Published(p))' <=> Published(p))
  BY <1>4, <1>6, Window DEF Published, Slot
<1>9. WindowInv'
  <2>1. dequeuePos_' =< enqueuePos_' /\ enqueuePos_' =< dequeuePos_' + Capacity
    BY <1>1 DEF Inv, WindowInv
  <2>2. ASSUME NEW p \in Claimed'
        PROVE  \/ (Published(p))'
               \/ seq_'[Slot(p)] = p /\ \E u \in Producers : (Filling(u))' /\ pos'[u] = p
    BY <1>2, <1>3, <1>8 DEF Inv, WindowInv
  <2>3. ASSUME NEW p \in Free'
        PROVE  \/ seq_'[Slot(p)] = p
               \/ /\ seq_'[Slot(p)] = p - Capacity + 1
                  /\ \E u \in Consumers : (Reading(u))' /\ pos'[u] = p - Capacity
    <3>1. CASE p = f
      BY <3>1, <1>5
    <3>2. CASE p # f /\ seq_[Slot(p)] = p
      BY <3>2, <1>3, <1>6
    <3>3. CASE /\ p # f /\ seq_[Slot(p)] = p - Capacity + 1
               /\ \E u \in Consumers : Reading(u) /\ pos[u] = p - Capacity
      <4>1. PICK u \in Consumers : Reading(u) /\ pos[u] = p - Capacity
        BY <3>3
      <4>2. p \in Nat
        BY <1>3, Window
      <4>3. u # t
        BY <4>1, <4>2, <3>3, BoundedQueueAssumption DEF f
      <4> QED BY <4>1, <4>3, <3>3, <1>2, <1>3, <1>6
    <3> QED BY <3>1, <3>2, <3>3, <1>3 DEF Inv, WindowInv
  <2> QED BY <2>1, <2>2, <2>3 DEF WindowInv, Slot
<1>10. ClaimInv'
  <2>1. \A u \in Producers : (Filling(u))' => pos'[u] \in Claimed' /\ seq_'[Slot(pos'[u])] = pos'[u]
    BY <1>2, <1>3, <1>8 DEF Inv, ClaimInv
  <2>2. \A u, v \in Producers : (Filling(u))' /\ (Filling(v))' /\ pos'[u] = pos'[v] => u = v
    BY <1>2 DEF Inv, ClaimInv
  <2>3. \A u \in Consumers : (Reading(u))' => pos'[u] + Capacity \in Free' /\ (Published(pos[u]))'
    BY <1>2, <1>3, <1>7 DEF Inv, ClaimInv, Published, Slot
  <2>4. \A u, v \in Consumers : (Reading(u))' /\ (Reading(v))' /\ pos'[u] = pos'[v] => u = v
    BY <1>2 DEF Inv, ClaimInv
  <2> QED BY <2>1, <2>2, <2>3, <2>4 DEF ClaimInv, Slot, Published
<1>11. CursorInv'
  <2>1. \A u \in Consumers : pc'[u] \in {"test", "cas"} => pos'[u] =< dequeuePos_'
    BY <1>1, <1>2 DEF Inv, CursorInv
  <2>2. \A u \in Producers : pc'[u] \in {"test", "cas"} => pos'[u] =< enqueuePos_'
    BY <1>1, <1>2 DEF Inv, CursorInv
  <2>3. \A u \in Producers : pc'[u] = "cas" /\ pos'[u] = enqueuePos_' => seq_'[Slot(pos'[u])] = pos'[u]
    <3> SUFFICES ASSUME NEW u \in Producers, pc[u] = "cas", pos[u] = enqueuePos_
                 PROVE  seq_'[Slot(enqueuePos_)] = enqueuePos_
      BY <1>1, <1>2
    <3>1. enqueuePos_ \in Free /\ seq_[Slot(enqueuePos_)] = enqueuePos_
      BY ClaimIsFree
    <3> QED BY <3>1, <1>5, <1>6
  <2>4. \A u \in Consumers : pc'[u] = "cas" /\ pos'[u] = dequeuePos_' => (Published(pos[u]))'
    <3> SUFFICES ASSUME NEW u \in Consumers, pc[u] = "cas", pos[u] = dequeuePos_
                 PROVE  seq_'[Slot(dequeuePos_)] = dequeuePos_ + 1
      BY <1>1, <1>2 DEF Published, Slot
    <3>1. dequeuePos_ \in Claimed /\ Published(dequeuePos_)
      BY TakeIsPublished
    <3> QED BY <3>1, <1>8 DEF Published, Slot
  <2> QED BY <2>1, <2>2, <2>3, <2>4 DEF CursorInv, Published, Slot
<1>12. ItemInv'
  <2>1. /\ \A u \in Producers : pc'[u] # "idle" => item'[u] \in 1..used'
        /\ \A u, v \in Producers : pc'[u] # "idle" /\ pc'[v] # "idle" /\ item'[u] = item'[v] => u = v
    BY <1>1, <1>2 DEF Inv, ItemInv
  <2>2. /\ \A p \in Claimed' : (Published(p))' => data_'[Slot(p)] \in 1..used'
        /\ \A p, q \in Claimed' :
             (Published(p))' /\ (Published(q))' /\ data_'[Slot(p)] = data_'[Slot(q)] => p = q
    BY <1>1, <1>3, <1>8 DEF Inv, ItemInv
  <2>3. \A p \in Claimed' : \A u \in Producers :
          (Published(p))' /\ pc'[u] # "idle" => data_'[Slot(p)] # item'[u]
    BY <1>1, <1>2, <1>3, <1>8 DEF Inv, ItemInv
  <2>4. \A u \in Producers : pc'[u] = "seq" => data_'[Slot(pos'[u])] = item'[u]
    BY <1>1, <1>2 DEF Inv, ItemInv
  <2>5. /\ \A u \in Consumers : (Reading(u))' => data_'[Slot(pos'[u])] \in Item
        /\ \A u \in Consumers : pc'[u] = "seq" => item'[u] = data_'[Slot(pos'[u])]
    BY <1>1, <1>2 DEF Inv, ItemInv
  <2> QED BY <2>1, <2>2, <2>3, <2>4, <2>5 DEF ItemInv, Slot
<1> QED BY <1>9, <1>10, <1>11, <1>12 DEF Inv

-----------------------------------------------------------------------------
(* Inv is an inductive invariant of the specification.                       *)
LEMMA InvInit == Init => Inv
<1> SUFFICES ASSUME Init PROVE Inv
  OBVIOUS
<1>1. Claimed = {} /\ Free = Slots
  BY BoundedQueueAssumption DEF Init, Claimed, Free, Slots
<1>2. \A p \in Slots : Slot(p) = p
  BY RoundsUnique, BoundedQueueAssumption DEF Slot, Slots
<1>3. WindowInv
  BY <1>1, <1>2, BoundedQueueAssumption DEF Init, WindowInv
<1>4. ClaimInv /\ CursorInv /\ ItemInv
  BY <1>1 DEF Init, ClaimInv, CursorInv, ItemInv, Filling, Reading, Threads
<1> QED BY <1>3, <1>4, TypeInit DEF Inv

(* Each step by the lemma of its action.                                    *)
LEMMA InvNext == Inv /\ [Next]_vars => Inv'
<1> SUFFICES ASSUME Inv, [Next]_vars PROVE Inv'
  OBVIOUS
<1>1. TypeOK'
  BY TypeNext DEF Inv
<1>2. ASSUME NEW t \in Producers, ProducerStep(t) \/ EnqueueCall(t) PROVE Inv'
  BY <1>1, <1>2, EnqueueCallInv, EnqueueLoadInv, EnqueueTestInv, EnqueueRetryInv, EnqueueClaimInv,
     EnqueueDataInv, EnqueueSeqInv DEF ProducerStep
<1>3. ASSUME NEW t \in Consumers, ConsumerStep(t) \/ DequeueCall(t) PROVE Inv'
  BY <1>1, <1>3, DequeueCallInv, DequeueLoadInv, DequeueTestInv, DequeueRetryInv, DequeueTakeInv,
     DequeueDataInv, DequeueSeqInv DEF ConsumerStep
<1>4. CASE UNCHANGED vars
  BY <1>4 DEF vars, Inv, TypeOK, WindowInv, ClaimInv, CursorInv, ItemInv, Claimed, Free, Published,
              Filling, Reading, Slot
<1> QED BY <1>2, <1>3, <1>4 DEF Next

(* Every state of the ring satisfies the invariant.                          *)
LEMMA InvHolds == Spec => []Inv
  BY InvInit, InvNext, PTL DEF Spec

(***************************************************************************)
(* The data of a slot is not atomic and has no lock: two threads at the    *)
(* data of one slot would be a data race (mpmc_bounded_queue.h:34-103).    *)
(***************************************************************************)
THEOREM DataIsExclusive == Spec => []NoDataRace
<1>1. Inv => NoDataRace
  <2> SUFFICES ASSUME Inv, NEW t \in Threads, NEW u \in Threads, pc[t] = "data", pc[u] = "data",
                      Slot(pos[t]) = Slot(pos[u])
               PROVE  t = u
    BY DEF NoDataRace
  <2>1. CASE t \in Producers /\ u \in Producers
    <3>1. Filling(t) /\ Filling(u)
      BY <2>1 DEF Filling
    <3> QED BY <2>1, <3>1, FillerSlot, Window DEF Inv, ClaimInv
  <2>2. CASE t \in Consumers /\ u \in Consumers
    <3>1. Reading(t) /\ Reading(u)
      BY <2>2 DEF Reading
    <3>2. pos[t] + Capacity = pos[u] + Capacity /\ pos[t] \in Nat /\ pos[u] \in Nat
      BY <2>2, <3>1, ReaderSlot, Window
    <3>3. pos[t] = pos[u]
      BY <3>2, BoundedQueueAssumption
    <3> QED BY <2>2, <3>1, <3>3 DEF Inv, ClaimInv
  <2>3. ASSUME NEW p \in Producers, NEW c \in Consumers, pc[p] = "data", pc[c] = "data",
               Slot(pos[p]) = Slot(pos[c])
        PROVE  FALSE
    <3>1. Filling(p) /\ Reading(c)
      BY <2>3 DEF Filling, Reading
    <3> QED BY <2>3, <3>1, FillerSlot, ReaderSlot, Window
  <2> QED BY <2>1, <2>2, <2>3 DEF Threads
<1> QED BY <1>1, InvHolds, PTL

-----------------------------------------------------------------------------
(* The refinement: what the state of ClaimQueue is in a state of the ring.   *)
claimedBar == [k \in 1..(enqueuePos_ - dequeuePos_) |-> ItemAt(dequeuePos_ + k - 1)]
publishedBar == {ItemAt(p) : p \in {q \in dequeuePos_..(enqueuePos_ - 1) : seq_[Slot(q)] = q + 1}}
puttingBar == [t \in Producers |-> IF pc[t] \in {"data", "seq"} THEN item[t] ELSE NoItem]
takingBar == [t \in Consumers |-> IF pc[t] \in {"data", "seq"} THEN data_[Slot(pos[t])] ELSE NoItem]

(* The item of a claimed position is its producer's until it is published.   *)
LEMMA ItemOfPosition ==
  Inv => \A p \in Claimed :
           /\ ItemAt(p) \in Item
           /\ Published(p) => ItemAt(p) = data_[Slot(p)]
           /\ \A t \in Producers : Filling(t) /\ pos[t] = p => ItemAt(p) = item[t]
<1> SUFFICES ASSUME Inv, NEW p \in Claimed
             PROVE  /\ ItemAt(p) \in Item
                    /\ Published(p) => ItemAt(p) = data_[Slot(p)]
                    /\ \A t \in Producers : Filling(t) /\ pos[t] = p => ItemAt(p) = item[t]
  OBVIOUS
<1>0. \A x \in 1..used : x \in Item
  BY BoundedQueueAssumption DEF Inv, TypeOK, Item
<1>p. p \in Nat
  BY Window
<1>1. ASSUME Published(p) PROVE ItemAt(p) = data_[Slot(p)] /\ ItemAt(p) \in Item
  <2>1. ASSUME NEW t \in Claimer(p) PROVE FALSE
    <3>1. t \in Producers /\ Filling(t) /\ pos[t] = p
      BY DEF Claimer, Filling
    <3> QED BY <3>1, <1>1, <1>p, FillerSlot DEF Published
  <2>2. Claimer(p) = {}
    BY <2>1
  <2> QED BY <2>2, <1>0, <1>1 DEF ItemAt, Inv, ItemInv
<1>2. ASSUME NEW t \in Producers, Filling(t), pos[t] = p PROVE ItemAt(p) = item[t] /\ ItemAt(p) \in Item
  <2>1. \A u \in Claimer(p) : u = t
    BY <1>2 DEF Claimer, Filling, Inv, ClaimInv
  <2>2. t \in Claimer(p)
    BY <1>2 DEF Claimer, Filling
  <2>3. item[t] \in Item
    BY <1>0, <1>2 DEF Inv, ItemInv, Filling
  <2> QED BY <2>1, <2>2, <2>3 DEF ItemAt
<1> QED BY <1>1, <1>2 DEF Inv, WindowInv

(* The same of the next state.                                               *)
LEMMA ItemOfPositionNext ==
  Inv' => (\A p \in Claimed :
             /\ ItemAt(p) \in Item
             /\ Published(p) => ItemAt(p) = data_[Slot(p)]
             /\ \A t \in Producers : Filling(t) /\ pos[t] = p => ItemAt(p) = item[t])'
  BY ItemOfPosition, PTL

(* A step that keeps the threads at their positions keeps the items.         *)
LEMMA SameItems ==
  ASSUME Inv, Inv', NEW p \in Claimed, p \in Claimed',
         \/ Published(p) /\ (Published(p))' /\ data_'[Slot(p)] = data_[Slot(p)]
         \/ \E t \in Producers : /\ Filling(t) /\ pos[t] = p
                                 /\ (Filling(t))' /\ pos'[t] = p /\ item'[t] = item[t]
         \/ \E t \in Producers : /\ Filling(t) /\ pos[t] = p
                                 /\ (Published(p))' /\ data_'[Slot(p)] = item[t]
  PROVE  ItemAt(p)' = ItemAt(p)
  BY ItemOfPosition, ItemOfPositionNext DEF Slot

(* The claimed items, oldest first.                                          *)
LEMMA ClaimedItems ==
  Inv => /\ claimedBar \in Seq(Item) /\ Len(claimedBar) = enqueuePos_ - dequeuePos_
         /\ enqueuePos_ - dequeuePos_ \in Nat /\ dequeuePos_ \in Nat
         /\ \A k \in 1..(enqueuePos_ - dequeuePos_) :
              /\ dequeuePos_ + k - 1 \in Claimed
              /\ claimedBar[k] = ItemAt(dequeuePos_ + k - 1)
<1> SUFFICES ASSUME Inv
             PROVE  /\ claimedBar \in Seq(Item) /\ Len(claimedBar) = enqueuePos_ - dequeuePos_
                    /\ enqueuePos_ - dequeuePos_ \in Nat /\ dequeuePos_ \in Nat
                    /\ \A k \in 1..(enqueuePos_ - dequeuePos_) :
                         /\ dequeuePos_ + k - 1 \in Claimed
                         /\ claimedBar[k] = ItemAt(dequeuePos_ + k - 1)
  OBVIOUS
<1>1. enqueuePos_ - dequeuePos_ \in Nat /\ dequeuePos_ \in Nat /\ enqueuePos_ \in Nat
  BY DEF Inv, TypeOK, WindowInv
<1>2. \A k \in 1..(enqueuePos_ - dequeuePos_) : dequeuePos_ + k - 1 \in Claimed
  BY <1>1 DEF Claimed
<1>3. \A k \in 1..(enqueuePos_ - dequeuePos_) : ItemAt(dequeuePos_ + k - 1) \in Item
  BY <1>2, ItemOfPosition
<1>4. claimedBar \in [1..(enqueuePos_ - dequeuePos_) -> Item]
  BY <1>3 DEF claimedBar
<1> QED BY <1>1, <1>2, <1>4 DEF claimedBar

(* The same of the next state.                                               *)
LEMMA ClaimedItemsNext ==
  Inv' => (/\ claimedBar \in Seq(Item) /\ Len(claimedBar) = enqueuePos_ - dequeuePos_
           /\ enqueuePos_ - dequeuePos_ \in Nat /\ dequeuePos_ \in Nat
           /\ \A k \in 1..(enqueuePos_ - dequeuePos_) :
                /\ dequeuePos_ + k - 1 \in Claimed
                /\ claimedBar[k] = ItemAt(dequeuePos_ + k - 1))'
  BY ClaimedItems, PTL

(* While the cursors stand still the claimed items do, if each one does.     *)
LEMMA SameClaimed ==
  ASSUME Inv, enqueuePos_' = enqueuePos_, dequeuePos_' = dequeuePos_,
         \A p \in Claimed : ItemAt(p)' = ItemAt(p)
  PROVE  claimedBar' = claimedBar
<1>1. \A k \in 1..(enqueuePos_ - dequeuePos_) : dequeuePos_ + k - 1 \in Claimed
  BY ClaimedItems
<1>2. \A k \in 1..(enqueuePos_ - dequeuePos_) :
         ItemAt(dequeuePos_ + k - 1)' = ItemAt(dequeuePos_ + k - 1)
  BY <1>1 DEF ItemAt
<1> QED BY <1>2 DEF claimedBar

(* A move of one thread between its tests is invisible but for the result.   *)
LEMMA LocalBars ==
  ASSUME Inv, Inv', NEW t, Local(t)
  PROVE  /\ claimedBar' = claimedBar /\ publishedBar' = publishedBar
         /\ puttingBar' = puttingBar /\ takingBar' = takingBar
<1>1. /\ enqueuePos_' = enqueuePos_ /\ dequeuePos_' = dequeuePos_ /\ seq_' = seq_ /\ data_' = data_
      /\ Claimed' = Claimed
  BY DEF Local, Claimed
<1>2. \A u \in Producers : Filling(u) => (Filling(u))' /\ pos'[u] = pos[u] /\ item'[u] = item[u]
  BY DEF Local, Filling, Threads
<1>3. \A u \in Threads : /\ pc'[u] \in {"data", "seq"} <=> pc[u] \in {"data", "seq"}
                         /\ pc[u] \in {"data", "seq"} => pos'[u] = pos[u] /\ item'[u] = item[u]
  BY DEF Local, Threads
<1>4. \A p \in Claimed : (Published(p))' <=> Published(p)
  BY <1>1 DEF Published, Slot
<1>5. \A p \in Claimed : ItemAt(p)' = ItemAt(p)
  BY <1>1, <1>2, <1>4, SameItems DEF Inv, WindowInv
<1>6. claimedBar' = claimedBar
  BY <1>1, <1>5, SameClaimed
<1>7. publishedBar' = publishedBar
  BY <1>1, <1>4, <1>5 DEF publishedBar, Published, Claimed
<1>8. puttingBar' = puttingBar /\ takingBar' = takingBar
  BY <1>1, <1>3 DEF puttingBar, takingBar, Threads, Slot
<1> QED BY <1>6, <1>7, <1>8

(* Moving the data of a slot is invisible too.                               *)
LEMMA EnqueueDataBars ==
  ASSUME Inv, Inv', NEW t \in Producers, EnqueueData(t)
  PROVE  /\ claimedBar' = claimedBar /\ publishedBar' = publishedBar
         /\ puttingBar' = puttingBar /\ takingBar' = takingBar /\ result' = result
<1>1. /\ pc[t] = "data" /\ pc'[t] = "seq" /\ data_' = [data_ EXCEPT ![Slot(pos[t])] = item[t]]
      /\ enqueuePos_' = enqueuePos_ /\ dequeuePos_' = dequeuePos_ /\ seq_' = seq_
      /\ pos' = pos /\ item' = item /\ result' = result /\ Claimed' = Claimed
      /\ \A u \in Threads \ {t} : pc'[u] = pc[u]
  BY DEF EnqueueData, Goto, Inv, TypeOK, Threads, Claimed
<1>2. \A u \in Threads : pc'[u] \in {"data", "seq"} <=> pc[u] \in {"data", "seq"}
  BY <1>1
<1>3. \A u \in Producers : Filling(u) => (Filling(u))'
  BY <1>2 DEF Filling, Threads
<1>4. \A p \in Claimed : (Published(p))' <=> Published(p)
  BY <1>1 DEF Published, Slot
<1>5. pos[t] \in Claimed /\ ~ Published(pos[t])
  BY <1>1, FillerSlot DEF Filling, Published
<1>6. ASSUME NEW p \in Claimed \union Free, p # pos[t]
      PROVE  data_'[Slot(p)] = data_[Slot(p)]
  <2>1. Slot(p) # Slot(pos[t]) /\ p \in Nat
    BY <1>5, <1>6, Window
  <2> QED BY <2>1, SlotType, <1>1 DEF Inv, TypeOK
<1>7. ASSUME NEW p \in Claimed PROVE ItemAt(p)' = ItemAt(p)
  <2>1. CASE Published(p)
    BY <2>1, <1>1, <1>4, <1>5, <1>6, SameItems
  <2>2. CASE ~ Published(p)
    BY <2>2, <1>1, <1>3, SameItems DEF Inv, WindowInv
  <2> QED BY <2>1, <2>2
<1>8. claimedBar' = claimedBar
  BY <1>1, <1>7, SameClaimed
<1>9. publishedBar' = publishedBar
  BY <1>1, <1>4, <1>7 DEF publishedBar, Published, Claimed
<1>10. puttingBar' = puttingBar
  BY <1>1, <1>2 DEF puttingBar, Threads
<1>11. \A u \in Consumers : Reading(u) => data_'[Slot(pos[u])] = data_[Slot(pos[u])]
  <2> SUFFICES ASSUME NEW u \in Consumers, Reading(u) PROVE data_'[Slot(pos[u])] = data_[Slot(pos[u])]
    OBVIOUS
  <2>1. pos[u] + Capacity \in Free /\ Slot(pos[u] + Capacity) = Slot(pos[u])
    BY ReaderSlot
  <2> QED BY <2>1, <1>5, <1>6, Window
<1>12. takingBar' = takingBar
  BY <1>1, <1>2, <1>11 DEF takingBar, Threads, Slot, Reading
<1> QED BY <1>1, <1>8, <1>9, <1>10, <1>12

(* So is reading it.                                                         *)
LEMMA DequeueDataBars ==
  ASSUME Inv, Inv', NEW t \in Consumers, DequeueData(t)
  PROVE  /\ claimedBar' = claimedBar /\ publishedBar' = publishedBar
         /\ puttingBar' = puttingBar /\ takingBar' = takingBar /\ result' = result
<1>1. /\ pc[t] = "data" /\ pc'[t] = "seq"
      /\ enqueuePos_' = enqueuePos_ /\ dequeuePos_' = dequeuePos_ /\ seq_' = seq_ /\ data_' = data_
      /\ pos' = pos /\ result' = result /\ Claimed' = Claimed
      /\ \A u \in Threads \ {t} : pc'[u] = pc[u] /\ item'[u] = item[u]
  BY DEF DequeueData, Goto, Inv, TypeOK, Threads, Claimed
<1>2. /\ \A u \in Threads : pc'[u] \in {"data", "seq"} <=> pc[u] \in {"data", "seq"}
      /\ \A u \in Producers : item'[u] = item[u]
  BY <1>1, BoundedQueueAssumption DEF Threads
<1>3. \A u \in Producers : Filling(u) => (Filling(u))'
  BY <1>2 DEF Filling, Threads
<1>4. \A p \in Claimed : (Published(p))' <=> Published(p)
  BY <1>1 DEF Published, Slot
<1>5. \A p \in Claimed : ItemAt(p)' = ItemAt(p)
  BY <1>1, <1>2, <1>3, <1>4, SameItems DEF Inv, WindowInv
<1>6. claimedBar' = claimedBar
  BY <1>1, <1>5, SameClaimed
<1>7. publishedBar' = publishedBar
  BY <1>1, <1>4, <1>5 DEF publishedBar, Published, Claimed
<1>8. puttingBar' = puttingBar /\ takingBar' = takingBar
  BY <1>1, <1>2 DEF puttingBar, takingBar, Threads, Slot
<1> QED BY <1>1, <1>6, <1>7, <1>8

-----------------------------------------------------------------------------
(* The consumers that hold a slot, each of a different free position.        *)
Readers == {t \in Consumers : takingBar[t] # NoItem}

(* They are the ones between their exchange and the end of dequeue.          *)
LEMMA ReadersRead ==
  ASSUME Inv PROVE Readers = {t \in Consumers : Reading(t)}
<1>1. \A x \in Item : x # NoItem
  BY BoundedQueueAssumption DEF Item
<1> QED BY <1>1 DEF Readers, takingBar, Reading, Inv, ItemInv

(* Claimed positions, slots held and the slot of a free position fit in.     *)
LEMMA RoomForClaim ==
  ASSUME Inv, enqueuePos_ \in Free, seq_[Slot(enqueuePos_)] = enqueuePos_
  PROVE  Len(claimedBar) + Cardinality(Readers) < Capacity
<1> DEFINE e == enqueuePos_
           T == (e + 1)..(dequeuePos_ + Capacity - 1)
           f == [t \in Readers |-> pos[t] + Capacity]
<1>1. e \in Nat /\ dequeuePos_ \in Nat /\ e =< dequeuePos_ + Capacity - 1 /\ Capacity \in Nat
  BY BoundedQueueAssumption DEF Free, Inv, TypeOK
<1>2. ASSUME NEW t \in Readers PROVE pos[t] \in Nat /\ pos[t] + Capacity \in T
  <2>1. t \in Consumers /\ Reading(t)
    BY ReadersRead
  <2>2. /\ pos[t] \in Nat /\ pos[t] + Capacity \in Free /\ Slot(pos[t] + Capacity) = Slot(pos[t])
        /\ seq_[Slot(pos[t])] = pos[t] + 1
    BY <2>1, ReaderSlot
  <2>3. pos[t] + Capacity # e
    BY <2>2, BoundedQueueAssumption
  <2> QED BY <2>2, <2>3, <1>1 DEF Free
<1>3. \A t, u \in Readers : pos[t] + Capacity = pos[u] + Capacity => t = u
  <2> SUFFICES ASSUME NEW t \in Readers, NEW u \in Readers, pos[t] + Capacity = pos[u] + Capacity
               PROVE  t = u
    OBVIOUS
  <2>1. pos[t] = pos[u]
    BY <1>1, <1>2
  <2> QED BY <2>1, ReadersRead DEF Inv, ClaimInv
<1>4. f \in Injection(Readers, T)
  BY <1>2, <1>3 DEF Injection, IsInjective
<1>5. IsFiniteSet(T) /\ Cardinality(T) = dequeuePos_ + Capacity - 1 - e
  BY <1>1, FS_Interval
<1>6. IsFiniteSet(Readers) /\ Cardinality(Readers) =< Cardinality(T)
  BY <1>4, <1>5, FS_Injection
<1>7. Cardinality(Readers) \in Nat
  BY <1>6, FS_CardinalityType
<1> QED BY <1>1, <1>5, <1>6, <1>7, ClaimedItems

-----------------------------------------------------------------------------
(* A successful exchange of enqueue claims the next place.                   *)
LEMMA ClaimBars ==
  ASSUME Inv, Inv', NEW t \in Producers, EnqueueCas(t), pc'[t] = "data"
  PROVE  /\ puttingBar[t] = NoItem /\ item[t] \in Item
         /\ Len(claimedBar) + Cardinality(Readers) < Capacity
         /\ claimedBar' = Append(claimedBar, item[t])
         /\ puttingBar' = [puttingBar EXCEPT ![t] = item[t]]
         /\ publishedBar' = publishedBar /\ takingBar' = takingBar /\ result' = result
<1>0. PICK e \in Nat, d \in Nat : e = enqueuePos_ /\ d = dequeuePos_
  BY DEF Inv, TypeOK
<1>1. /\ pc[t] = "cas" /\ pos[t] = e /\ enqueuePos_' = e + 1
      /\ dequeuePos_' = d /\ seq_' = seq_ /\ data_' = data_
      /\ pos' = pos /\ item' = item /\ result' = result
      /\ \A u \in Threads \ {t} : pc'[u] = pc[u]
  BY <1>0 DEF EnqueueCas, Goto, Inv, TypeOK, Threads
<1>2. e \in Free /\ seq_[Slot(e)] = e /\ d \in Nat /\ e \in Nat /\ d =< e
  BY <1>0, <1>1, ClaimIsFree DEF Inv, WindowInv
<1>3. Claimed' = Claimed \union {e} /\ e \notin Claimed
  BY <1>0, <1>1, <1>2 DEF Claimed
<1>4. \A p : (Published(p))' <=> Published(p)
  BY <1>1 DEF Published, Slot
<1>5. \A u \in Producers : (Filling(u))' <=> Filling(u) \/ u = t
  BY <1>1 DEF Filling, Threads
<1>6. \A p \in Claimed : ItemAt(p)' = ItemAt(p)
  BY <1>1, <1>3, <1>4, <1>5, SameItems DEF Inv, WindowInv
<1>7. ItemAt(e)' = item[t]
  BY <1>1, <1>3, <1>5, ItemOfPositionNext
<1>8. item[t] \in Item
  BY <1>1, BoundedQueueAssumption DEF Inv, ItemInv, TypeOK, Item
<1>9. claimedBar' = Append(claimedBar, item[t])
  <2>1. claimedBar \in Seq(Item) /\ Len(claimedBar) = e - d /\ e - d \in Nat
    BY <1>0, ClaimedItems
  <2>2. claimedBar' \in Seq(Item) /\ Len(claimedBar)' = e + 1 - d
    BY ClaimedItemsNext, <1>1
  <2>3. ASSUME NEW k \in 1..(e + 1 - d) PROVE claimedBar'[k] = Append(claimedBar, item[t])[k]
    <3>1. claimedBar'[k] = ItemAt(d + k - 1)'
      BY <1>1, <1>2 DEF claimedBar
    <3>2. CASE k \in 1..(e - d)
      <4>1. d + k - 1 \in Claimed /\ claimedBar[k] = ItemAt(d + k - 1)
        BY <1>0, <3>2, ClaimedItems
      <4>2. ItemAt(d + k - 1)' = ItemAt(d + k - 1)
        BY <4>1, <1>1, <1>6 DEF ItemAt
      <4> QED BY <3>1, <3>2, <4>1, <4>2, <2>1
    <3>3. CASE k = e + 1 - d
      <4>1. d + k - 1 = e
        BY <3>3, <1>2
      <4>2. ItemAt(d + k - 1)' = item[t]
        BY <4>1, <1>1, <1>7 DEF ItemAt
      <4>3. k = Len(claimedBar) + 1
        BY <3>3, <2>1, <1>2
      <4>4. Append(claimedBar, item[t])[k] = item[t]
        BY <4>3, <2>1, <1>8
      <4> QED BY <3>1, <4>2, <4>4
    <3>4. k \in 1..(e - d) \/ k = e + 1 - d
      BY <1>2
    <3> QED BY <3>2, <3>3, <3>4
  <2> QED BY <2>1, <2>2, <2>3, <1>8
<1>10. publishedBar' = publishedBar
  <2>1. \A p \in Claimed' : (Published(p))' <=> p \in Claimed /\ Published(p)
    BY <1>2, <1>3, <1>4 DEF Published
  <2> QED BY <1>3, <1>6, <2>1 DEF publishedBar, Published, Claimed
<1>11. puttingBar[t] = NoItem /\ puttingBar' = [puttingBar EXCEPT ![t] = item[t]]
  <2>1. pc'[t] = "data" /\ \A u \in Producers \ {t} : pc'[u] = pc[u]
    BY <1>1 DEF Threads
  <2> QED BY <1>1, <2>1 DEF puttingBar
<1>12. takingBar' = takingBar
  <2>1. \A u \in Consumers : pc'[u] = pc[u]
    BY <1>1, BoundedQueueAssumption DEF Threads
  <2> QED BY <1>1, <2>1 DEF takingBar, Slot
<1> QED BY <1>0, <1>1, <1>2, <1>8, <1>9, <1>10, <1>11, <1>12, RoomForClaim

(* The store of the sequence number of enqueue publishes the item.           *)
LEMMA PublishBars ==
  ASSUME Inv, Inv', NEW t \in Producers, EnqueueSeq(t)
  PROVE  /\ puttingBar[t] # NoItem
         /\ claimedBar' = claimedBar
         /\ publishedBar' = publishedBar \union {puttingBar[t]}
         /\ puttingBar' = [puttingBar EXCEPT ![t] = NoItem]
         /\ takingBar' = takingBar
         /\ result' = [result EXCEPT ![t] = puttingBar[t]]
<1> DEFINE c == pos[t]
<1>1. /\ pc[t] = "seq" /\ pc'[t] = "idle" /\ seq_' = [seq_ EXCEPT ![Slot(c)] = c + 1]
      /\ enqueuePos_' = enqueuePos_ /\ dequeuePos_' = dequeuePos_ /\ data_' = data_
      /\ result' = [result EXCEPT ![t] = item[t]] /\ Claimed' = Claimed
      /\ \A u \in Threads \ {t} : pc'[u] = pc[u] /\ pos'[u] = pos[u] /\ item'[u] = item[u]
  BY DEF EnqueueSeq, Return, Goto, Inv, TypeOK, Threads, Claimed
<1>2. c \in Claimed /\ seq_[Slot(c)] = c /\ Slot(c) \in Slots /\ c \in Nat /\ Filling(t)
  BY <1>1, FillerSlot DEF Filling
<1>3. puttingBar[t] = item[t] /\ item[t] # NoItem /\ data_[Slot(c)] = item[t] /\ item[t] \in Item
  BY <1>1, BoundedQueueAssumption DEF puttingBar, Inv, ItemInv, TypeOK, Item
<1>4. \A u \in Producers : Filling(u) /\ u # t => (Filling(u))' /\ pos'[u] = pos[u] /\ item'[u] = item[u]
  BY <1>1 DEF Filling, Threads
<1>5. \A p \in Claimed : (Published(p))' <=> Published(p) \/ p = c
  <2>1. seq_'[Slot(c)] = c + 1
    BY <1>1, <1>2 DEF Inv, TypeOK
  <2>2. ASSUME NEW p \in Claimed, p # c PROVE seq_'[Slot(p)] = seq_[Slot(p)]
    <3>1. Slot(p) # Slot(c) /\ p \in Nat
      BY <1>2, <2>2, Window
    <3> QED BY <3>1, SlotType, <1>1 DEF Inv, TypeOK
  <2> HIDE DEF c
  <2> QED BY <2>1, <2>2 DEF Published, Slot
<1>6. ASSUME NEW p \in Claimed PROVE ItemAt(p)' = ItemAt(p)
  <2>1. CASE p = c
    BY <2>1, <1>1, <1>2, <1>3, <1>5, SameItems
  <2>2. CASE p # c
    BY <2>2, <1>1, <1>4, <1>5, SameItems DEF Inv, WindowInv
  <2> QED BY <2>1, <2>2
<1>7. claimedBar' = claimedBar
  BY <1>1, <1>6, SameClaimed
<1>8. publishedBar' = publishedBar \union {item[t]}
  <2>1. publishedBar = {ItemAt(p) : p \in {q \in Claimed : Published(q)}}
    BY DEF publishedBar, Published, Claimed
  <2>2. publishedBar' = {ItemAt(p)' : p \in {q \in Claimed : (Published(q))'}}
    BY <1>1 DEF publishedBar, Published, Claimed
  <2>3. {q \in Claimed : (Published(q))'} = {q \in Claimed : Published(q)} \union {c}
    BY <1>2, <1>5
  <2>4. ItemAt(c) = item[t]
    BY <1>2, ItemOfPosition
  <2> HIDE DEF c
  <2> QED BY <2>1, <2>2, <2>3, <2>4, <1>2, <1>6
<1>9. puttingBar' = [puttingBar EXCEPT ![t] = NoItem]
  <2>1. pc'[t] = "idle" /\ \A u \in Producers \ {t} : pc'[u] = pc[u] /\ item'[u] = item[u]
    BY <1>1 DEF Threads
  <2> QED BY <2>1 DEF puttingBar
<1>10. takingBar' = takingBar
  <2>1. \A u \in Consumers : pc'[u] = pc[u] /\ pos'[u] = pos[u]
    BY <1>1, BoundedQueueAssumption DEF Threads
  <2> QED BY <1>1, <2>1 DEF takingBar, Slot
<1> QED BY <1>1, <1>3, <1>7, <1>8, <1>9, <1>10

-----------------------------------------------------------------------------
(* A successful exchange of dequeue takes the oldest place.                  *)
LEMMA TakeBars ==
  ASSUME Inv, Inv', NEW t \in Consumers, DequeueCas(t), pc'[t] = "data"
  PROVE  /\ takingBar[t] = NoItem /\ claimedBar # <<>> /\ Head(claimedBar) \in publishedBar
         /\ claimedBar' = Tail(claimedBar)
         /\ publishedBar' = publishedBar \ {Head(claimedBar)}
         /\ takingBar' = [takingBar EXCEPT ![t] = Head(claimedBar)]
         /\ puttingBar' = puttingBar /\ result' = result
<1>0. PICK e \in Nat, d \in Nat : e = enqueuePos_ /\ d = dequeuePos_
  BY DEF Inv, TypeOK
<1> DEFINE h == data_[Slot(d)]
<1>1. /\ pc[t] = "cas" /\ pos[t] = d /\ dequeuePos_' = d + 1
      /\ enqueuePos_' = e /\ seq_' = seq_ /\ data_' = data_
      /\ pos' = pos /\ item' = item /\ result' = result
      /\ \A u \in Threads \ {t} : pc'[u] = pc[u]
  BY <1>0 DEF DequeueCas, Goto, Inv, TypeOK, Threads
<1>2. d \in Claimed /\ Published(d) /\ d \in Nat /\ e \in Nat /\ e > d
  BY <1>0, <1>1, TakeIsPublished DEF Claimed
<1>3. Claimed' = Claimed \ {d}
  BY <1>0, <1>1, <1>2 DEF Claimed
<1>4. \A p : (Published(p))' <=> Published(p)
  BY <1>1 DEF Published, Slot
<1>5. \A u \in Producers : (Filling(u))' <=> Filling(u)
  BY <1>1, BoundedQueueAssumption DEF Filling, Threads
<1>6. \A p \in Claimed \ {d} : ItemAt(p)' = ItemAt(p)
  BY <1>1, <1>3, <1>4, <1>5, SameItems DEF Inv, WindowInv
<1>7. claimedBar \in Seq(Item) /\ Len(claimedBar) = e - d /\ e - d \in Nat \ {0}
  BY <1>0, ClaimedItems, <1>2
<1>8. Head(claimedBar) = h /\ ItemAt(d) = h /\ claimedBar # <<>>
  <2>1. ItemAt(d) = h
    BY <1>2, ItemOfPosition
  <2>2. d + 1 - 1 = d /\ 1 \in 1..(e - d)
    BY <1>2
  <2>3. claimedBar[1] = ItemAt(d)
    BY <1>0, <2>2, ClaimedItems
  <2> QED BY <1>7, <2>1, <2>3
<1>9. claimedBar' = Tail(claimedBar)
  <2>1. claimedBar' \in Seq(Item) /\ Len(claimedBar)' = e - (d + 1)
    BY ClaimedItemsNext, <1>1
  <2>2. ASSUME NEW k \in 1..(e - (d + 1)) PROVE claimedBar'[k] = claimedBar[k + 1]
    <3>1. PICK q \in Claimed \ {d} : q = d + k
      BY <1>0, <1>2 DEF Claimed
    <3>2. q = d + 1 + k - 1 /\ q = d + (k + 1) - 1 /\ k + 1 \in 1..(e - d)
      BY <3>1, <1>2
    <3>3. claimedBar[k + 1] = ItemAt(q)
      BY <1>0, <3>2, ClaimedItems
    <3>4. claimedBar'[k] = ItemAt(q)'
      BY <1>1, <1>2, <3>2 DEF claimedBar
    <3> QED BY <3>1, <3>3, <3>4, <1>6
  <2> QED BY <2>1, <2>2, <1>7, <1>8
<1>10. h \in publishedBar /\ publishedBar' = publishedBar \ {h}
  <2>1. publishedBar = {ItemAt(p) : p \in {q \in Claimed : Published(q)}}
    BY DEF publishedBar, Published, Claimed
  <2>2. publishedBar' = {ItemAt(p)' : p \in {q \in Claimed' : (Published(q))'}}
    BY DEF publishedBar, Published, Claimed
  <2>3. {q \in Claimed' : (Published(q))'} = {q \in Claimed : Published(q)} \ {d}
    BY <1>3, <1>4
  <2>4. \A p \in Claimed \ {d} : Published(p) => ItemAt(p) # h
    BY <1>2, ItemOfPosition DEF Inv, ItemInv
  <2> HIDE DEF h
  <2> QED BY <2>1, <2>2, <2>3, <2>4, <1>2, <1>6, <1>8
<1>11. takingBar[t] = NoItem /\ takingBar' = [takingBar EXCEPT ![t] = h]
  <2>1. pc'[t] = "data" /\ \A u \in Consumers \ {t} : pc'[u] = pc[u]
    BY <1>1 DEF Threads
  <2> QED BY <1>1, <2>1 DEF takingBar, Slot
<1>12. puttingBar' = puttingBar
  <2>1. \A u \in Producers : pc'[u] = pc[u]
    BY <1>1, BoundedQueueAssumption DEF Threads
  <2> QED BY <1>1, <2>1 DEF puttingBar
<1> QED BY <1>1, <1>8, <1>9, <1>10, <1>11, <1>12

(* The store of the sequence number of dequeue gives the slot back.          *)
LEMMA GiveBackBars ==
  ASSUME Inv, Inv', NEW t \in Consumers, DequeueSeq(t)
  PROVE  /\ takingBar[t] # NoItem
         /\ takingBar' = [takingBar EXCEPT ![t] = NoItem]
         /\ result' = [result EXCEPT ![t] = takingBar[t]]
         /\ claimedBar' = claimedBar /\ publishedBar' = publishedBar /\ puttingBar' = puttingBar
<1> DEFINE f == pos[t] + Capacity
<1>1. /\ pc[t] = "seq" /\ pc'[t] = "idle" /\ seq_' = [seq_ EXCEPT ![Slot(pos[t])] = f]
      /\ enqueuePos_' = enqueuePos_ /\ dequeuePos_' = dequeuePos_ /\ data_' = data_
      /\ result' = [result EXCEPT ![t] = item[t]] /\ Claimed' = Claimed
      /\ \A u \in Threads \ {t} : pc'[u] = pc[u] /\ pos'[u] = pos[u] /\ item'[u] = item[u]
  BY DEF DequeueSeq, Return, Goto, Inv, TypeOK, Threads, Claimed
<1>2. Reading(t) /\ f \in Free /\ Slot(f) = Slot(pos[t]) /\ Slot(f) \in Slots
  BY <1>1, ReaderSlot DEF Reading
<1>3. takingBar[t] = item[t] /\ item[t] # NoItem
  BY <1>1, <1>2, BoundedQueueAssumption DEF takingBar, Inv, ItemInv, Item
<1>4. /\ \A u \in Producers : pc'[u] = pc[u] /\ pos'[u] = pos[u] /\ item'[u] = item[u]
      /\ \A u \in Producers : (Filling(u))' <=> Filling(u)
  BY <1>1, BoundedQueueAssumption DEF Filling, Threads
<1>5. ASSUME NEW p \in Claimed PROVE (Published(p))' <=> Published(p)
  <2>1. Slot(p) # Slot(f) /\ p \in Nat
    BY <1>2, Window
  <2>2. seq_'[Slot(p)] = seq_[Slot(p)]
    BY <2>1, SlotType, <1>1, <1>2 DEF Inv, TypeOK
  <2> QED BY <2>2 DEF Published, Slot
<1>6. \A p \in Claimed : ItemAt(p)' = ItemAt(p)
  BY <1>1, <1>4, <1>5, SameItems DEF Inv, WindowInv
<1>7. claimedBar' = claimedBar
  BY <1>1, <1>6, SameClaimed
<1>8. publishedBar' = publishedBar
  <2>1. publishedBar = {ItemAt(p) : p \in {q \in Claimed : Published(q)}}
    BY DEF publishedBar, Published, Claimed
  <2>2. publishedBar' = {ItemAt(p)' : p \in {q \in Claimed : (Published(q))'}}
    BY <1>1 DEF publishedBar, Published, Claimed
  <2> QED BY <2>1, <2>2, <1>5, <1>6
<1>9. puttingBar' = puttingBar
  BY <1>4 DEF puttingBar
<1>10. takingBar' = [takingBar EXCEPT ![t] = NoItem]
  <2>1. pc'[t] = "idle" /\ \A u \in Consumers \ {t} : pc'[u] = pc[u] /\ pos'[u] = pos[u]
    BY <1>1 DEF Threads
  <2> QED BY <1>1, <2>1 DEF takingBar, Slot
<1> QED BY <1>1, <1>3, <1>7, <1>8, <1>9, <1>10

-----------------------------------------------------------------------------
(* A position that has left the window has a later one in the same slot.     *)
LEMMA LaterRound ==
  ASSUME Inv, NEW q \in Nat, q < dequeuePos_
  PROVE  seq_[Slot(q)] >= q + 1
<1> USE BoundedQueueAssumption
<1>1. dequeuePos_ \in Nat
  BY DEF Inv, TypeOK
<1>2. PICK w \in dequeuePos_..(dequeuePos_ + Capacity - 1) : Slot(w) = Slot(q)
  BY <1>1, InWindow
<1>3. w \in Nat /\ w \in Claimed \union Free /\ q < w
  BY <1>1, Window
<1>4. w >= q + Capacity
  BY <1>2, <1>3, OnePosition
<1>5. seq_[Slot(w)] \in {w, w + 1, w - Capacity + 1}
  BY <1>3 DEF Inv, WindowInv, Published
<1> QED BY <1>2, <1>3, <1>4, <1>5

(* enqueue fails only if the queue is full or a slot is not given back.      *)
LEMMA FullReason ==
  ASSUME Inv, NEW t \in Producers, pc[t] = "test", seq_[Slot(pos[t])] < pos[t]
  PROVE  Len(claimedBar) = Capacity \/ Readers # {}
<1> USE BoundedQueueAssumption
<1>1. PICK e \in Nat, d \in Nat, q \in Nat : e = enqueuePos_ /\ d = dequeuePos_ /\ q = pos[t]
  BY DEF Inv, TypeOK, Threads
<1>2. q =< e /\ d =< e /\ e =< d + Capacity
  BY <1>1 DEF Inv, CursorInv, WindowInv
<1>3. CASE q < d
  <2>1. seq_[Slot(q)] >= q + 1 /\ seq_[Slot(q)] \in Nat
    BY <1>1, <1>3, LaterRound, SlotType DEF Inv, TypeOK
  <2> QED BY <1>1, <2>1
<1>4. CASE q \in d..(e - 1)
  <2>1. q \in Claimed
    BY <1>1, <1>4 DEF Claimed
  <2>2. seq_[Slot(q)] \in {q, q + 1}
    BY <2>1 DEF Inv, WindowInv, Published
  <2> QED BY <1>1, <2>2
<1>5. CASE q = e /\ e < d + Capacity
  <2>1. q \in Free
    BY <1>1, <1>2, <1>5 DEF Free
  <2>2. \E u \in Consumers : Reading(u)
    BY <1>1, <2>1 DEF Inv, WindowInv
  <2> QED BY <2>2, ReadersRead
<1>6. CASE e = d + Capacity
  BY <1>1, <1>6, ClaimedItems
<1>7. q < d \/ q \in d..(e - 1) \/ (q = e /\ e < d + Capacity) \/ e = d + Capacity
  BY <1>2
<1> QED BY <1>3, <1>4, <1>5, <1>6, <1>7

(* dequeue fails only if the oldest position is missing or unpublished.      *)
LEMMA EmptyReason ==
  ASSUME Inv, NEW t \in Consumers, pc[t] = "test", seq_[Slot(pos[t])] < pos[t] + 1
  PROVE  claimedBar # <<>> => Head(claimedBar) \notin publishedBar
<1>1. PICK e \in Nat, d \in Nat, q \in Nat : e = enqueuePos_ /\ d = dequeuePos_ /\ q = pos[t]
  BY DEF Inv, TypeOK, Threads
<1>2. q =< d /\ claimedBar \in Seq(Item) /\ Len(claimedBar) = e - d /\ d =< e
  BY <1>1, ClaimedItems DEF Inv, CursorInv, WindowInv
<1>3. CASE q < d
  <2>1. seq_[Slot(q)] >= q + 1 /\ seq_[Slot(q)] \in Nat
    BY <1>1, <1>3, LaterRound, SlotType DEF Inv, TypeOK
  <2> QED BY <1>1, <2>1
<1>4. CASE d = e
  BY <1>2, <1>4
<1>5. CASE q = d /\ d < e
  <2>1. d \in Claimed /\ ~ Published(d)
    BY <1>1, <1>5 DEF Claimed, Published
  <2>2. PICK u \in Producers : Filling(u) /\ pos[u] = d
    BY <2>1 DEF Inv, WindowInv
  <2>3. ItemAt(d) = item[u] /\ pc[u] # "idle"
    BY <2>1, <2>2, ItemOfPosition DEF Filling
  <2>4. \A p \in Claimed : Published(p) => ItemAt(p) # item[u]
    BY <2>3, ItemOfPosition DEF Inv, ItemInv
  <2>5. publishedBar = {ItemAt(p) : p \in {p \in Claimed : Published(p)}}
    BY DEF publishedBar, Published, Claimed
  <2>6. Head(claimedBar) = ItemAt(d)
    <3>1. d + 1 - 1 = d /\ 1 \in 1..(e - d)
      BY <1>5
    <3>2. claimedBar[1] = ItemAt(d)
      BY <1>1, <3>1, ClaimedItems
    <3> QED BY <1>2, <1>5, <3>2
  <2> QED BY <2>3, <2>4, <2>5, <2>6
<1> QED BY <1>2, <1>3, <1>4, <1>5

-----------------------------------------------------------------------------
(* Every step of a producer is a step of ClaimQueue or invisible.            *)
LEMMA ProducerRefines ==
  ASSUME Inv, Inv', NEW t \in Producers, ProducerStep(t) \/ EnqueueCall(t)
  PROVE  Abstract!Next \/ UNCHANGED Abstract!vars
<1> USE DEF claimedBar, publishedBar, puttingBar, takingBar
<1>1. CASE EnqueueCall(t)
  <2>1. Local(t) /\ pc[t] = "idle" /\ result' = [result EXCEPT ![t] = NoItem]
    BY <1>1 DEF EnqueueCall, Local, Goto, Inv, TypeOK, Threads
  <2>2. puttingBar[t] = NoItem /\ t \notin Consumers
    BY <2>1, BoundedQueueAssumption
  <2>3. Abstract!Call(t)
    BY <2>1, <2>2, LocalBars DEF Abstract!Call
  <2> QED BY <2>3 DEF Abstract!Next
<1>2. CASE EnqueueLoad(t)
  <2>1. Local(t) /\ result' = result
    BY <1>2 DEF EnqueueLoad, Local, Goto, Inv, TypeOK, Threads
  <2> QED BY <2>1, LocalBars DEF Abstract!vars
<1>3. CASE EnqueueTest(t)
  <2>1. Local(t) /\ pc[t] = "test"
    BY <1>3 DEF EnqueueTest, Return, Local, Goto, Inv, TypeOK, Threads
  <2>2. CASE result' = result
    BY <2>1, <2>2, LocalBars DEF Abstract!vars
  <2>3. CASE result' # result
    <3>1. pos[t] \in Nat /\ seq_[Slot(pos[t])] \in Nat
      BY SlotType DEF Inv, TypeOK, Threads
    <3>2. result' = [result EXCEPT ![t] = 0] /\ seq_[Slot(pos[t])] < pos[t]
      BY <1>3, <2>3, <3>1 DEF EnqueueTest, Return
    <3>3. Len(claimedBar) = Capacity \/ Readers # {}
      BY <2>1, <3>2, FullReason
    <3>4. puttingBar[t] = NoItem
      BY <2>1
    <3>5. Abstract!Full(t)
      BY <2>1, <3>2, <3>3, <3>4, LocalBars DEF Abstract!Full, Abstract!Holding, Readers
    <3> QED BY <3>5 DEF Abstract!Next
  <2> QED BY <2>2, <2>3
<1>4. CASE EnqueueCas(t) /\ pc'[t] # "data"
  <2>1. Local(t) /\ result' = result
    BY <1>4 DEF EnqueueCas, Local, Goto, Inv, TypeOK, Threads
  <2> QED BY <2>1, LocalBars DEF Abstract!vars
<1>5. CASE EnqueueCas(t) /\ pc'[t] = "data"
  <2>1. PICK i \in Item : i = item[t]
    BY <1>5, ClaimBars
  <2>2. /\ puttingBar[t] = NoItem
        /\ Len(claimedBar) + Cardinality(Readers) < Capacity
        /\ claimedBar' = Append(claimedBar, i)
        /\ puttingBar' = [puttingBar EXCEPT ![t] = i]
        /\ publishedBar' = publishedBar /\ takingBar' = takingBar /\ result' = result
    BY <1>5, <2>1, ClaimBars
  <2>3. \A S : Abstract!Cardinality(S) = Cardinality(S)
    BY DEF Abstract!Cardinality, Cardinality, Abstract!IsFiniteSet, IsFiniteSet
  <2>4. Abstract!Claim(t, i)
    BY <2>2, <2>3 DEF Abstract!Claim, Abstract!Holding, Readers
  <2> QED BY <2>4 DEF Abstract!Next
<1>6. CASE EnqueueData(t)
  BY <1>6, EnqueueDataBars DEF Abstract!vars
<1>7. CASE EnqueueSeq(t)
  <2>1. Abstract!Publish(t)
    BY <1>7, PublishBars DEF Abstract!Publish
  <2> QED BY <2>1 DEF Abstract!Next
<1> QED BY <1>1, <1>2, <1>3, <1>4, <1>5, <1>6, <1>7 DEF ProducerStep

(* And every step of a consumer.                                             *)
LEMMA ConsumerRefines ==
  ASSUME Inv, Inv', NEW t \in Consumers, ConsumerStep(t) \/ DequeueCall(t)
  PROVE  Abstract!Next \/ UNCHANGED Abstract!vars
<1> USE DEF claimedBar, publishedBar, puttingBar, takingBar
<1>1. CASE DequeueCall(t)
  <2>1. Local(t) /\ pc[t] = "idle" /\ result' = [result EXCEPT ![t] = NoItem]
    BY <1>1 DEF DequeueCall, Local, Goto, Inv, TypeOK, Threads
  <2>2. takingBar[t] = NoItem /\ t \notin Producers
    BY <2>1, BoundedQueueAssumption
  <2>3. Abstract!Call(t)
    BY <2>1, <2>2, LocalBars DEF Abstract!Call
  <2> QED BY <2>3 DEF Abstract!Next
<1>2. CASE DequeueLoad(t)
  <2>1. Local(t) /\ result' = result
    BY <1>2 DEF DequeueLoad, Local, Goto, Inv, TypeOK, Threads
  <2> QED BY <2>1, LocalBars DEF Abstract!vars
<1>3. CASE DequeueTest(t)
  <2>1. Local(t) /\ pc[t] = "test"
    BY <1>3 DEF DequeueTest, Return, Local, Goto, Inv, TypeOK, Threads
  <2>2. CASE result' = result
    BY <2>1, <2>2, LocalBars DEF Abstract!vars
  <2>3. CASE result' # result
    <3>1. pos[t] \in Nat /\ seq_[Slot(pos[t])] \in Nat
      BY SlotType DEF Inv, TypeOK, Threads
    <3>2. result' = [result EXCEPT ![t] = 0] /\ seq_[Slot(pos[t])] < pos[t] + 1
      BY <1>3, <2>3, <3>1 DEF DequeueTest, Return
    <3>3. claimedBar # <<>> => Head(claimedBar) \notin publishedBar
      BY <2>1, <3>2, EmptyReason
    <3>4. takingBar[t] = NoItem
      BY <2>1
    <3>5. Abstract!Empty(t)
      BY <2>1, <3>2, <3>3, <3>4, LocalBars DEF Abstract!Empty
    <3> QED BY <3>5 DEF Abstract!Next
  <2> QED BY <2>2, <2>3
<1>4. CASE DequeueCas(t) /\ pc'[t] # "data"
  <2>1. Local(t) /\ result' = result
    BY <1>4 DEF DequeueCas, Local, Goto, Inv, TypeOK, Threads
  <2> QED BY <2>1, LocalBars DEF Abstract!vars
<1>5. CASE DequeueCas(t) /\ pc'[t] = "data"
  <2>1. Abstract!Take(t)
    BY <1>5, TakeBars DEF Abstract!Take
  <2> QED BY <2>1 DEF Abstract!Next
<1>6. CASE DequeueData(t)
  BY <1>6, DequeueDataBars DEF Abstract!vars
<1>7. CASE DequeueSeq(t)
  <2>1. Abstract!GiveBack(t)
    BY <1>7, GiveBackBars DEF Abstract!GiveBack
  <2> QED BY <2>1 DEF Abstract!Next
<1> QED BY <1>1, <1>2, <1>3, <1>4, <1>5, <1>6, <1>7 DEF ConsumerStep

(***************************************************************************)
(* The ring implements the queue DBPool relies on: items leave in the      *)
(* order their places were claimed, none is lost or delivered twice, and   *)
(* a false has a reason (mpmc_bounded_queue.h:34-103).                     *)
(***************************************************************************)
THEOREM RingRefinesClaimQueue == Spec => ImplementsClaimQueue
<1>1. Init => Abstract!Init
  <2> SUFFICES ASSUME Init PROVE Abstract!Init
    OBVIOUS
  <2>1. enqueuePos_ - dequeuePos_ = 0 /\ dequeuePos_..(enqueuePos_ - 1) = {}
    BY DEF Init
  <2> QED BY <2>1 DEF Init, Abstract!Init, Threads
<1>2. Inv /\ Inv' /\ [Next]_vars => [Abstract!Next]_(Abstract!vars)
  <2> SUFFICES ASSUME Inv, Inv', [Next]_vars PROVE Abstract!Next \/ UNCHANGED Abstract!vars
    BY DEF Abstract!vars
  <2>1. CASE UNCHANGED vars
    BY <2>1 DEF vars, Abstract!vars, ItemAt, Claimer, Slot
  <2> QED BY <2>1, ProducerRefines, ConsumerRefines DEF Next
<1> QED BY <1>1, <1>2, InvHolds, PTL DEF Spec, ImplementsClaimQueue, Abstract!Spec
=============================================================================
