---------------------------- MODULE DBPoolProofs ----------------------------
(***************************************************************************)
(* Proofs about DBPool for any number of borrowers, creating threads and   *)
(* connections and any sizes.                                              *)
(***************************************************************************)
EXTENDS DBPool, FiniteSetTheorems, TLAPS

(* A thread on its way through takeIdle, releaseConnection, discard or       *)
(* createOne has a connection in hand.                                       *)
HoldLabels == {"took", "tookLocked", "stamp", "stampLocked", "got", "using", "register",
               "enqueue", "publish", "discard", "erase", "delete"}

Holds == \A t \in Threads : pc[t] \in HoldLabels => conn[t] \in Conn

PoolInv == TypeOK /\ Holds

(* Every label of the model is a label. *)
LEMMA LabelsAre ==
  /\ {"out", "arrive", "locked", "asleep", "woken", "took", "tookLocked", "stamp", "stampLocked",
      "leave", "got", "using", "given"} \subseteq Labels
  /\ {"enqueue", "publish", "count", "check", "notify", "discard", "erase", "delete"} \subseteq Labels
  /\ {"idle", "connect", "register"} \subseteq Labels
  /\ {"wait", "clear", "drain", "drained", "ping", "evict", "flag", "snapshot", "leaks", "replenish",
      "reserve", "submit", "exited"} \subseteq Labels
  BY DEF Labels, BorrowerLabels, EnqueueLabels, DiscardLabels, CreatorLabels, MaintainerLabels

(* The types of the maintenance thread's locals, one by one. *)
LEMMA LocalsFields ==
  ASSUME NEW r \in MaintainerLocals
  PROVE  /\ r.round \in {"ping", "evict"} /\ r.drained \in Seq(Conn) /\ r.healthy \in Seq(Conn)
         /\ r.surplus \in Nat /\ r.need \in Int /\ r.snapshot \in SUBSET Conn
  BY DEF MaintainerLocals

(* Assigning to the maintenance thread's locals within their types keeps them typed. *)
LEMMA LocalsTyped ==
  ASSUME NEW r \in MaintainerLocals
  PROVE  /\ \A s \in Seq(Conn) : [r EXCEPT !.drained = s] \in MaintainerLocals
         /\ \A s, h \in Seq(Conn) : [r EXCEPT !.drained = s, !.healthy = h] \in MaintainerLocals
         /\ \A h \in Seq(Conn) : [r EXCEPT !.healthy = h] \in MaintainerLocals
         /\ \A h \in Seq(Conn), n \in Nat : [r EXCEPT !.healthy = h, !.surplus = n] \in MaintainerLocals
         /\ \A n \in Nat : [r EXCEPT !.round = "evict", !.surplus = n, !.reenqueued = FALSE] \in MaintainerLocals
         /\ [r EXCEPT !.round = "ping"] \in MaintainerLocals
         /\ [r EXCEPT !.reenqueued = TRUE] \in MaintainerLocals
         /\ \A S \in SUBSET Conn : [r EXCEPT !.snapshot = S] \in MaintainerLocals
         /\ \A n \in Int : [r EXCEPT !.need = n] \in MaintainerLocals
  BY DEF MaintainerLocals

(* Appending to and taking from a sequence of connections. *)
LEMMA ConnSeq ==
  ASSUME NEW s \in Seq(Conn)
  PROVE  /\ Len(s) \in Nat
         /\ s # <<>> => Head(s) \in Conn /\ Tail(s) \in Seq(Conn)
         /\ \A c \in Conn : Append(s, c) \in Seq(Conn)
  OBVIOUS

(* The pool that init() leaves behind satisfies the inductive invariant. *)
LEMMA PoolInvInit == Init => PoolInv
<1> SUFFICES ASSUME Init PROVE PoolInv
  OBVIOUS
<1>1. queue \in Seq(Conn)
  BY SizesAssumption DEF Init
<1>2. alive \subseteq Conn
  BY DEF Init
<1>3. pc \in [Threads -> {"out", "idle", "wait"}] /\ conn \in [Threads -> Conn \union {NoConn}]
  BY DEF Init
<1>4. state \in [Conn -> {"Idle", "Creating"}]
  BY DEF Init
<1>5. Holds
  BY <1>3 DEF Holds, HoldLabels
<1>7. m \in MaintainerLocals
  <2>1. <<>> \in Seq(Conn)
    OBVIOUS
  <2> QED BY <2>1 DEF Init, MaintainerLocals
<1>8. {"out", "idle", "wait"} \subseteq Labels
  BY LabelsAre
<1>6. TypeOK
  <2>1. pc \in [Threads -> Labels] BY <1>3, <1>8
  <2>2. MinIdle \in Int BY SizesAssumption
  <2>3. total \in Int /\ idle \in Int /\ waiterCount \in Int /\ tasks \in Int
    BY <2>2 DEF Init
  <2>4. needReplenish \in BOOLEAN /\ stopped \in BOOLEAN
    BY DEF Init
  <2>5. /\ unpublished \subseteq Conn /\ allConns \subseteq Conn /\ stamped \subseteq Conn
        /\ opc \in {"open", "wake", "join", "createPool", "drain", "delete", "closed"}
    BY <1>2 DEF Init
  <2> QED BY <1>1, <1>2, <1>3, <1>4, <1>7, <2>1, <2>3, <2>4, <2>5 DEF TypeOK
<1> QED BY <1>5, <1>6 DEF PoolInv

(* takeIdle and waitForIdle keep it (DBPool.cc:208-265). *)
LEMMA PoolInvBorrow ==
  ASSUME PoolInv, NEW b \in Borrowers,
         \/ GetConnection(b) \/ TakeIdleCount(b) \/ TakeIdleStamp(b) \/ WaitStep(b)
         \/ WaitTimeout(b) \/ SpuriousWakeup(b) \/ LowWater(b) \/ ReleaseConnection(b)
  PROVE  PoolInv'
<1> USE LabelsAre DEF PoolInv, At, counts, idleQueue, conns, locals, control
<1>0. b \in Threads
  BY DEF Threads
<1>1. CASE GetConnection(b)
  <2>1. TypeOK' BY <1>0, <1>1 DEF GetConnection, Ready, TypeOK
  <2>2. Holds' BY <1>0, <1>1 DEF GetConnection, Ready, TypeOK, Holds, HoldLabels
  <2> QED BY <2>1, <2>2
<1>2. CASE TakeIdleCount(b)
  <2>3. pc' \in [Threads -> Labels] BY <1>0, <1>2 DEF TakeIdleCount, TypeOK
  <2>4. state' \in [Conn -> {"Creating", "Idle", "InUse", "Keepalive", "Broken"}]
    BY <1>2 DEF TakeIdleCount, TypeOK
  <2>1. TypeOK' BY <1>2, <2>3, <2>4 DEF TakeIdleCount, TypeOK
  <2>2. Holds' BY <1>0, <1>2 DEF TakeIdleCount, TypeOK, Holds, HoldLabels
  <2> QED BY <2>1, <2>2
<1>3. CASE TakeIdleStamp(b)
  <2>1. TypeOK' BY <1>0, <1>3 DEF TakeIdleStamp, TypeOK, Holds, HoldLabels
  <2>2. Holds' BY <1>0, <1>3 DEF TakeIdleStamp, TypeOK, Holds, HoldLabels
  <2> QED BY <2>1, <2>2
<1>4. CASE WaitStep(b)
  <2>3. pc' \in [Threads -> Labels]
    BY <1>0, <1>4 DEF WaitStep, WaitArrive, WaitTurn, WaitLeave, TypeOK
  <2>5. queue \in Seq(Conn) /\ conn \in [Threads -> Conn \union {NoConn}]
    BY DEF TypeOK
  <2>4. queue' \in Seq(Conn) /\ conn' \in [Threads -> Conn \union {NoConn}]
    BY <1>4, <2>5, ConnSeq DEF WaitStep, WaitArrive, WaitTurn, WaitLeave, Ready
  <2>1. TypeOK' BY <1>4, <2>3, <2>4 DEF WaitStep, WaitArrive, WaitTurn, WaitLeave, TypeOK
  <2>2. Holds' BY <1>0, <1>4 DEF WaitStep, WaitArrive, WaitTurn, WaitLeave, Ready, TypeOK, Holds, HoldLabels
  <2> QED BY <2>1, <2>2
<1>5. CASE WaitTimeout(b) \/ SpuriousWakeup(b)
  <2>1. TypeOK' BY <1>0, <1>5 DEF WaitTimeout, SpuriousWakeup, TypeOK
  <2>2. Holds' BY <1>0, <1>5 DEF WaitTimeout, SpuriousWakeup, TypeOK, Holds, HoldLabels
  <2> QED BY <2>1, <2>2
<1>6. CASE LowWater(b) \/ ReleaseConnection(b)
  <2>1. TypeOK' BY <1>0, <1>6 DEF LowWater, ReleaseConnection, TypeOK
  <2>2. Holds' BY <1>0, <1>6 DEF LowWater, ReleaseConnection, TypeOK, Holds, HoldLabels
  <2> QED BY <2>1, <2>2
<1> QED BY <1>1, <1>2, <1>3, <1>4, <1>5, <1>6

(* Putting a connection back keeps it (DBPool.cc:267-309). *)
LEMMA PoolInvEnqueue ==
  ASSUME PoolInv, NEW t \in Threads, EnqueueStep(t)
  PROVE  PoolInv'
<1> USE LabelsAre DEF PoolInv, At, counts, idleQueue, conns, locals, control
<1>1. CASE EnqueueClaim(t)
  <2>0. conn[t] \in Conn BY <1>1 DEF EnqueueClaim, Holds, HoldLabels
  <2>1. TypeOK' BY <2>0, <1>1 DEF EnqueueClaim, TypeOK
  <2>2. Holds' BY <1>1 DEF EnqueueClaim, TypeOK, Holds, HoldLabels
  <2> QED BY <2>1, <2>2
<1>2. CASE EnqueuePublish(t)
  <2>1. TypeOK' BY <1>2 DEF EnqueuePublish, TypeOK
  <2>2. Holds' BY <1>2 DEF EnqueuePublish, TypeOK, Holds, HoldLabels
  <2> QED BY <2>1, <2>2
<1>3. CASE EnqueueCount(t)
  <2>0. m' \in MaintainerLocals BY <1>3 DEF EnqueueCount, TypeOK, MaintainerLocals
  <2>1. TypeOK' BY <1>3, <2>0 DEF EnqueueCount, TypeOK
  <2>2. Holds' BY <1>3 DEF EnqueueCount, TypeOK, Holds, HoldLabels
  <2> QED BY <2>1, <2>2
<1>4. CASE CheckWaiters(t)
  <2>1. TypeOK' BY <1>4 DEF CheckWaiters, AfterEnqueue, TypeOK
  <2>2. Holds' BY <1>4 DEF CheckWaiters, AfterEnqueue, TypeOK, Holds, HoldLabels
  <2> QED BY <2>1, <2>2
<1>5. CASE NotifyWaiters(t)
  <2>1. TypeOK' BY <1>5 DEF NotifyWaiters, AfterEnqueue, TypeOK
  <2>2. Holds' BY <1>5 DEF NotifyWaiters, AfterEnqueue, TypeOK, Holds, HoldLabels
  <2> QED BY <2>1, <2>2
<1> QED BY <1>1, <1>2, <1>3, <1>4, <1>5 DEF EnqueueStep

(* Discarding a connection keeps it (DBPool.cc:468-479). *)
LEMMA PoolInvDiscard ==
  ASSUME PoolInv, NEW t \in Threads, DiscardStep(t)
  PROVE  PoolInv'
<1> USE LabelsAre DEF PoolInv, At, counts, idleQueue, conns, locals, control
<1>1. CASE DiscardCount(t) \/ DiscardErase(t)
  <2>1. TypeOK' BY <1>1 DEF DiscardCount, DiscardErase, TypeOK
  <2>2. Holds' BY <1>1 DEF DiscardCount, DiscardErase, TypeOK, Holds, HoldLabels
  <2> QED BY <2>1, <2>2
<1>2. CASE DiscardDelete(t)
  <2>0. m.round \in {"ping", "evict"} BY DEF TypeOK, MaintainerLocals
  <2>1. TypeOK' BY <1>2, <2>0 DEF DiscardDelete, TypeOK
  <2>2. Holds' BY <1>2, <2>0 DEF DiscardDelete, TypeOK, Holds, HoldLabels
  <2> QED BY <2>1, <2>2
<1> QED BY <1>1, <1>2 DEF DiscardStep

(* Creating one keeps it (DBPool.cc:442-465). *)
LEMMA PoolInvCreate ==
  ASSUME PoolInv, NEW k \in Creators,
         CreateOne(k) \/ CreateFailed(k) \/ CreateConnected(k) \/ CreateRegister(k)
  PROVE  PoolInv'
<1> USE LabelsAre DEF PoolInv, At, counts, idleQueue, conns, locals, control
<1>0. k \in Threads
  BY DEF Threads
<1>1. CASE CreateOne(k) \/ CreateFailed(k)
  <2>1. TypeOK' BY <1>0, <1>1 DEF CreateOne, CreateFailed, TypeOK
  <2>2. Holds' BY <1>0, <1>1 DEF CreateOne, CreateFailed, TypeOK, Holds, HoldLabels
  <2> QED BY <2>1, <2>2
<1>2. CASE CreateConnected(k)
  <2>1. TypeOK' BY <1>0, <1>2 DEF CreateConnected, TypeOK
  <2>2. Holds' BY <1>0, <1>2 DEF CreateConnected, TypeOK, Holds, HoldLabels
  <2> QED BY <2>1, <2>2
<1>3. CASE CreateRegister(k)
  <2>1. TypeOK' BY <1>0, <1>3 DEF CreateRegister, TypeOK, Holds, HoldLabels
  <2>2. Holds' BY <1>0, <1>3 DEF CreateRegister, TypeOK, Holds, HoldLabels
  <2> QED BY <2>1, <2>2
<1> QED BY <1>1, <1>2, <1>3

(* The maintenance thread's own steps keep it (DBPool.cc:311-440). *)
LEMMA PoolInvMaintain ==
  ASSUME PoolInv,
         \/ MaintenanceWake \/ MaintenanceClear \/ ScanDrain \/ ScanDrained \/ ScanPing \/ ScanEvict
         \/ ScanFlag \/ LeakSnapshot \/ LeakRead \/ ReplenishRead \/ ReplenishReserve \/ ReplenishSubmit
  PROVE  PoolInv'
<1> USE LabelsAre DEF PoolInv, At, counts, idleQueue, conns, locals, control
<1>0. Maintainer \in Threads
  BY DEF Threads
<1>9. /\ m \in MaintainerLocals /\ m.drained \in Seq(Conn) /\ m.healthy \in Seq(Conn)
      /\ m.surplus \in Nat /\ m.need \in Int /\ m.snapshot \in SUBSET Conn
      /\ queue \in Seq(Conn) /\ allConns \in SUBSET Conn
  BY LocalsFields DEF TypeOK
<1>1. CASE MaintenanceWake \/ MaintenanceClear \/ ScanDrained
  <2>1. TypeOK'
    <3>1. CASE MaintenanceWake
      <4>1. (IF stopped THEN "exited" ELSE "clear") \in Labels OBVIOUS
      <4>2. pc' \in [Threads -> Labels] BY <1>0, <3>1, <4>1 DEF MaintenanceWake, TypeOK
      <4> QED BY <3>1, <4>2 DEF MaintenanceWake, TypeOK
    <3>2. CASE MaintenanceClear
      <4>1. pc' \in [Threads -> Labels] BY <1>0, <3>2 DEF MaintenanceClear, TypeOK
      <4> QED BY <3>2, <4>1 DEF MaintenanceClear, TypeOK
    <3>3. CASE ScanDrained
      BY <1>0, <3>3 DEF ScanDrained, TypeOK
    <3> QED BY <1>1, <3>1, <3>2, <3>3
  <2>2. Holds' BY <1>0, <1>1 DEF MaintenanceWake, MaintenanceClear, ScanDrained, TypeOK, Holds, HoldLabels
  <2> QED BY <2>1, <2>2
<1>7. CASE ScanFlag
  <2>3. needReplenish' \in BOOLEAN BY <1>7 DEF ScanFlag
  <2>4. pc' \in [Threads -> Labels] BY <1>0, <1>7 DEF ScanFlag, TypeOK
  <2>5. UNCHANGED <<total, idle, waiterCount, idleQueue, conns, locals, control>>
    BY <1>7 DEF ScanFlag
  <2>1. TypeOK' BY <2>3, <2>4, <2>5 DEF TypeOK
  <2>2. Holds' BY <1>0, <1>7 DEF ScanFlag, TypeOK, Holds, HoldLabels
  <2> QED BY <2>1, <2>2
<1>8. CASE ReplenishReserve
  <2>1. TypeOK' BY <1>0, <1>8, <1>9 DEF ReplenishReserve, TypeOK
  <2>2. Holds' BY <1>0, <1>8 DEF ReplenishReserve, TypeOK, Holds, HoldLabels
  <2> QED BY <2>1, <2>2
<1>2. CASE ScanDrain
  <2>0. Ready => Head(queue) \in Conn /\ Tail(queue) \in Seq(Conn)
    BY <1>9, ConnSeq DEF Ready
  <2>4. Ready => Append(m.drained, Head(queue)) \in Seq(Conn)
    BY <1>9, <2>0, ConnSeq
  <2>3. m' \in MaintainerLocals
    BY <1>2, <1>9, <2>4, LocalsTyped DEF ScanDrain
  <2>1. TypeOK' BY <1>0, <1>2, <2>0, <2>3 DEF ScanDrain, TypeOK
  <2>2. Holds' BY <1>0, <1>2 DEF ScanDrain, TypeOK, Holds, HoldLabels
  <2> QED BY <2>1, <2>2
<1>3. CASE ScanPing
  <2>0. m.drained # <<>> => Head(m.drained) \in Conn /\ Tail(m.drained) \in Seq(Conn)
    BY <1>9, ConnSeq
  <2>3. m' \in MaintainerLocals
    <3>1. m.drained # <<>> => Append(m.healthy, Head(m.drained)) \in Seq(Conn)
      BY <1>9, <2>0, ConnSeq
    <3>2. (IF Len(m.healthy) > MinIdle THEN Len(m.healthy) - MinIdle ELSE 0) \in Nat
      BY <1>9, ConnSeq, SizesAssumption
    <3>3. CASE m.drained # <<>>
      <4>1. CASE m' = [m EXCEPT !.drained = Tail(@), !.healthy = Append(@, Head(m.drained))]
        BY <1>9, <2>0, <3>1, <3>3, <4>1, LocalsTyped
      <4>2. CASE m' = [m EXCEPT !.drained = Tail(@)]
        BY <1>9, <2>0, <3>3, <4>2, LocalsTyped
      <4> QED BY <1>3, <3>3, <4>1, <4>2 DEF ScanPing
    <3>4. CASE m.drained = <<>>
      <4>1. PICK n \in Nat : m' = [m EXCEPT !.round = "evict", !.surplus = n, !.reenqueued = FALSE]
        BY <1>3, <3>2, <3>4 DEF ScanPing
      <4> QED BY <1>9, <4>1, LocalsTyped
    <3> QED BY <3>3, <3>4
  <2>1. TypeOK' BY <1>0, <1>3, <2>0, <2>3 DEF ScanPing, TypeOK
  <2>2. Holds' BY <1>0, <1>3, <2>0 DEF ScanPing, TypeOK, Holds, HoldLabels
  <2> QED BY <2>1, <2>2
<1>4. CASE ScanEvict
  <2>0. m.healthy # <<>> => Head(m.healthy) \in Conn /\ Tail(m.healthy) \in Seq(Conn)
    BY <1>9, ConnSeq
  <2>3. m' \in MaintainerLocals
    <3>1. m.surplus > 0 => m.surplus - 1 \in Nat
      BY <1>9
    <3>2. CASE m.healthy # <<>>
      <4>1. CASE m' = [m EXCEPT !.healthy = Tail(@)]
        BY <1>9, <2>0, <3>2, <4>1, LocalsTyped
      <4>2. CASE m.surplus > 0 /\ m' = [m EXCEPT !.healthy = Tail(@), !.surplus = @ - 1]
        BY <1>9, <2>0, <3>1, <3>2, <4>2, LocalsTyped
      <4> QED BY <1>4, <3>2, <4>1, <4>2 DEF ScanEvict
    <3>3. CASE m.healthy = <<>>
      BY <1>4, <1>9, <3>3 DEF ScanEvict
    <3> QED BY <3>2, <3>3
  <2>1. TypeOK' BY <1>0, <1>4, <2>0, <2>3 DEF ScanEvict, TypeOK
  <2>2. Holds' BY <1>0, <1>4, <2>0 DEF ScanEvict, TypeOK, Holds, HoldLabels
  <2> QED BY <2>1, <2>2
<1>5. CASE LeakSnapshot \/ LeakRead
  <2>3. m' \in MaintainerLocals
    <3>1. \A c : m.snapshot \ {c} \in SUBSET Conn
      BY <1>9
    <3> QED BY <1>5, <1>9, <3>1, LocalsTyped DEF LeakSnapshot, LeakRead
  <2>1. TypeOK' BY <1>0, <1>5, <2>3 DEF LeakSnapshot, LeakRead, TypeOK
  <2>2. Holds' BY <1>0, <1>5 DEF LeakSnapshot, LeakRead, TypeOK, Holds, HoldLabels
  <2> QED BY <2>1, <2>2
<1>6. CASE ReplenishRead \/ ReplenishSubmit
  <2>0. ReplenishNeed \in Int
    BY SizesAssumption DEF ReplenishNeed, TypeOK
  <2>3. m' \in MaintainerLocals
    <3>1. m.need - 1 \in Int
      BY <1>9
    <3> QED BY <1>6, <1>9, <2>0, <3>1, LocalsTyped DEF ReplenishRead, ReplenishSubmit
  <2>1. TypeOK' BY <1>0, <1>6, <2>3 DEF ReplenishRead, ReplenishSubmit, TypeOK
  <2>2. Holds' BY <1>0, <1>6 DEF ReplenishRead, ReplenishSubmit, TypeOK, Holds, HoldLabels
  <2> QED BY <2>1, <2>2
<1> QED BY <1>1, <1>2, <1>3, <1>4, <1>5, <1>6, <1>7, <1>8

(* The steps of shutdown keep it (DBPool.cc:177-206). *)
LEMMA PoolInvShutdown ==
  ASSUME PoolInv, ShutdownStop \/ ShutdownStep
  PROVE  PoolInv'
<1> USE LabelsAre DEF PoolInv, counts, idleQueue, conns, locals, control
<1>1. CASE ShutdownStop \/ ShutdownJoin \/ ShutdownCreatePool \/ ShutdownDelete
  <2>1. TypeOK' BY <1>1 DEF ShutdownStop, ShutdownJoin, ShutdownCreatePool, ShutdownDelete, TypeOK
  <2>2. Holds' BY <1>1 DEF ShutdownStop, ShutdownJoin, ShutdownCreatePool, ShutdownDelete, Holds
  <2> QED BY <2>1, <2>2
<1>2. CASE ShutdownWake
  <2>1. TypeOK' BY <1>2 DEF ShutdownWake, TypeOK
  <2>2. Holds' BY <1>2 DEF ShutdownWake, Holds, HoldLabels
  <2> QED BY <2>1, <2>2
<1>3. CASE ShutdownDrain
  <2>1. TypeOK' BY <1>3 DEF ShutdownDrain, Ready, TypeOK
  <2>2. Holds' BY <1>3 DEF ShutdownDrain, Holds
  <2> QED BY <2>1, <2>2
<1> QED BY <1>1, <1>2, <1>3 DEF ShutdownStep

(* The invariant is inductive. *)
LEMMA PoolInvNext == PoolInv /\ [Next]_vars => PoolInv'
<1> SUFFICES ASSUME PoolInv, [Next]_vars PROVE PoolInv'
  OBVIOUS
<1>1. CASE UNCHANGED vars
  BY <1>1 DEF PoolInv, TypeOK, Holds, vars, counts, idleQueue, conns, locals, control
<1>2. CASE Next
  BY <1>2, PoolInvBorrow, PoolInvEnqueue, PoolInvDiscard, PoolInvCreate, PoolInvMaintain, PoolInvShutdown
     DEF Next, BorrowerStep, CreatorStep, MaintainerStep, Threads
<1> QED BY <1>1, <1>2

(***************************************************************************)
(* The pool's variables keep their types; in particular only connections,  *)
(* never nullptr, enter the idle queue (DBPool.h:152-185).                 *)
(***************************************************************************)
THEOREM PoolTypeCorrect == Spec => []TypeOK
<1>1. PoolInv => TypeOK
  BY DEF PoolInv
<1> QED BY <1>1, PoolInvInit, PoolInvNext, PTL DEF Spec

-----------------------------------------------------------------------------
(* totalConnCount_ stays within maxSize_. *)

(* Places the maintenance thread has computed and not yet reserved still fit: *)
(* only it raises the count, so the count cannot have grown since it read it. *)
ReservationFits == TotalWithinMax /\ (pc[Maintainer] = "reserve" => total + m.need <= MaxSize)

(* Every other step leaves the count or lowers it, and leaves a pending *)
(* reservation alone (DBPool.cc:208-309, 442-479).                      *)
LEMMA CountOnlyFalls ==
  ASSUME PoolInv, Next, ~ReplenishRead, ~ReplenishReserve
  PROVE  /\ total' <= total
         /\ pc'[Maintainer] = "reserve" => pc[Maintainer] = "reserve" /\ m' = m
<1> USE DEF At, counts, idleQueue, conns, locals, control
<1>0. /\ pc \in [Threads -> Labels] /\ total \in Int /\ Maintainer \in Threads
      /\ m.round # "reserve"
  BY LocalsFields DEF PoolInv, TypeOK, Threads
<1> DEFINE Goal == /\ total' <= total
                   /\ pc'[Maintainer] = "reserve" => pc[Maintainer] = "reserve" /\ m' = m
<1>1. ASSUME NEW t \in Threads, EnqueueStep(t) PROVE Goal
  BY <1>0, <1>1 DEF EnqueueStep, EnqueueClaim, EnqueuePublish, EnqueueCount, CheckWaiters,
     NotifyWaiters, AfterEnqueue
<1>2. ASSUME NEW t \in Threads, DiscardStep(t) PROVE Goal
  BY <1>0, <1>2 DEF DiscardStep, DiscardCount, DiscardErase, DiscardDelete
<1>3. ASSUME NEW b \in Borrowers,
             GetConnection(b) \/ TakeIdleCount(b) \/ TakeIdleStamp(b) \/ WaitStep(b)
      PROVE  Goal
  BY <1>0, <1>3 DEF Threads, GetConnection, TakeIdleCount, TakeIdleStamp, WaitStep, WaitArrive,
     WaitTurn, WaitLeave
<1>4. ASSUME NEW b \in Borrowers,
             WaitTimeout(b) \/ SpuriousWakeup(b) \/ LowWater(b) \/ ReleaseConnection(b)
      PROVE  Goal
  BY <1>0, <1>4 DEF Threads, WaitTimeout, SpuriousWakeup, LowWater, ReleaseConnection
<1>5. ASSUME NEW k \in Creators,
             CreateOne(k) \/ CreateFailed(k) \/ CreateConnected(k) \/ CreateRegister(k)
      PROVE  Goal
  BY <1>0, <1>5 DEF Threads, CreateOne, CreateFailed, CreateConnected, CreateRegister
<1>6. CASE MaintenanceWake \/ MaintenanceClear \/ ScanDrain \/ ScanDrained \/ ScanPing \/ ScanEvict
  BY <1>0, <1>6 DEF MaintenanceWake, MaintenanceClear, ScanDrain, ScanDrained, ScanPing, ScanEvict
<1>7. CASE ScanFlag \/ LeakSnapshot \/ LeakRead \/ ReplenishSubmit
  BY <1>0, <1>7 DEF ScanFlag, LeakSnapshot, LeakRead, ReplenishSubmit
<1>8. CASE ShutdownStop \/ ShutdownStep
  BY <1>0, <1>8 DEF ShutdownStop, ShutdownStep, ShutdownWake, ShutdownJoin, ShutdownCreatePool,
     ShutdownDrain, ShutdownDelete
<1> QED
  BY <1>1, <1>2, <1>3, <1>4, <1>5, <1>6, <1>7, <1>8
     DEF Next, BorrowerStep, CreatorStep, MaintainerStep, Threads

(* Every step keeps the reservation within the places left. *)
LEMMA ReservationNext == PoolInv /\ ReservationFits /\ [Next]_vars => ReservationFits'
<1> SUFFICES ASSUME PoolInv, ReservationFits, [Next]_vars PROVE ReservationFits'
  OBVIOUS
<1>0. /\ total \in Int /\ idle \in Int /\ m.need \in Int /\ MaxSize \in Int /\ MinIdle \in Int
      /\ pc \in [Threads -> Labels] /\ Maintainer \in Threads
  BY LocalsFields, SizesAssumption DEF PoolInv, TypeOK, Threads
<1>1. CASE UNCHANGED vars
  BY <1>1 DEF ReservationFits, TotalWithinMax, vars, counts, locals
<1>2. CASE ReplenishRead
  <2>1. ReplenishNeed \in Int /\ total + ReplenishNeed <= MaxSize
    BY <1>0 DEF ReplenishNeed
  <2>2. total' = total
    BY <1>2 DEF ReplenishRead, counts
  <2>3. pc'[Maintainer] = "reserve" => m'.need = ReplenishNeed
    BY <1>0, <1>2, LocalsFields DEF ReplenishRead, At, PoolInv, TypeOK, MaintainerLocals
  <2> QED BY <2>1, <2>2, <2>3 DEF ReservationFits, TotalWithinMax
<1>3. CASE ReplenishReserve
  BY <1>0, <1>3 DEF ReplenishReserve, ReservationFits, TotalWithinMax, At
<1>4. CASE Next /\ ~ReplenishRead /\ ~ReplenishReserve
  <2>1. total' \in Int
    BY PoolInvNext DEF PoolInv, TypeOK
  <2> QED BY <1>0, <1>4, <2>1, CountOnlyFalls DEF ReservationFits, TotalWithinMax
<1> QED BY <1>1, <1>2, <1>3, <1>4

(***************************************************************************)
(* However borrowers, creators and the maintenance thread interleave, the  *)
(* pool never counts more than maxSize_ connections, although              *)
(* replenishToMinIdle reads and raises the count in two steps              *)
(* (DBPool.cc:425-440).                                                    *)
(***************************************************************************)
THEOREM PoolWithinMax == Spec => []TotalWithinMax
<1>1. Init => PoolInv /\ ReservationFits
  <2>1. Init => ReservationFits
    BY SizesAssumption DEF Init, ReservationFits, TotalWithinMax, Threads, ActorsAssumption
  <2> QED BY <2>1, PoolInvInit
<1>2. PoolInv /\ ReservationFits /\ [Next]_vars => (PoolInv /\ ReservationFits)'
  BY PoolInvNext, ReservationNext
<1>3. PoolInv /\ ReservationFits => TotalWithinMax
  BY DEF ReservationFits
<1> QED BY <1>1, <1>2, <1>3, PTL DEF Spec

-----------------------------------------------------------------------------
(* No lost notification. *)

(* Borrowers between waitForIdle's fetch_add and its fetch_sub. *)
WaitLabels == {"locked", "asleep", "woken", "tookLocked", "stampLocked", "leave"}
Waiters == {b \in Borrowers : pc[b] \in WaitLabels}
WaitersCounted == waiterCount = Cardinality(Waiters)

(* The maintenance thread enqueues and notifies in its second round only. *)
RoundIsKnown ==
  pc[Maintainer] \in {"enqueue", "publish", "count", "evict", "check", "notify"} => m.round = "evict"

Asleep == \E b \in Borrowers : pc[b] = "asleep"
Announced == Asleep /\ Ready => (\E t \in Threads : WillNotify(t)) \/ opc = "wake"
StopIsKnown == /\ stopped <=> opc # "open"
               /\ Asleep /\ stopped => opc = "wake"

(* The borrowers inside waitForIdle can be counted. *)
LEMMA WaitersFinite == IsFiniteSet(Waiters) /\ Cardinality(Waiters) \in Nat
<1>1. Waiters \subseteq Borrowers
  BY DEF Waiters
<1> QED BY <1>1, ActorsAssumption, FS_Subset, FS_CardinalityType

(* A thread that moves without entering or leaving waitForIdle leaves the set *)
(* of waiters as it was.                                                      *)
LEMMA WaitersStay ==
  ASSUME PoolInv, WaitersCounted, NEW t \in Threads, NEW l, pc' = [pc EXCEPT ![t] = l],
         t \notin Borrowers \/ (l \in WaitLabels <=> pc[t] \in WaitLabels),
         waiterCount' = waiterCount
  PROVE  WaitersCounted'
<1>1. pc \in [Threads -> Labels] /\ Borrowers \subseteq Threads
  BY DEF PoolInv, TypeOK, Threads
<1>2. Waiters' = Waiters
  BY <1>1 DEF Waiters
<1> QED BY <1>2 DEF WaitersCounted

(* One that enters or leaves it changes the size of that set by one. *)
LEMMA WaitersChange ==
  ASSUME PoolInv, WaitersCounted, NEW b \in Borrowers, NEW l, pc' = [pc EXCEPT ![b] = l],
         \/ l \in WaitLabels /\ pc[b] \notin WaitLabels /\ waiterCount' = waiterCount + 1
         \/ l \notin WaitLabels /\ pc[b] \in WaitLabels /\ waiterCount' = waiterCount - 1
  PROVE  WaitersCounted'
<1>0. pc \in [Threads -> Labels] /\ Borrowers \subseteq Threads
  BY DEF PoolInv, TypeOK, Threads
<1>1. CASE l \in WaitLabels /\ pc[b] \notin WaitLabels /\ waiterCount' = waiterCount + 1
  <2>1. Waiters' = Waiters \union {b} /\ b \notin Waiters
    BY <1>0, <1>1 DEF Waiters
  <2>2. Cardinality(Waiters') = Cardinality(Waiters) + 1
    BY <2>1, WaitersFinite, FS_AddElement
  <2> QED BY <1>1, <2>2 DEF WaitersCounted
<1>2. CASE l \notin WaitLabels /\ pc[b] \in WaitLabels /\ waiterCount' = waiterCount - 1
  <2>1. Waiters' = Waiters \ {b} /\ b \in Waiters
    BY <1>0, <1>2 DEF Waiters
  <2>2. Cardinality(Waiters') = Cardinality(Waiters) - 1
    BY <2>1, WaitersFinite, FS_RemoveElement
  <2> QED BY <1>2, <2>2 DEF WaitersCounted
<1> QED BY <1>1, <1>2

(* notify_all moves waiters, but not out of waitForIdle. *)
LEMMA WaitersNotified ==
  ASSUME PoolInv, WaitersCounted, ShutdownWake \/ \E t \in Threads : NotifyWaiters(t)
  PROVE  WaitersCounted' /\ ~Asleep'
<1>0. pc \in [Threads -> Labels] /\ Borrowers \subseteq Threads
  BY DEF PoolInv, TypeOK, Threads
<1>1. Waiters' = Waiters /\ waiterCount' = waiterCount
  BY <1>0 DEF NotifyWaiters, ShutdownWake, AfterEnqueue, Waiters, WaitLabels, Threads, counts
<1>2. ~Asleep'
  BY <1>0 DEF NotifyWaiters, ShutdownWake, AfterEnqueue, Asleep, Threads
<1> QED BY <1>1, <1>2 DEF WaitersCounted

(* waiterCount_ counts the borrowers inside waitForIdle (DBPool.cc:246-265). *)
LEMMA WaitersCountedNext == PoolInv /\ WaitersCounted /\ [Next]_vars => WaitersCounted'
<1> SUFFICES ASSUME PoolInv, WaitersCounted, [Next]_vars PROVE WaitersCounted'
  OBVIOUS
<1> USE DEF At, counts, locals
<1>0. /\ pc \in [Threads -> Labels] /\ waiterCount \in Int /\ Maintainer \in Threads
      /\ Maintainer \notin Borrowers /\ m.round \notin WaitLabels
      /\ \A k \in Creators : k \in Threads /\ k \notin Borrowers
      /\ \A b \in Borrowers : b \in Threads
  BY LocalsFields, ActorsAssumption DEF PoolInv, TypeOK, Threads, WaitLabels
<1>1. CASE UNCHANGED vars
  BY <1>1 DEF WaitersCounted, Waiters, vars
<1>2. ASSUME NEW t \in Threads, EnqueueStep(t) PROVE WaitersCounted'
  <2>1. CASE NotifyWaiters(t)
    BY <2>1, WaitersNotified
  <2>2. PICK l \in Labels \ WaitLabels : pc[t] \notin WaitLabels /\ (NotifyWaiters(t) \/ pc' = [pc EXCEPT ![t] = l])
    BY <1>2, LabelsAre DEF EnqueueStep, EnqueueClaim, EnqueuePublish, EnqueueCount, CheckWaiters,
       NotifyWaiters, AfterEnqueue, WaitLabels
  <2>3. waiterCount' = waiterCount
    BY <1>2 DEF EnqueueStep, EnqueueClaim, EnqueuePublish, EnqueueCount, CheckWaiters, NotifyWaiters
  <2> QED BY <1>0, <2>1, <2>2, <2>3, WaitersStay
<1>3. ASSUME NEW t \in Threads, DiscardStep(t) PROVE WaitersCounted'
  <2>1. PICK l \in Labels \ WaitLabels : pc[t] \notin WaitLabels /\ pc' = [pc EXCEPT ![t] = l]
    <3>1. m.round \in {"ping", "evict"}
      BY LocalsFields DEF PoolInv, TypeOK
    <3> QED BY <1>3, <3>1, LabelsAre DEF DiscardStep, DiscardCount, DiscardErase, DiscardDelete, WaitLabels
  <2>2. waiterCount' = waiterCount
    BY <1>3 DEF DiscardStep, DiscardCount, DiscardErase, DiscardDelete
  <2> QED BY <1>0, <2>1, <2>2, WaitersStay
<1>4. ASSUME NEW b \in Borrowers,
             GetConnection(b) \/ TakeIdleCount(b) \/ TakeIdleStamp(b) \/ WaitTurn(b)
      PROVE  WaitersCounted'
  <2>1. PICK l : pc' = [pc EXCEPT ![b] = l] /\ (l \in WaitLabels <=> pc[b] \in WaitLabels)
    BY <1>4 DEF GetConnection, TakeIdleCount, TakeIdleStamp, WaitTurn, WaitLabels
  <2>2. waiterCount' = waiterCount
    BY <1>4 DEF GetConnection, TakeIdleCount, TakeIdleStamp, WaitTurn
  <2> QED BY <1>0, <2>1, <2>2, WaitersStay
<1>5. ASSUME NEW b \in Borrowers,
             WaitTimeout(b) \/ SpuriousWakeup(b) \/ LowWater(b) \/ ReleaseConnection(b)
      PROVE  WaitersCounted'
  <2>1. PICK l : pc' = [pc EXCEPT ![b] = l] /\ (l \in WaitLabels <=> pc[b] \in WaitLabels)
    BY <1>5 DEF WaitTimeout, SpuriousWakeup, LowWater, ReleaseConnection, WaitLabels
  <2>2. waiterCount' = waiterCount
    BY <1>5 DEF WaitTimeout, SpuriousWakeup, LowWater, ReleaseConnection
  <2> QED BY <1>0, <2>1, <2>2, WaitersStay
<1>6. ASSUME NEW b \in Borrowers, WaitArrive(b) \/ WaitLeave(b) PROVE WaitersCounted'
  <2>1. CASE WaitArrive(b)
    <3>1. /\ pc' = [pc EXCEPT ![b] = "locked"] /\ "locked" \in WaitLabels /\ pc[b] \notin WaitLabels
          /\ waiterCount' = waiterCount + 1
      BY <2>1 DEF WaitArrive, WaitLabels
    <3> QED BY <3>1, WaitersChange
  <2>2. CASE WaitLeave(b)
    <3>1. PICK l \in {"out", "got"} : pc' = [pc EXCEPT ![b] = l]
      BY <2>2 DEF WaitLeave
    <3>2. l \notin WaitLabels /\ pc[b] \in WaitLabels /\ waiterCount' = waiterCount - 1
      BY <2>2, <3>1 DEF WaitLeave, WaitLabels
    <3> QED BY <3>1, <3>2, WaitersChange
  <2> QED BY <1>6, <2>1, <2>2
<1>7. ASSUME NEW k \in Creators,
             CreateOne(k) \/ CreateFailed(k) \/ CreateConnected(k) \/ CreateRegister(k)
      PROVE  WaitersCounted'
  <2>1. PICK l : pc' = [pc EXCEPT ![k] = l]
    BY <1>7 DEF CreateOne, CreateFailed, CreateConnected, CreateRegister
  <2>2. waiterCount' = waiterCount
    BY <1>7 DEF CreateOne, CreateFailed, CreateConnected, CreateRegister
  <2> QED BY <1>0, <2>1, <2>2, WaitersStay
<1>8. CASE \/ MaintenanceWake \/ MaintenanceClear \/ ScanDrain \/ ScanDrained \/ ScanPing \/ ScanEvict
           \/ ScanFlag \/ LeakSnapshot \/ LeakRead \/ ReplenishRead \/ ReplenishReserve \/ ReplenishSubmit
  <2>1. \A b \in Borrowers : pc'[b] = pc[b]
    BY <1>0, <1>8 DEF MaintenanceWake, MaintenanceClear, ScanDrain, ScanDrained, ScanPing, ScanEvict,
       ScanFlag, LeakSnapshot, LeakRead, ReplenishRead, ReplenishReserve, ReplenishSubmit
  <2>2. waiterCount' = waiterCount
    BY <1>8 DEF MaintenanceWake, MaintenanceClear, ScanDrain, ScanDrained, ScanPing, ScanEvict,
       ScanFlag, LeakSnapshot, LeakRead, ReplenishRead, ReplenishReserve, ReplenishSubmit
  <2>3. Waiters' = Waiters
    BY <2>1 DEF Waiters
  <2> QED BY <2>2, <2>3 DEF WaitersCounted
<1>9. CASE ShutdownStop \/ ShutdownStep
  <2>1. CASE ShutdownWake
    BY <2>1, WaitersNotified
  <2>2. CASE ~ShutdownWake
    BY <1>9, <2>2 DEF ShutdownStop, ShutdownStep, ShutdownJoin, ShutdownCreatePool, ShutdownDrain,
       ShutdownDelete, WaitersCounted, Waiters
  <2> QED BY <2>1, <2>2
<1> QED
  BY <1>1, <1>2, <1>3, <1>4, <1>5, <1>6, <1>7, <1>8, <1>9
     DEF Next, BorrowerStep, WaitStep, CreatorStep, MaintainerStep, Threads

(* The maintenance thread knows which round it is in (DBPool.cc:339-403). *)
LEMMA RoundIsKnownNext == PoolInv /\ RoundIsKnown /\ [Next]_vars => RoundIsKnown'
<1> SUFFICES ASSUME PoolInv, RoundIsKnown, [Next]_vars PROVE RoundIsKnown'
  OBVIOUS
<1> USE DEF At, locals, RoundIsKnown
<1>0. /\ pc \in [Threads -> Labels] /\ Maintainer \in Threads
      /\ Maintainer \notin Borrowers /\ Maintainer \notin Creators
      /\ \A u \in Borrowers \union Creators : u # Maintainer
      /\ m \in MaintainerLocals
  BY ActorsAssumption DEF PoolInv, TypeOK, Threads
<1>1. CASE UNCHANGED vars
  BY <1>1 DEF vars
<1>2. ASSUME NEW t \in Threads, EnqueueStep(t) PROVE RoundIsKnown'
  <2>1. [m EXCEPT !.reenqueued = TRUE].round = m.round
    BY <1>0 DEF MaintainerLocals
  <2> QED
    BY <1>0, <1>2, <2>1 DEF EnqueueStep, EnqueueClaim, EnqueuePublish, EnqueueCount, CheckWaiters,
       NotifyWaiters, AfterEnqueue
<1>3. ASSUME NEW t \in Threads, DiscardStep(t) PROVE RoundIsKnown'
  <2>1. m.round \in {"ping", "evict"} /\ m' = m
    BY <1>0, <1>3, LocalsFields DEF DiscardStep, DiscardCount, DiscardErase, DiscardDelete
  <2> QED BY <1>0, <1>3, <2>1 DEF DiscardStep, DiscardCount, DiscardErase, DiscardDelete
<1>4. ASSUME NEW b \in Borrowers,
             GetConnection(b) \/ TakeIdleCount(b) \/ TakeIdleStamp(b) \/ WaitStep(b)
      PROVE  RoundIsKnown'
  BY <1>0, <1>4 DEF GetConnection, TakeIdleCount, TakeIdleStamp, WaitStep, WaitArrive, WaitTurn, WaitLeave
<1>5. ASSUME NEW b \in Borrowers,
             WaitTimeout(b) \/ SpuriousWakeup(b) \/ LowWater(b) \/ ReleaseConnection(b)
      PROVE  RoundIsKnown'
  BY <1>0, <1>5 DEF WaitTimeout, SpuriousWakeup, LowWater, ReleaseConnection
<1>6. ASSUME NEW k \in Creators,
             CreateOne(k) \/ CreateFailed(k) \/ CreateConnected(k) \/ CreateRegister(k)
      PROVE  RoundIsKnown'
  BY <1>0, <1>6 DEF CreateOne, CreateFailed, CreateConnected, CreateRegister
<1>7. CASE \/ MaintenanceWake \/ MaintenanceClear \/ ScanDrain \/ ScanDrained
           \/ ScanFlag \/ LeakSnapshot \/ LeakRead \/ ReplenishRead \/ ReplenishReserve \/ ReplenishSubmit
  <2>1. pc'[Maintainer] \notin {"enqueue", "publish", "count", "evict", "check", "notify"}
    BY <1>0, <1>7 DEF MaintenanceWake, MaintenanceClear, ScanDrain, ScanDrained,
       ScanFlag, LeakSnapshot, LeakRead, ReplenishRead, ReplenishReserve, ReplenishSubmit
  <2> QED BY <2>1
<1>8. CASE ScanPing
  <2>1. CASE m.drained = <<>>
    BY <1>0, <1>8, <2>1 DEF ScanPing, MaintainerLocals
  <2>2. CASE m.drained # <<>>
    BY <1>0, <1>8, <2>2 DEF ScanPing
  <2> QED BY <2>1, <2>2
<1>9. CASE ScanEvict
  <2>1. m.round = "evict"
    BY <1>9 DEF ScanEvict
  <2>2. m'.round = m.round
    BY <1>0, <1>9 DEF ScanEvict, MaintainerLocals
  <2> QED BY <2>1, <2>2
<1>10. CASE ShutdownStop \/ ShutdownStep
  BY <1>0, <1>10 DEF ShutdownStop, ShutdownStep, ShutdownWake, ShutdownJoin, ShutdownCreatePool,
     ShutdownDrain, ShutdownDelete
<1> QED
  BY <1>1, <1>2, <1>3, <1>4, <1>5, <1>6, <1>7, <1>8, <1>9, <1>10
     DEF Next, BorrowerStep, CreatorStep, MaintainerStep, Threads

(* A borrower that sleeps is counted in waiterCount_. *)
LEMMA SleepersAreCounted ==
  ASSUME PoolInv, WaitersCounted, Asleep
  PROVE  waiterCount > 0
<1>1. PICK b \in Borrowers : pc[b] = "asleep"
  BY DEF Asleep
<1>2. b \in Waiters
  BY <1>1 DEF Waiters, WaitLabels
<1>3. Cardinality(Waiters) # 0
  BY <1>2, WaitersFinite, FS_EmptySet
<1> QED BY <1>3, WaitersFinite DEF WaitersCounted

(* A step of one thread that puts nobody to sleep, makes no connection       *)
(* available and keeps that thread's obligation to notify loses none.        *)
LEMMA AnnouncedStay ==
  ASSUME PoolInv, Announced, NEW t \in Threads, NEW l, pc' = [pc EXCEPT ![t] = l], l # "asleep",
         Ready' => Ready, opc' = opc, t # Maintainer => m' = m, WillNotify(t) => WillNotify(t)'
  PROVE  Announced'
<1>0. pc \in [Threads -> Labels] /\ Borrowers \subseteq Threads
  BY DEF PoolInv, TypeOK, Threads
<1>1. Asleep' => Asleep
  BY <1>0 DEF Asleep
<1>2. ASSUME NEW u \in Threads, WillNotify(u) PROVE WillNotify(u)'
  <2>1. CASE u = t
    BY <1>2, <2>1
  <2>2. CASE u # t
    BY <1>0, <1>2, <2>2 DEF WillNotify
  <2> QED BY <2>1, <2>2
<1> QED BY <1>1, <1>2 DEF Announced

(* Nothing becomes available while the queue stays as it is. *)
LEMMA ReadyStays == UNCHANGED <<queue, unpublished>> => (Ready' => Ready)
BY DEF Ready

(* A claimed position makes nothing available before it is published. *)
LEMMA ReadyClaim ==
  ASSUME PoolInv, NEW t \in Threads, EnqueueClaim(t)
  PROVE  Ready' => Ready
<1>0. queue \in Seq(Conn) /\ conn[t] \in Conn
  BY DEF PoolInv, TypeOK, Holds, HoldLabels, EnqueueClaim
<1>1. queue' = Append(queue, conn[t]) /\ unpublished' = unpublished \union {conn[t]}
  BY DEF EnqueueClaim
<1>2. CASE queue = <<>>
  <2>1. Head(queue') = conn[t]
    BY <1>0, <1>1, <1>2
  <2> QED BY <1>1, <2>1 DEF Ready
<1>3. CASE queue # <<>>
  <2>1. Head(queue') = Head(queue)
    BY <1>0, <1>1, <1>3
  <2> QED BY <1>1, <1>3, <2>1 DEF Ready
<1> QED BY <1>2, <1>3

(***************************************************************************)
(* The obligation to notify is never dropped while a borrower sleeps and a *)
(* connection is available (DBPool.cc:240-309, 339-403, 442-465).          *)
(***************************************************************************)
LEMMA AnnouncedNext ==
  PoolInv /\ WaitersCounted /\ RoundIsKnown /\ Announced /\ [Next]_vars => Announced'
<1> SUFFICES ASSUME PoolInv, WaitersCounted, RoundIsKnown, Announced, [Next]_vars PROVE Announced'
  OBVIOUS
<1> USE DEF At, locals, idleQueue, control
<1>0. /\ pc \in [Threads -> Labels] /\ Maintainer \in Threads
      /\ m \in MaintainerLocals /\ m.round \in {"ping", "evict"}
      /\ \A b \in Borrowers : b \in Threads /\ b # Maintainer
      /\ \A k \in Creators : k \in Threads /\ k # Maintainer
  BY ActorsAssumption, LocalsFields DEF PoolInv, TypeOK, Threads
<1>1. CASE UNCHANGED vars
  BY <1>1 DEF vars, Announced, Asleep, Ready, WillNotify
<1>2. ASSUME NEW t \in Threads, EnqueueStep(t) PROVE Announced'
  <2>1. CASE EnqueueClaim(t)
    <3>1. pc' = [pc EXCEPT ![t] = "publish"] /\ opc' = opc /\ m' = m /\ pc[t] = "enqueue"
      BY <2>1 DEF EnqueueClaim
    <3>2. WillNotify(t) => WillNotify(t)'
      BY <1>0, <3>1 DEF WillNotify, DiscardLabels
    <3> QED BY <2>1, <3>1, <3>2, ReadyClaim, AnnouncedStay
  <2>2. CASE EnqueuePublish(t)
    <3>1. pc'[t] = "count"
      BY <1>0, <2>2 DEF EnqueuePublish
    <3>2. WillNotify(t)'
      BY <3>1 DEF WillNotify
    <3> QED BY <3>2 DEF Announced
  <2>3. CASE EnqueueCount(t)
    <3>1. CASE t = Maintainer
      <4>1. pc'[t] = "evict" /\ m' = [m EXCEPT !.reenqueued = TRUE] /\ m.round = "evict"
        BY <1>0, <2>3, <3>1 DEF EnqueueCount, RoundIsKnown
      <4>2. m'.round = "evict" /\ m'.reenqueued
        BY <1>0, <4>1 DEF MaintainerLocals
      <4>3. WillNotify(t)'
        BY <3>1, <4>1, <4>2 DEF WillNotify
      <4> QED BY <4>3 DEF Announced
    <3>2. CASE t # Maintainer
      <4>1. pc'[t] = "check"
        BY <1>0, <2>3, <3>2 DEF EnqueueCount
      <4>2. WillNotify(t)'
        BY <4>1 DEF WillNotify
      <4> QED BY <4>2 DEF Announced
    <3> QED BY <3>1, <3>2
  <2>4. CASE CheckWaiters(t)
    <3>1. CASE waiterCount > 0
      <4>1. pc'[t] = "notify"
        BY <1>0, <2>4, <3>1 DEF CheckWaiters
      <4>2. WillNotify(t)'
        BY <4>1 DEF WillNotify
      <4> QED BY <4>2 DEF Announced
    <3>2. CASE ~(waiterCount > 0)
      <4>1. ~Asleep
        BY <3>2, SleepersAreCounted
      <4>2. ~Asleep'
        BY <1>0, <2>4, <3>2, <4>1 DEF Asleep, CheckWaiters, AfterEnqueue
      <4> QED BY <4>2 DEF Announced
    <3> QED BY <3>1, <3>2
  <2>5. CASE NotifyWaiters(t)
    BY <2>5, WaitersNotified DEF Announced
  <2> QED BY <1>2, <2>1, <2>2, <2>3, <2>4, <2>5 DEF EnqueueStep
<1>3. ASSUME NEW t \in Threads, DiscardStep(t), t \in Borrowers \/ t = Maintainer PROVE Announced'
  <2>1. opc' = opc /\ m' = m /\ UNCHANGED <<queue, unpublished>>
    BY <1>3 DEF DiscardStep, DiscardCount, DiscardErase, DiscardDelete
  <2>2. PICK l \in {"erase", "delete", "given", m.round} :
          /\ pc' = [pc EXCEPT ![t] = l] /\ pc[t] \in DiscardLabels
          /\ t = Maintainer => l \in {"erase", "delete", m.round}
    BY <1>0, <1>3 DEF DiscardStep, DiscardCount, DiscardErase, DiscardDelete, DiscardLabels
  <2>3. WillNotify(t) => WillNotify(t)'
    BY <1>0, <2>1, <2>2 DEF WillNotify, DiscardLabels
  <2> QED BY <1>0, <2>1, <2>2, <2>3, ReadyStays, AnnouncedStay
<1>4. ASSUME NEW b \in Borrowers,
             \/ TakeIdleCount(b) \/ TakeIdleStamp(b) \/ WaitArrive(b) \/ WaitLeave(b)
             \/ WaitTimeout(b) \/ SpuriousWakeup(b) \/ LowWater(b) \/ ReleaseConnection(b)
      PROVE  Announced'
  <2>1. opc' = opc /\ m' = m /\ UNCHANGED <<queue, unpublished>>
    BY <1>4 DEF TakeIdleCount, TakeIdleStamp, WaitArrive, WaitLeave, WaitTimeout, SpuriousWakeup,
       LowWater, ReleaseConnection
  <2>2. PICK l : /\ pc' = [pc EXCEPT ![b] = l] /\ l # "asleep"
                 /\ pc[b] \notin {"count", "check", "notify"}
    BY <1>4 DEF TakeIdleCount, TakeIdleStamp, WaitArrive, WaitLeave, WaitTimeout, SpuriousWakeup,
       LowWater, ReleaseConnection
  <2>3. ~WillNotify(b)
    BY <1>0, <2>2 DEF WillNotify
  <2> QED BY <1>0, <2>1, <2>2, <2>3, ReadyStays, AnnouncedStay
<1>5. ASSUME NEW b \in Borrowers, GetConnection(b) \/ WaitTurn(b) PROVE Announced'
  <2>1. /\ opc' = opc /\ m' = m /\ unpublished' = unpublished
        /\ pc[b] \notin {"count", "check", "notify"}
    BY <1>5 DEF GetConnection, WaitTurn
  <2>2. ~WillNotify(b)
    BY <1>0, <2>1 DEF WillNotify
  <2>3. CASE Ready
    <3>1. PICK l : pc' = [pc EXCEPT ![b] = l] /\ l # "asleep"
      BY <1>5, <2>3 DEF GetConnection, WaitTurn
    <3> QED BY <1>0, <2>1, <2>2, <2>3, <3>1, AnnouncedStay
  <2>4. CASE ~Ready
    <3>1. queue' = queue
      BY <1>5, <2>4 DEF GetConnection, WaitTurn
    <3>2. ~Ready'
      BY <2>1, <2>4, <3>1, ReadyStays
    <3> QED BY <3>2 DEF Announced
  <2> QED BY <2>3, <2>4
<1>6. ASSUME NEW k \in Creators,
             CreateOne(k) \/ CreateFailed(k) \/ CreateConnected(k) \/ CreateRegister(k)
      PROVE  Announced'
  <2>1. opc' = opc /\ m' = m /\ UNCHANGED <<queue, unpublished>>
    BY <1>6 DEF CreateOne, CreateFailed, CreateConnected, CreateRegister
  <2>2. PICK l : /\ pc' = [pc EXCEPT ![k] = l] /\ l # "asleep"
                 /\ pc[k] \notin {"count", "check", "notify"}
    BY <1>6 DEF CreateOne, CreateFailed, CreateConnected, CreateRegister
  <2>3. ~WillNotify(k)
    BY <1>0, <2>2 DEF WillNotify
  <2> QED BY <1>0, <2>1, <2>2, <2>3, ReadyStays, AnnouncedStay
<1>7. CASE \/ MaintenanceWake \/ MaintenanceClear \/ ScanDrained \/ ScanFlag \/ LeakSnapshot
           \/ ReplenishRead \/ ReplenishReserve \/ ReplenishSubmit
  <2>1. opc' = opc /\ UNCHANGED <<queue, unpublished>>
    BY <1>7 DEF MaintenanceWake, MaintenanceClear, ScanDrained, ScanFlag, LeakSnapshot,
       ReplenishRead, ReplenishReserve, ReplenishSubmit
  <2>2. PICK l : /\ pc' = [pc EXCEPT ![Maintainer] = l] /\ l # "asleep"
                 /\ pc[Maintainer] \in {"wait", "clear", "drained", "flag", "snapshot", "replenish",
                                        "reserve", "submit"}
    BY <1>7 DEF MaintenanceWake, MaintenanceClear, ScanDrained, ScanFlag, LeakSnapshot,
       ReplenishRead, ReplenishReserve, ReplenishSubmit
  <2>3. ~WillNotify(Maintainer)
    BY <2>2 DEF WillNotify, DiscardLabels
  <2> QED BY <1>0, <2>1, <2>2, <2>3, ReadyStays, AnnouncedStay
<1>8. CASE ScanDrain
  <2>1. /\ opc' = opc /\ unpublished' = unpublished /\ pc[Maintainer] = "drain"
        /\ \E l \in {"drained", "ping"} : pc' = [pc EXCEPT ![Maintainer] = l]
    BY <1>8 DEF ScanDrain
  <2>2. ~WillNotify(Maintainer)
    BY <2>1 DEF WillNotify, DiscardLabels
  <2>3. Ready' => Ready
    BY <1>8, <2>1, ReadyStays DEF ScanDrain
  <2> QED BY <1>0, <2>1, <2>2, <2>3, AnnouncedStay
<1>9. CASE ScanPing \/ LeakRead
  <2>1. /\ opc' = opc /\ UNCHANGED <<queue, unpublished>>
        /\ pc[Maintainer] \in {"ping", "leaks"}
    BY <1>9 DEF ScanPing, LeakRead
  <2>2. PICK l : pc' = [pc EXCEPT ![Maintainer] = l] /\ l # "asleep"
    <3>1. CASE pc' = pc
      BY <1>0, <2>1, <3>1
    <3>2. CASE pc' # pc
      BY <1>9, <3>2 DEF ScanPing, LeakRead
    <3> QED BY <3>1, <3>2
  <2>3. ~WillNotify(Maintainer)
    BY <2>1 DEF WillNotify, DiscardLabels
  <2> QED BY <1>0, <2>1, <2>2, <2>3, ReadyStays, AnnouncedStay
<1>10. CASE ScanEvict
  <2>1. opc' = opc /\ UNCHANGED <<queue, unpublished>> /\ pc[Maintainer] = "evict"
    BY <1>10 DEF ScanEvict
  <2>2. m'.round = m.round /\ m'.reenqueued = m.reenqueued
    BY <1>0, <1>10 DEF ScanEvict, MaintainerLocals
  <2>3. PICK l \in {"discard", "enqueue", "check", "flag"} :
          /\ pc' = [pc EXCEPT ![Maintainer] = l]
          /\ l = "flag" => ~m.reenqueued
    BY <1>10 DEF ScanEvict
  <2>4. WillNotify(Maintainer) => WillNotify(Maintainer)'
    BY <1>0, <2>1, <2>2, <2>3 DEF WillNotify, DiscardLabels
  <2> QED BY <1>0, <2>1, <2>3, <2>4, ReadyStays, AnnouncedStay
<1>11. CASE ShutdownStop \/ ShutdownStep
  <2>1. CASE ShutdownWake
    BY <2>1, WaitersNotified DEF Announced
  <2>2. CASE ShutdownStop
    BY <2>2 DEF ShutdownStop, Announced
  <2>3. CASE ShutdownJoin \/ ShutdownCreatePool \/ ShutdownDrain \/ ShutdownDelete
    <3>1. UNCHANGED <<pc, m>> /\ opc # "wake" /\ (Ready' => Ready)
      BY <2>3, ReadyStays DEF ShutdownJoin, ShutdownCreatePool, ShutdownDrain, ShutdownDelete
    <3> QED BY <3>1 DEF Announced, Asleep, WillNotify
  <2> QED BY <1>11, <2>1, <2>2, <2>3 DEF ShutdownStep
<1> QED
  BY <1>0, <1>1, <1>2, <1>3, <1>4, <1>5, <1>6, <1>7, <1>8, <1>9, <1>10, <1>11
     DEF Next, BorrowerStep, WaitStep, CreatorStep, MaintainerStep

(* A step that puts no thread to sleep and is not shutdown's keeps StopIsKnown. *)
LEMMA StopIsKnownStay ==
  ASSUME PoolInv, StopIsKnown, NEW t \in Threads, NEW l, pc' = [pc EXCEPT ![t] = l],
         l = "asleep" => ~stopped, stopped' = stopped, opc' = opc
  PROVE  StopIsKnown'
<1>0. pc \in [Threads -> Labels] /\ Borrowers \subseteq Threads
  BY DEF PoolInv, TypeOK, Threads
<1>1. Asleep' => Asleep \/ l = "asleep"
  BY <1>0 DEF Asleep
<1> QED BY <1>1 DEF StopIsKnown

(* shutdown's notify_all reaches every borrower that sleeps (DBPool.cc:177-184). *)
LEMMA StopIsKnownNext == PoolInv /\ WaitersCounted /\ StopIsKnown /\ [Next]_vars => StopIsKnown'
<1> SUFFICES ASSUME PoolInv, WaitersCounted, StopIsKnown, [Next]_vars PROVE StopIsKnown'
  OBVIOUS
<1> USE DEF At, control
<1>0. /\ pc \in [Threads -> Labels] /\ Maintainer \in Threads /\ m.round \in {"ping", "evict"}
      /\ \A b \in Borrowers : b \in Threads
      /\ \A k \in Creators : k \in Threads
  BY LocalsFields DEF PoolInv, TypeOK, Threads
<1>1. CASE UNCHANGED vars
  BY <1>1 DEF vars, StopIsKnown, Asleep
<1>2. ASSUME NEW t \in Threads, EnqueueStep(t) PROVE StopIsKnown'
  <2>1. CASE NotifyWaiters(t)
    <3>1. stopped' = stopped /\ opc' = opc
      BY <2>1 DEF NotifyWaiters
    <3> QED BY <2>1, <3>1, WaitersNotified DEF StopIsKnown
  <2>2. CASE EnqueueClaim(t) \/ EnqueuePublish(t) \/ EnqueueCount(t) \/ CheckWaiters(t)
    <3>1. stopped' = stopped /\ opc' = opc
      BY <2>2 DEF EnqueueClaim, EnqueuePublish, EnqueueCount, CheckWaiters
    <3>2. PICK l : pc' = [pc EXCEPT ![t] = l] /\ l # "asleep"
      BY <2>2 DEF EnqueueClaim, EnqueuePublish, EnqueueCount, CheckWaiters, AfterEnqueue
    <3> QED BY <3>1, <3>2, StopIsKnownStay
  <2> QED BY <1>2, <2>1, <2>2 DEF EnqueueStep
<1>3. ASSUME NEW t \in Threads, DiscardStep(t) PROVE StopIsKnown'
  <2>1. stopped' = stopped /\ opc' = opc
    BY <1>3 DEF DiscardStep, DiscardCount, DiscardErase, DiscardDelete
  <2>2. PICK l : pc' = [pc EXCEPT ![t] = l] /\ l # "asleep"
    BY <1>0, <1>3 DEF DiscardStep, DiscardCount, DiscardErase, DiscardDelete
  <2> QED BY <2>1, <2>2, StopIsKnownStay
<1>4. ASSUME NEW b \in Borrowers,
             GetConnection(b) \/ TakeIdleCount(b) \/ TakeIdleStamp(b) \/ WaitStep(b)
      PROVE  StopIsKnown'
  <2>1. stopped' = stopped /\ opc' = opc
    BY <1>4 DEF GetConnection, TakeIdleCount, TakeIdleStamp, WaitStep, WaitArrive, WaitTurn, WaitLeave
  <2>2. PICK l : pc' = [pc EXCEPT ![b] = l] /\ (l = "asleep" => ~stopped)
    BY <1>4 DEF GetConnection, TakeIdleCount, TakeIdleStamp, WaitStep, WaitArrive, WaitTurn, WaitLeave
  <2> QED BY <1>0, <2>1, <2>2, StopIsKnownStay
<1>5. ASSUME NEW b \in Borrowers,
             WaitTimeout(b) \/ SpuriousWakeup(b) \/ LowWater(b) \/ ReleaseConnection(b)
      PROVE  StopIsKnown'
  <2>1. stopped' = stopped /\ opc' = opc
    BY <1>5 DEF WaitTimeout, SpuriousWakeup, LowWater, ReleaseConnection
  <2>2. PICK l : pc' = [pc EXCEPT ![b] = l] /\ l # "asleep"
    BY <1>5 DEF WaitTimeout, SpuriousWakeup, LowWater, ReleaseConnection
  <2> QED BY <1>0, <2>1, <2>2, StopIsKnownStay
<1>6. ASSUME NEW k \in Creators,
             CreateOne(k) \/ CreateFailed(k) \/ CreateConnected(k) \/ CreateRegister(k)
      PROVE  StopIsKnown'
  <2>1. stopped' = stopped /\ opc' = opc
    BY <1>6 DEF CreateOne, CreateFailed, CreateConnected, CreateRegister
  <2>2. PICK l : pc' = [pc EXCEPT ![k] = l] /\ l # "asleep"
    BY <1>6 DEF CreateOne, CreateFailed, CreateConnected, CreateRegister
  <2> QED BY <1>0, <2>1, <2>2, StopIsKnownStay
<1>7. CASE \/ MaintenanceWake \/ MaintenanceClear \/ ScanDrain \/ ScanDrained \/ ScanPing \/ ScanEvict
           \/ ScanFlag \/ LeakSnapshot \/ LeakRead \/ ReplenishRead \/ ReplenishReserve \/ ReplenishSubmit
  <2>1. stopped' = stopped /\ opc' = opc
    BY <1>7 DEF MaintenanceWake, MaintenanceClear, ScanDrain, ScanDrained, ScanPing, ScanEvict,
       ScanFlag, LeakSnapshot, LeakRead, ReplenishRead, ReplenishReserve, ReplenishSubmit
  <2>2. pc' = pc \/ \E l : pc' = [pc EXCEPT ![Maintainer] = l] /\ l # "asleep"
    BY <1>7 DEF MaintenanceWake, MaintenanceClear, ScanDrain, ScanDrained, ScanPing, ScanEvict,
       ScanFlag, LeakSnapshot, LeakRead, ReplenishRead, ReplenishReserve, ReplenishSubmit
  <2>3. CASE pc' = pc
    BY <2>1, <2>3 DEF StopIsKnown, Asleep
  <2> QED BY <1>0, <2>1, <2>2, <2>3, StopIsKnownStay
<1>8. CASE ShutdownStop \/ ShutdownStep
  <2>1. CASE ShutdownWake
    <3>1. stopped' = stopped /\ opc' = "join" /\ opc = "wake"
      BY <2>1 DEF ShutdownWake
    <3> QED BY <2>1, <3>1, WaitersNotified DEF StopIsKnown
  <2>2. CASE ShutdownStop
    BY <2>2 DEF ShutdownStop, StopIsKnown
  <2>3. CASE ShutdownJoin \/ ShutdownCreatePool \/ ShutdownDrain \/ ShutdownDelete
    <3>1. /\ pc' = pc /\ stopped' = stopped /\ opc \notin {"open", "wake"}
          /\ opc' \in {"createPool", "drain", "delete", "closed"}
      BY <2>3 DEF ShutdownJoin, ShutdownCreatePool, ShutdownDrain, ShutdownDelete
    <3> QED BY <3>1 DEF StopIsKnown, Asleep
  <2> QED BY <1>8, <2>1, <2>2, <2>3 DEF ShutdownStep
<1> QED
  BY <1>0, <1>1, <1>2, <1>3, <1>4, <1>5, <1>6, <1>7, <1>8
     DEF Next, BorrowerStep, CreatorStep, MaintainerStep

(***************************************************************************)
(* No notification is lost and no borrower sleeps through a shutdown, for  *)
(* any number of borrowers and creating threads: the waiterCount_          *)
(* handshake of waitForIdle with releaseConnection, createOne and          *)
(* scanConnections (DBPool.cc:240-309, 339-403, 442-465) is sound.         *)
(***************************************************************************)
THEOREM SleepersNotified == Spec => []SleepersAreNotified
<1> DEFINE Inv == PoolInv /\ WaitersCounted /\ RoundIsKnown /\ Announced /\ StopIsKnown
<1>1. Init => Inv
  <2> SUFFICES ASSUME Init PROVE Inv
    OBVIOUS
  <2>1. \A b \in Borrowers : pc[b] = "out"
    BY DEF Init, Threads
  <2>2. pc[Maintainer] = "wait"
    BY ActorsAssumption DEF Init, Threads
  <2>3. Waiters = {} /\ ~Asleep
    BY <2>1 DEF Waiters, WaitLabels, Asleep
  <2>4. WaitersCounted
    BY <2>3, FS_EmptySet DEF WaitersCounted, Init
  <2>5. RoundIsKnown /\ Announced /\ StopIsKnown
    BY <2>2, <2>3 DEF RoundIsKnown, Announced, StopIsKnown, Init
  <2> QED BY <2>4, <2>5, PoolInvInit
<1>2. Inv /\ [Next]_vars => Inv'
  BY PoolInvNext, WaitersCountedNext, RoundIsKnownNext, AnnouncedNext, StopIsKnownNext
<1>3. Inv => SleepersAreNotified
  <2> SUFFICES ASSUME Inv, Asleep PROVE SleepersAreNotified
    BY DEF SleepersAreNotified, Asleep
  <2> QED BY SleepersAreCounted DEF SleepersAreNotified, Announced, StopIsKnown
<1> QED BY <1>1, <1>2, <1>3, PTL DEF Spec

-----------------------------------------------------------------------------
(* One owner per connection.                                                 *)

(* What each thread holds: a connection in the queue is no longer its        *)
(* thread's, published or not.                                               *)
hands == [t \in Threads |-> IF pc[t] = "publish" THEN NoConn ELSE conn[t]]

Held(h) == {h[t] : t \in Threads} \ {NoConn}
OneHand(h) == \A t, u \in Threads : h[t] = h[u] /\ h[t] # NoConn => t = u
Listed(s) == {s[i] : i \in DOMAIN s}
NoRepeat(s) == \A i, j \in DOMAIN s : s[i] = s[j] => i = j

Disjoint(A, B, C, D) ==
  /\ A \intersect B = {} /\ A \intersect C = {} /\ A \intersect D = {}
  /\ B \intersect C = {} /\ B \intersect D = {} /\ C \intersect D = {}

(* A thread that is not using, moving or deleting a connection has none.     *)
HandsEmpty == \A t \in Threads : pc[t] \notin HoldLabels \union {"leave"} => conn[t] = NoConn

(* No connection is in two places, and none that is in a place is deleted.   *)
NotShared ==
  /\ OneHand(hands) /\ NoRepeat(queue) /\ NoRepeat(m.drained) /\ NoRepeat(m.healthy)
  /\ Disjoint(Held(hands), Listed(queue), Listed(m.drained), Listed(m.healthy))
  /\ Held(hands) \union Listed(queue) \union Listed(m.drained) \union Listed(m.healthy) \subseteq alive

(* No connection is lost while the pool is open or being joined.             *)
NotLost == alive \subseteq Held(hands) \union Listed(queue) \union Listed(m.drained) \union Listed(m.healthy)

OwnInv ==
  /\ HandsEmpty
  /\ opc # "closed" => NotShared
  /\ opc \in {"open", "wake", "join", "createPool"} => NotLost

(* Taking the first element of a list without repetitions.                   *)
LEMMA TailListed ==
  ASSUME NEW s \in Seq(Conn), s # <<>>, NoRepeat(s)
  PROVE  /\ NoRepeat(Tail(s)) /\ Listed(Tail(s)) = Listed(s) \ {Head(s)}
         /\ Head(s) \in Listed(s) /\ Head(s) \in Conn
<1>1. /\ Len(s) \in Nat \ {0} /\ DOMAIN s = 1..Len(s) /\ Head(s) = s[1]
      /\ DOMAIN Tail(s) = 1..(Len(s) - 1) /\ \A i \in 1..(Len(s) - 1) : Tail(s)[i] = s[i + 1]
  OBVIOUS
<1>2. NoRepeat(Tail(s))
  BY <1>1 DEF NoRepeat
<1>3. Listed(Tail(s)) \subseteq Listed(s) \ {Head(s)}
  BY <1>1 DEF NoRepeat, Listed
<1>4. ASSUME NEW c \in Listed(s), c # Head(s) PROVE c \in Listed(Tail(s))
  <2>1. PICK i \in 1..Len(s) : s[i] = c
    BY <1>1 DEF Listed
  <2>2. i - 1 \in 1..(Len(s) - 1) /\ (i - 1) + 1 = i
    BY <2>1, <1>4, <1>1
  <2> QED BY <2>1, <2>2, <1>1 DEF Listed
<1>5. Listed(Tail(s)) = Listed(s) \ {Head(s)}
  BY <1>3, <1>4
<1>6. Head(s) \in Listed(s) /\ Head(s) \in Conn
  BY <1>1 DEF Listed
<1> QED BY <1>2, <1>5, <1>6

(* Putting a new element at the end.                                         *)
LEMMA AppendListed ==
  ASSUME NEW s \in Seq(Conn), NEW c \in Conn, NoRepeat(s), c \notin Listed(s)
  PROVE  NoRepeat(Append(s, c)) /\ Listed(Append(s, c)) = Listed(s) \union {c}
<1>1. /\ Len(s) \in Nat /\ DOMAIN s = 1..Len(s)
      /\ DOMAIN Append(s, c) = 1..(Len(s) + 1) /\ Append(s, c)[Len(s) + 1] = c
      /\ \A i \in 1..Len(s) : Append(s, c)[i] = s[i]
  OBVIOUS
<1>2. NoRepeat(Append(s, c))
  BY <1>1 DEF NoRepeat, Listed
<1>3. Listed(Append(s, c)) \subseteq Listed(s) \union {c}
  BY <1>1 DEF Listed
<1>4. Listed(s) \union {c} \subseteq Listed(Append(s, c))
  BY <1>1 DEF Listed
<1> QED BY <1>2, <1>3, <1>4

(* Taking a connection into an empty hand, and out of a hand.                *)
LEMMA HandIn ==
  ASSUME NEW h \in [Threads -> Conn \union {NoConn}], NEW t \in Threads, NEW c \in Conn,
         h[t] = NoConn, OneHand(h), c \notin Held(h)
  PROVE  LET g == [h EXCEPT ![t] = c] IN OneHand(g) /\ Held(g) = Held(h) \union {c}
  BY ConnAssumption DEF OneHand, Held

(* And back.                                                                 *)
LEMMA HandOut ==
  ASSUME NEW h \in [Threads -> Conn \union {NoConn}], NEW t \in Threads, h[t] # NoConn, OneHand(h)
  PROVE  LET g == [h EXCEPT ![t] = NoConn]
         IN  OneHand(g) /\ Held(g) = Held(h) \ {h[t]} /\ h[t] \in Held(h) /\ h[t] \in Conn
  BY ConnAssumption DEF OneHand, Held

(* The lists and the hands are typed.                                        *)
LEMMA OwnTypes ==
  ASSUME PoolInv
  PROVE  /\ hands \in [Threads -> Conn \union {NoConn}] /\ conn \in [Threads -> Conn \union {NoConn}]
         /\ pc \in [Threads -> Labels]
         /\ queue \in Seq(Conn) /\ m.drained \in Seq(Conn) /\ m.healthy \in Seq(Conn)
         /\ alive \subseteq Conn /\ m \in MaintainerLocals
  BY LocalsFields DEF hands, PoolInv, TypeOK

(* A step of one thread that moves no connection.                            *)
LEMMA OwnStay ==
  ASSUME PoolInv, OwnInv, NEW t \in Threads, NEW l, pc' = [pc EXCEPT ![t] = l],
         pc[t] # "publish", l # "publish",
         \/ l \in HoldLabels \union {"leave"} \/ pc[t] \notin HoldLabels \union {"leave"}
         \/ conn[t] = NoConn,
         conn' = conn, queue' = queue, alive' = alive, opc' = opc,
         m'.drained = m.drained, m'.healthy = m.healthy
  PROVE  OwnInv'
<1>1. hands' = hands
  BY OwnTypes DEF hands
<1>2. HandsEmpty'
  BY OwnTypes DEF OwnInv, HandsEmpty
<1> QED BY <1>1, <1>2 DEF OwnInv, NotShared, NotLost

(* A step that wakes sleepers moves none either.                             *)
LEMMA OwnWake ==
  ASSUME PoolInv, OwnInv, NEW t, NEW l, l \notin HoldLabels,
         pc' = [u \in Threads |-> IF pc[u] = "asleep" THEN "woken" ELSE IF u = t THEN l ELSE pc[u]],
         t \in Threads => pc[t] \notin HoldLabels \union {"leave"},
         conn' = conn, queue' = queue, alive' = alive, m' = m, opc' # "closed", opc # "closed",
         opc' \in {"open", "wake", "join", "createPool"} => opc \in {"open", "wake", "join", "createPool"}
  PROVE  OwnInv'
<1>1. hands' = hands
  BY OwnTypes DEF hands, HoldLabels
<1>2. HandsEmpty'
  BY OwnTypes DEF OwnInv, HandsEmpty, HoldLabels
<1> QED BY <1>1, <1>2 DEF OwnInv, NotShared, NotLost

(* A dequeue by a borrower: the connection is now in its hand.               *)
LEMMA OwnTake ==
  ASSUME PoolInv, OwnInv, opc # "closed", NEW t \in Threads, NEW l \in HoldLabels \ {"publish"},
         pc' = [pc EXCEPT ![t] = l], pc[t] \notin HoldLabels \union {"leave"}, queue # <<>>,
         queue' = Tail(queue), conn' = [conn EXCEPT ![t] = Head(queue)],
         alive' = alive, opc' = opc, m' = m
  PROVE  OwnInv'
<1>1. NotShared /\ hands[t] = NoConn /\ conn[t] = NoConn
  BY DEF OwnInv, HandsEmpty, hands
<1>2. /\ NoRepeat(queue') /\ Listed(queue') = Listed(queue) \ {Head(queue)}
      /\ Head(queue) \in Listed(queue) /\ Head(queue) \in Conn
  BY <1>1, TailListed, OwnTypes DEF NotShared
<1>3. hands' = [hands EXCEPT ![t] = Head(queue)]
  BY OwnTypes DEF hands, HoldLabels
<1>4. OneHand(hands') /\ Held(hands') = Held(hands) \union {Head(queue)}
  BY <1>1, <1>2, <1>3, HandIn, OwnTypes DEF NotShared, Disjoint
<1>5. HandsEmpty'
  BY <1>1, OwnTypes DEF OwnInv, HandsEmpty
<1>6. NotShared'
  BY <1>1, <1>2, <1>4 DEF NotShared, Disjoint
<1>7. NotLost => NotLost'
  BY <1>2, <1>4 DEF NotLost
<1> QED BY <1>5, <1>6, <1>7 DEF OwnInv

(* An enqueue: from the claim on the connection belongs to the queue.        *)
LEMMA OwnEnqueue ==
  ASSUME PoolInv, OwnInv, opc # "closed", NEW t \in Threads, EnqueueClaim(t)
  PROVE  OwnInv'
<1>1. /\ pc[t] = "enqueue" /\ pc' = [pc EXCEPT ![t] = "publish"] /\ conn' = conn
      /\ queue' = Append(queue, conn[t]) /\ alive' = alive /\ opc' = opc /\ m' = m
  BY DEF EnqueueClaim, At, counts, locals, control
<1>2. NotShared /\ hands[t] = conn[t] /\ conn[t] \in Conn /\ hands[t] # NoConn
  BY <1>1, ConnAssumption DEF OwnInv, hands, PoolInv, Holds, HoldLabels
<1>3. hands' = [hands EXCEPT ![t] = NoConn]
  BY <1>1, OwnTypes DEF hands
<1>4. OneHand(hands') /\ Held(hands') = Held(hands) \ {conn[t]} /\ conn[t] \in Held(hands)
  BY <1>2, <1>3, HandOut, OwnTypes DEF NotShared
<1>5. NoRepeat(queue') /\ Listed(queue') = Listed(queue) \union {conn[t]}
  BY <1>1, <1>2, <1>4, AppendListed, OwnTypes DEF NotShared, Disjoint
<1>6. HandsEmpty'
  BY <1>1, OwnTypes DEF OwnInv, HandsEmpty, HoldLabels
<1>7. NotShared'
  BY <1>1, <1>2, <1>4, <1>5 DEF NotShared, Disjoint
<1>8. NotLost => NotLost'
  BY <1>1, <1>4, <1>5 DEF NotLost
<1> QED BY <1>1, <1>6, <1>7, <1>8 DEF OwnInv

(* Publishing it changes nothing of that.                                    *)
LEMMA OwnPublish ==
  ASSUME PoolInv, OwnInv, NEW t \in Threads, EnqueuePublish(t)
  PROVE  OwnInv'
<1>1. /\ pc[t] = "publish" /\ pc' = [pc EXCEPT ![t] = "count"] /\ conn' = [conn EXCEPT ![t] = NoConn]
      /\ queue' = queue /\ alive' = alive /\ opc' = opc /\ m' = m
  BY DEF EnqueuePublish, At, conns, control
<1>2. hands' = hands
  BY <1>1, OwnTypes DEF hands
<1>3. HandsEmpty'
  BY <1>1, OwnTypes DEF OwnInv, HandsEmpty
<1> QED BY <1>1, <1>2, <1>3 DEF OwnInv, NotShared, NotLost

(* A connection is freed out of a hand, and a new one is born into one.      *)
LEMMA OwnDelete ==
  ASSUME PoolInv, OwnInv, opc # "closed", NEW t \in Threads, DiscardDelete(t)
  PROVE  OwnInv'
<1> DEFINE l == IF t \in Borrowers THEN "given" ELSE m.round
<1>1. /\ pc[t] = "delete" /\ pc' = [pc EXCEPT ![t] = l] /\ conn' = [conn EXCEPT ![t] = NoConn]
      /\ queue' = queue /\ alive' = alive \ {conn[t]} /\ opc' = opc /\ m' = m
  BY DEF DiscardDelete, At, control, idleQueue
<1>2. NotShared /\ hands[t] = conn[t] /\ conn[t] \in Conn /\ hands[t] # NoConn
  BY <1>1, ConnAssumption DEF OwnInv, hands, PoolInv, Holds, HoldLabels
<1>3. l # "publish"
  BY LocalsFields, OwnTypes
<1> HIDE DEF l
<1>4. hands' = [hands EXCEPT ![t] = NoConn]
  BY <1>1, <1>3, OwnTypes DEF hands
<1>5. OneHand(hands') /\ Held(hands') = Held(hands) \ {conn[t]} /\ conn[t] \in Held(hands)
  BY <1>2, <1>4, HandOut, OwnTypes DEF NotShared
<1>6. HandsEmpty'
  BY <1>1, OwnTypes DEF OwnInv, HandsEmpty, HoldLabels
<1>7. NotShared'
  BY <1>1, <1>2, <1>5 DEF NotShared, Disjoint
<1>8. NotLost => NotLost'
  BY <1>1, <1>5 DEF NotLost
<1> QED BY <1>1, <1>6, <1>7, <1>8 DEF OwnInv

(* The new one has an address nobody uses.                                   *)
LEMMA OwnCreate ==
  ASSUME PoolInv, OwnInv, opc # "closed", NEW t \in Creators, CreateConnected(t)
  PROVE  OwnInv'
<1>1. PICK c \in Conn \ alive : /\ alive' = alive \union {c} /\ conn' = [conn EXCEPT ![t] = c]
  BY DEF CreateConnected
<1>2. /\ pc[t] = "connect" /\ pc' = [pc EXCEPT ![t] = "register"] /\ t \in Threads
      /\ queue' = queue /\ opc' = opc /\ m' = m
  BY DEF CreateConnected, At, control, idleQueue, Threads
<1>3. NotShared /\ hands[t] = NoConn /\ conn[t] = NoConn
  BY <1>2 DEF OwnInv, HandsEmpty, hands, HoldLabels
<1>4. hands' = [hands EXCEPT ![t] = c]
  BY <1>1, <1>2, OwnTypes DEF hands
<1>5. OneHand(hands') /\ Held(hands') = Held(hands) \union {c}
  BY <1>2, <1>3, <1>4, HandIn, OwnTypes DEF NotShared
<1>6. HandsEmpty'
  BY <1>1, <1>2, OwnTypes DEF OwnInv, HandsEmpty, HoldLabels
<1>7. NotShared'
  BY <1>1, <1>2, <1>3, <1>5 DEF NotShared, Disjoint
<1>8. NotLost => NotLost'
  BY <1>1, <1>2, <1>5 DEF NotLost
<1> QED BY <1>2, <1>6, <1>7, <1>8 DEF OwnInv

(* The scan moves connections from the queue to its lists and to its hand.   *)
LEMMA OwnScan ==
  ASSUME PoolInv, OwnInv, opc # "closed", ScanDrain \/ ScanPing \/ ScanEvict
  PROVE  OwnInv'
<1> USE DEF At, counts, conns, idleQueue, control
<1> DEFINE t == Maintainer
<1>0. /\ t \in Threads /\ NotShared /\ opc' = opc /\ alive' = alive
      /\ m.drained \in Seq(Conn) /\ m.healthy \in Seq(Conn) /\ queue \in Seq(Conn) /\ m \in MaintainerLocals
  BY OwnTypes DEF OwnInv, Threads, ScanDrain, ScanPing, ScanEvict
<1>1. pc[t] \in {"drain", "ping", "evict"} /\ hands[t] = NoConn /\ conn[t] = NoConn
  BY <1>0 DEF OwnInv, HandsEmpty, hands, HoldLabels, ScanDrain, ScanPing, ScanEvict
<1>2. CASE ScanDrain /\ Ready
  <2>1. /\ queue # <<>> /\ queue' = Tail(queue) /\ conn' = conn /\ pc' = [pc EXCEPT ![t] = "drained"]
        /\ m'.drained = Append(m.drained, Head(queue)) /\ m'.healthy = m.healthy
    BY <1>0, <1>2 DEF ScanDrain, Ready, MaintainerLocals
  <2>2. /\ NoRepeat(queue') /\ Listed(queue') = Listed(queue) \ {Head(queue)}
        /\ Head(queue) \in Listed(queue) /\ Head(queue) \in Conn
    BY <1>0, <2>1, TailListed DEF NotShared
  <2>3. NoRepeat(m'.drained) /\ Listed(m'.drained) = Listed(m.drained) \union {Head(queue)}
    BY <1>0, <2>1, <2>2, AppendListed DEF NotShared, Disjoint
  <2>4. hands' = hands /\ HandsEmpty'
    BY <1>1, <2>1, OwnTypes DEF hands, OwnInv, HandsEmpty
  <2>5. NotShared' /\ (NotLost => NotLost')
    BY <1>0, <2>1, <2>2, <2>3, <2>4 DEF NotShared, NotLost, Disjoint
  <2> QED BY <1>0, <2>4, <2>5 DEF OwnInv
<1>3. CASE ScanDrain /\ ~Ready
  <2>1. /\ pc' = [pc EXCEPT ![t] = "ping"] /\ m'.drained = m.drained /\ m'.healthy = m.healthy
        /\ conn' = conn /\ queue' = queue
    BY <1>0, <1>3 DEF ScanDrain, MaintainerLocals
  <2> QED BY <1>0, <1>1, <2>1, OwnStay
<1>4. CASE ScanPing
  <2>1. queue' = queue
    BY <1>4 DEF ScanPing
  <2>2. CASE m.drained # <<>>
    <3> DEFINE c == Head(m.drained)
    <3>1. /\ NoRepeat(Tail(m.drained)) /\ Listed(Tail(m.drained)) = Listed(m.drained) \ {c}
          /\ c \in Listed(m.drained) /\ c \in Conn
      BY <1>0, <2>2, TailListed DEF NotShared
    <3>2. CASE /\ m' = [m EXCEPT !.drained = Tail(@), !.healthy = Append(@, Head(m.drained))]
               /\ pc' = pc /\ conn' = conn
      <4>1. m'.drained = Tail(m.drained) /\ m'.healthy = Append(m.healthy, c)
        BY <1>0, <3>2 DEF MaintainerLocals
      <4>2. NoRepeat(m'.healthy) /\ Listed(m'.healthy) = Listed(m.healthy) \union {c}
        BY <1>0, <3>1, <4>1, AppendListed DEF NotShared, Disjoint
      <4>3. hands' = hands /\ HandsEmpty'
        BY <3>2 DEF hands, OwnInv, HandsEmpty
      <4> HIDE DEF c
      <4>4. NotShared' /\ (NotLost => NotLost')
        BY <1>0, <2>1, <3>1, <4>1, <4>2, <4>3 DEF NotShared, NotLost, Disjoint
      <4> QED BY <1>0, <4>3, <4>4 DEF OwnInv
    <3>3. CASE /\ m' = [m EXCEPT !.drained = Tail(@)] /\ conn' = [conn EXCEPT ![t] = c]
               /\ pc' = [pc EXCEPT ![t] = "discard"]
      <4>1. m'.drained = Tail(m.drained) /\ m'.healthy = m.healthy
        BY <1>0, <3>3 DEF MaintainerLocals
      <4>2. hands' = [hands EXCEPT ![t] = c] /\ HandsEmpty'
        BY <1>0, <1>1, <3>3, OwnTypes DEF hands, OwnInv, HandsEmpty, HoldLabels
      <4>3. OneHand(hands') /\ Held(hands') = Held(hands) \union {c}
        BY <1>0, <1>1, <3>1, <4>2, HandIn, OwnTypes DEF NotShared, Disjoint
      <4> HIDE DEF c
      <4>4. NotShared' /\ (NotLost => NotLost')
        BY <1>0, <2>1, <3>1, <4>1, <4>3 DEF NotShared, NotLost, Disjoint
      <4> QED BY <1>0, <4>2, <4>4 DEF OwnInv
    <3> QED BY <1>4, <2>2, <3>2, <3>3 DEF ScanPing
  <2>3. CASE m.drained = <<>>
    <3>1. /\ pc' = [pc EXCEPT ![t] = "evict"] /\ m'.drained = m.drained /\ m'.healthy = m.healthy
          /\ conn' = conn
      BY <1>0, <1>4, <2>3 DEF ScanPing, MaintainerLocals
    <3> QED BY <1>0, <1>1, <2>1, <3>1, OwnStay
  <2> QED BY <2>2, <2>3
<1>5. CASE ScanEvict /\ m.healthy # <<>>
  <2> DEFINE c == Head(m.healthy)
  <2>1. /\ NoRepeat(Tail(m.healthy)) /\ Listed(Tail(m.healthy)) = Listed(m.healthy) \ {c}
        /\ c \in Listed(m.healthy) /\ c \in Conn
    BY <1>0, <1>5, TailListed DEF NotShared
  <2>2. /\ m'.drained = m.drained /\ m'.healthy = Tail(m.healthy) /\ queue' = queue
        /\ conn' = [conn EXCEPT ![t] = c]
        /\ pc' = [pc EXCEPT ![t] = "discard"] \/ pc' = [pc EXCEPT ![t] = "enqueue"]
    BY <1>0, <1>5 DEF ScanEvict, MaintainerLocals
  <2>3. hands' = [hands EXCEPT ![t] = c] /\ HandsEmpty'
    BY <1>0, <1>1, <2>2, OwnTypes DEF hands, OwnInv, HandsEmpty, HoldLabels
  <2>4. OneHand(hands') /\ Held(hands') = Held(hands) \union {c}
    BY <1>0, <1>1, <2>1, <2>3, HandIn, OwnTypes DEF NotShared, Disjoint
  <2> HIDE DEF c
  <2>5. NotShared' /\ (NotLost => NotLost')
    BY <1>0, <2>1, <2>2, <2>4 DEF NotShared, NotLost, Disjoint
  <2> QED BY <1>0, <2>3, <2>5 DEF OwnInv
<1>6. CASE ScanEvict /\ m.healthy = <<>>
  <2>1. /\ pc' = [pc EXCEPT ![t] = "check"] \/ pc' = [pc EXCEPT ![t] = "flag"]
        /\ m' = m /\ conn' = conn /\ queue' = queue
    BY <1>0, <1>6 DEF ScanEvict
  <2> QED BY <1>0, <1>1, <2>1, OwnStay
<1> QED BY <1>2, <1>3, <1>4, <1>5, <1>6

(* The connections still queued are freed with the registry at the end.      *)
LEMMA OwnShutdown ==
  ASSUME PoolInv, OwnInv, ShutdownStop \/ ShutdownStep
  PROVE  OwnInv'
<1> USE DEF counts, conns, idleQueue, locals
<1>1. CASE ShutdownStop \/ ShutdownJoin \/ ShutdownCreatePool
  <2>1. /\ pc' = pc /\ conn' = conn /\ m' = m /\ queue' = queue /\ alive' = alive
        /\ opc \in {"open", "wake", "join", "createPool"}
    BY <1>1 DEF ShutdownStop, ShutdownJoin, ShutdownCreatePool
  <2> QED BY <2>1 DEF OwnInv, HandsEmpty, NotShared, NotLost, hands
<1>2. CASE ShutdownWake
  <2>1. /\ conn' = conn /\ m' = m /\ queue' = queue /\ alive' = alive
        /\ pc' = [u \in Threads |-> IF pc[u] = "asleep" THEN "woken" ELSE pc[u]]
        /\ opc = "wake" /\ opc' = "join"
    BY <1>2 DEF ShutdownWake
  <2>2. hands' = hands
    BY <2>1, OwnTypes DEF hands
  <2>3. HandsEmpty'
    BY <2>1, OwnTypes DEF OwnInv, HandsEmpty, HoldLabels
  <2> QED BY <2>1, <2>2, <2>3 DEF OwnInv, NotShared, NotLost
<1>3. CASE ShutdownDrain
  <2>1. pc' = pc /\ conn' = conn /\ m' = m /\ alive' = alive /\ opc = "drain"
        /\ opc' \in {"drain", "delete"} /\ NotShared
    BY <1>3 DEF ShutdownDrain, OwnInv
  <2>2. hands' = hands /\ HandsEmpty'
    BY <2>1 DEF hands, OwnInv, HandsEmpty
  <2>3. CASE queue' = queue
    BY <2>1, <2>2, <2>3 DEF OwnInv, NotShared
  <2>4. CASE queue # <<>> /\ queue' = Tail(queue)
    <3>1. NoRepeat(queue') /\ Listed(queue') = Listed(queue) \ {Head(queue)}
      BY <2>1, <2>4, TailListed, OwnTypes DEF NotShared
    <3>2. NotShared'
      BY <2>1, <2>2, <3>1 DEF NotShared, Disjoint
    <3> QED BY <2>1, <2>2, <3>2 DEF OwnInv
  <2> QED BY <1>3, <2>3, <2>4 DEF ShutdownDrain, Ready
<1>4. CASE ShutdownDelete
  BY <1>4 DEF ShutdownDelete, OwnInv, HandsEmpty
<1> QED BY <1>1, <1>2, <1>3, <1>4 DEF ShutdownStep

(* init() puts every connection it creates in the queue.                     *)
LEMMA OwnInvInit == Init => OwnInv
<1> SUFFICES ASSUME Init PROVE OwnInv
  OBVIOUS
<1>1. /\ conn = [t \in Threads |-> NoConn] /\ m.drained = <<>> /\ m.healthy = <<>>
      /\ queue \in [1..MinIdle -> Conn] /\ NoRepeat(queue) /\ alive = Listed(queue)
  BY SizesAssumption DEF Init, NoRepeat, Listed
<1>2. Held(hands) = {} /\ OneHand(hands) /\ HandsEmpty
  BY <1>1 DEF Held, OneHand, hands, HandsEmpty
<1>3. Listed(<<>>) = {} /\ NoRepeat(<<>>)
  BY DEF Listed, NoRepeat
<1> QED BY <1>1, <1>2, <1>3 DEF OwnInv, NotShared, NotLost, Disjoint

(* Every step of the pool moves a connection from one place to one other.    *)
LEMMA OwnInvNext == PoolInv /\ OwnInv /\ [Next]_vars => OwnInv'
<1> SUFFICES ASSUME PoolInv, OwnInv, [Next]_vars PROVE OwnInv'
  OBVIOUS
<1> USE DEF At, locals, idleQueue, control, conns
<1>0. /\ Maintainer \in Threads /\ m \in MaintainerLocals
      /\ \A b \in Borrowers : b \in Threads
      /\ \A k \in Creators : k \in Threads
  BY OwnTypes DEF Threads
<1>1. CASE UNCHANGED vars
  BY <1>1 DEF vars, OwnInv, HandsEmpty, NotShared, NotLost, hands
<1>2. ASSUME NEW b \in Borrowers, opc # "closed", GetConnection(b) \/ WaitTurn(b) PROVE OwnInv'
  <2>1. CASE Ready
    <3>1. /\ queue # <<>> /\ queue' = Tail(queue) /\ conn' = [conn EXCEPT ![b] = Head(queue)]
          /\ alive' = alive /\ opc' = opc /\ m' = m /\ pc[b] \notin HoldLabels \union {"leave"}
      BY <1>2, <2>1 DEF GetConnection, WaitTurn, Ready, HoldLabels
    <3>2. PICK l \in {"took", "tookLocked"} : pc' = [pc EXCEPT ![b] = l]
      BY <1>2, <2>1 DEF GetConnection, WaitTurn
    <3> QED BY <1>0, <1>2, <3>1, <3>2, OwnTake DEF HoldLabels
  <2>2. CASE ~Ready
    <3>1. /\ pc[b] \notin HoldLabels \union {"leave"}
          /\ conn' = conn /\ queue' = queue /\ alive' = alive /\ opc' = opc /\ m' = m
      BY <1>2, <2>2 DEF GetConnection, WaitTurn, HoldLabels
    <3>2. PICK l \in {"arrive", "leave", "asleep"} : pc' = [pc EXCEPT ![b] = l]
      BY <1>2, <2>2 DEF GetConnection, WaitTurn
    <3> QED BY <1>0, <3>1, <3>2, OwnStay DEF HoldLabels
  <2> QED BY <2>1, <2>2
<1>3. ASSUME NEW b \in Borrowers,
             \/ TakeIdleCount(b) \/ TakeIdleStamp(b) \/ WaitArrive(b) \/ WaitLeave(b) \/ LowWater(b)
             \/ WaitTimeout(b) \/ SpuriousWakeup(b) \/ ReleaseConnection(b)
      PROVE  OwnInv'
  <2>1. conn' = conn /\ queue' = queue /\ alive' = alive /\ opc' = opc /\ m' = m /\ pc[b] # "publish"
    BY <1>3 DEF TakeIdleCount, TakeIdleStamp, WaitArrive, WaitLeave, LowWater, WaitTimeout,
       SpuriousWakeup, ReleaseConnection
  <2>2. PICK l \in {"stamp", "stampLocked", "got", "leave", "locked", "out", "using", "woken", "discard",
                    "enqueue"} : pc' = [pc EXCEPT ![b] = l]
    BY <1>3 DEF TakeIdleCount, TakeIdleStamp, WaitArrive, WaitLeave, LowWater, WaitTimeout,
       SpuriousWakeup, ReleaseConnection
  <2>3. \/ l \in HoldLabels \union {"leave"} \/ pc[b] \notin HoldLabels \union {"leave"}
        \/ conn[b] = NoConn
    BY <1>0, <1>3, <2>2, OwnTypes DEF TakeIdleCount, TakeIdleStamp, WaitArrive, WaitLeave, LowWater,
       WaitTimeout, SpuriousWakeup, ReleaseConnection, HoldLabels
  <2> QED BY <1>0, <2>1, <2>2, <2>3, OwnStay
<1>4. ASSUME NEW t \in Threads, EnqueueCount(t) \/ CheckWaiters(t) PROVE OwnInv'
  <2>1. /\ conn' = conn /\ queue' = queue /\ alive' = alive /\ opc' = opc
        /\ m'.drained = m.drained /\ m'.healthy = m.healthy /\ pc[t] \notin HoldLabels \union {"leave"}
    BY <1>0, <1>4 DEF EnqueueCount, CheckWaiters, MaintainerLocals, HoldLabels
  <2>2. PICK l \in {"evict", "check", "notify", "given", "idle", "flag"} : pc' = [pc EXCEPT ![t] = l]
    BY <1>4 DEF EnqueueCount, CheckWaiters, AfterEnqueue
  <2> QED BY <2>1, <2>2, OwnStay DEF HoldLabels
<1>5. ASSUME NEW t \in Threads, opc # "closed", NotifyWaiters(t) PROVE OwnInv'
  <2>1. /\ conn' = conn /\ queue' = queue /\ alive' = alive /\ opc' = opc /\ m' = m
        /\ pc[t] \notin HoldLabels \union {"leave"} /\ AfterEnqueue(t) \notin HoldLabels
        /\ pc' = [u \in Threads |-> IF pc[u] = "asleep" THEN "woken"
                                    ELSE IF u = t THEN AfterEnqueue(t) ELSE pc[u]]
    BY <1>5 DEF NotifyWaiters, AfterEnqueue, HoldLabels
  <2> QED BY <1>5, <2>1, OwnWake
<1>6. ASSUME NEW t \in Threads, opc # "closed", EnqueueStep(t) \/ DiscardStep(t) PROVE OwnInv'
  <2>1. ASSUME DiscardCount(t) \/ DiscardErase(t) PROVE OwnInv'
    <3>1. /\ conn' = conn /\ queue' = queue /\ alive' = alive /\ opc' = opc /\ m' = m
          /\ pc[t] # "publish"
      BY <2>1 DEF DiscardCount, DiscardErase
    <3>2. PICK l \in {"erase", "delete"} : pc' = [pc EXCEPT ![t] = l]
      BY <2>1 DEF DiscardCount, DiscardErase
    <3> QED BY <3>1, <3>2, OwnStay DEF HoldLabels
  <2> QED BY <1>4, <1>5, <1>6, <2>1, OwnEnqueue, OwnPublish, OwnDelete DEF EnqueueStep, DiscardStep
<1>7. ASSUME NEW k \in Creators, CreateOne(k) \/ CreateFailed(k) \/ CreateRegister(k) PROVE OwnInv'
  <2>1. conn' = conn /\ queue' = queue /\ alive' = alive /\ opc' = opc /\ m' = m
    BY <1>7 DEF CreateOne, CreateFailed, CreateRegister
  <2>2. PICK l \in {"connect", "idle", "enqueue"} :
          /\ pc' = [pc EXCEPT ![k] = l] /\ pc[k] # "publish"
          /\ l \in HoldLabels \/ pc[k] \notin HoldLabels \union {"leave"}
    BY <1>7 DEF CreateOne, CreateFailed, CreateRegister, HoldLabels
  <2> QED BY <1>0, <2>1, <2>2, OwnStay
<1>8. CASE \/ MaintenanceWake \/ MaintenanceClear \/ ScanDrained \/ ScanFlag \/ LeakSnapshot \/ LeakRead
           \/ ReplenishRead \/ ReplenishReserve \/ ReplenishSubmit
  <2>1. /\ conn' = conn /\ queue' = queue /\ alive' = alive /\ opc' = opc
        /\ pc[Maintainer] \notin HoldLabels \union {"leave"}
    BY <1>8 DEF MaintenanceWake, MaintenanceClear, ScanDrained, ScanFlag, LeakSnapshot, LeakRead,
       ReplenishRead, ReplenishReserve, ReplenishSubmit, HoldLabels
  <2>2. m'.drained = m.drained /\ m'.healthy = m.healthy
    BY <1>0, <1>8 DEF MaintenanceWake, MaintenanceClear, ScanDrained, ScanFlag, LeakSnapshot, LeakRead,
       ReplenishRead, ReplenishReserve, ReplenishSubmit, MaintainerLocals
  <2>3. PICK l \in {"exited", "clear", "drain", "snapshot", "leaks", "replenish", "wait", "reserve",
                    "submit"} : pc' = [pc EXCEPT ![Maintainer] = l]
    BY <1>0, <1>8, OwnTypes DEF MaintenanceWake, MaintenanceClear, ScanDrained, ScanFlag, LeakSnapshot,
       LeakRead, ReplenishRead, ReplenishReserve, ReplenishSubmit
  <2> QED BY <1>0, <2>1, <2>2, <2>3, OwnStay DEF HoldLabels
<1>9. CASE ShutdownStop \/ ShutdownStep
  BY <1>9, OwnShutdown
<1>10. CASE opc # "closed" /\ MaintainerStep
  BY <1>0, <1>6, <1>8, <1>10, OwnScan DEF MaintainerStep
<1>11. ASSUME NEW b \in Borrowers, opc # "closed",
              \/ GetConnection(b) \/ ReleaseConnection(b) \/ BorrowerStep(b)
              \/ WaitTimeout(b) \/ SpuriousWakeup(b)
       PROVE  OwnInv'
  BY <1>0, <1>2, <1>3, <1>6, <1>11 DEF BorrowerStep, WaitStep
<1>12. ASSUME NEW k \in Creators, opc # "closed", CreatorStep(k) PROVE OwnInv'
  BY <1>0, <1>6, <1>7, <1>12, OwnCreate DEF CreatorStep
<1> QED
  BY <1>1, <1>9, <1>10, <1>11, <1>12 DEF Next

(* A set whose elements are all the same has one or none.                    *)
LEMMA AtMostOne ==
  ASSUME NEW S, \A x, y \in S : x = y
  PROVE  Cardinality(S) = IF S = {} THEN 0 ELSE 1
<1>1. CASE S = {}
  BY <1>1, FS_EmptySet
<1>2. CASE S # {}
  <2>1. PICK x : x \in S
    BY <1>2
  <2>2. S = {x}
    BY <2>1
  <2> QED BY <1>2, <2>2, FS_Singleton
<1> QED BY <1>1, <1>2

(* How often a connection occurs in a list without repetitions.              *)
LEMMA OccursOnce ==
  ASSUME NEW s, NoRepeat(s), NEW c
  PROVE  Occurrences(s, c) = IF c \in Listed(s) THEN 1 ELSE 0
<1>1. Cardinality({i \in DOMAIN s : s[i] = c}) = IF {i \in DOMAIN s : s[i] = c} = {} THEN 0 ELSE 1
  <2>1. \A i, j \in {k \in DOMAIN s : s[k] = c} : i = j
    BY DEF NoRepeat
  <2> QED BY <2>1, AtMostOne
<1>2. {i \in DOMAIN s : s[i] = c} = {} <=> c \notin Listed(s)
  BY DEF Listed
<1> QED BY <1>1, <1>2 DEF Occurrences

(* A connection is with one thread or with none.                             *)
LEMMA HeldOnce ==
  ASSUME PoolInv, OneHand(hands), NEW c \in Conn
  PROVE  Cardinality(Holding(c)) = IF c \in Held(hands) THEN 1 ELSE 0
<1>1. Holding(c) = {t \in Threads : hands[t] = c}
  BY ConnAssumption DEF Holding, hands
<1>2. \A t, u \in Holding(c) : t = u
  BY <1>1, ConnAssumption DEF OneHand
<1>3. Holding(c) = {} <=> c \notin Held(hands)
  BY <1>1, ConnAssumption DEF Held
<1> QED BY <1>2, <1>3, AtMostOne

(***************************************************************************)
(* A connection that exists is in the queue, with one thread or on one of  *)
(* the maintenance thread's lists, in exactly one of them and once, and    *)
(* nothing holds a deleted one (DBPool.cc:208-309, 339-403, 442-479).      *)
(***************************************************************************)
THEOREM OneOwnerHolds == Spec => []OneOwner
<1>1. PoolInv /\ OwnInv => OneOwner
  <2> SUFFICES ASSUME PoolInv, OwnInv, opc \in {"open", "wake", "join", "createPool"}, NEW c \in Conn
               PROVE  Cardinality(Holding(c)) + Occurrences(queue, c) + Occurrences(m.drained, c)
                        + Occurrences(m.healthy, c) = (IF c \in alive THEN 1 ELSE 0)
    BY DEF OneOwner
  <2>1. NotShared /\ NotLost
    BY DEF OwnInv
  <2>2. /\ Cardinality(Holding(c)) = IF c \in Held(hands) THEN 1 ELSE 0
        /\ Occurrences(queue, c) = IF c \in Listed(queue) THEN 1 ELSE 0
        /\ Occurrences(m.drained, c) = IF c \in Listed(m.drained) THEN 1 ELSE 0
        /\ Occurrences(m.healthy, c) = IF c \in Listed(m.healthy) THEN 1 ELSE 0
    BY <2>1, HeldOnce, OccursOnce DEF NotShared
  <2> QED BY <2>1, <2>2 DEF NotShared, NotLost, Disjoint
<1> QED BY <1>1, PoolInvInit, PoolInvNext, OwnInvInit, OwnInvNext, PTL DEF Spec

-----------------------------------------------------------------------------
(* The counters are exact.                                                   *)

(* The threads of T that are at a label of L.                                *)
Among(T, p, L) == {t \in T : p[t] \in L}

(* From p to q no thread but t moves.                                        *)
OnlyMoves(t, p, q) == \A u \in Threads : u # t => q[u] = p[u]

(* Threads between an enqueue or a dequeue and the count that goes with it,  *)
(* creators that are connecting, places reserved and not yet submitted, and  *)
(* connections the count includes.                                           *)
enqueued == Cardinality(Among(Threads, pc, {"publish", "count"}))
dequeued == Cardinality(Among(Threads, pc, {"took", "tookLocked", "drained"}))
connecting == Cardinality(Among(Creators, pc, {"connect"}))
reserved == IF pc[Maintainer] = "submit" THEN m.need ELSE 0
counted == Cardinality(alive \ Uncounted)

IdleBalance ==
  opc \in {"open", "wake", "join", "createPool"} => idle = Len(queue) - enqueued + dequeued

TotalBalance == opc # "closed" => total = counted + tasks + connecting + reserved

CountsInv == IdleBalance /\ TotalBalance

(* There are finitely many threads.                                          *)
LEMMA ThreadsFinite ==
  /\ IsFiniteSet(Threads)
  /\ \A S \in SUBSET Threads : IsFiniteSet(S) /\ Cardinality(S) \in Nat
<1>1. IsFiniteSet(Threads)
  BY ActorsAssumption, FS_Union, FS_Singleton DEF Threads
<1> QED BY <1>1, FS_Subset, FS_CardinalityType

(* One thread's step moves it into and out of a set of labels.               *)
LEMMA AmongStep ==
  ASSUME NEW T \in SUBSET Threads, NEW L, NEW p, NEW q, NEW t \in Threads, OnlyMoves(t, p, q)
  PROVE  /\ Cardinality(Among(T, p, L)) \in Nat
         /\ Cardinality(Among(T, q, L)) =
              Cardinality(Among(T, p, L)) + (IF t \in T /\ q[t] \in L THEN 1 ELSE 0)
                                          - (IF t \in T /\ p[t] \in L THEN 1 ELSE 0)
<1> DEFINE R == Among(T, p, L) \ {t}
<1>1. /\ Among(T, p, L) \in SUBSET Threads /\ R \in SUBSET Threads /\ t \notin R
      /\ Among(T, p, L) = IF t \in T /\ p[t] \in L THEN R \union {t} ELSE R
      /\ Among(T, q, L) = IF t \in T /\ q[t] \in L THEN R \union {t} ELSE R
  BY DEF Among, OnlyMoves
<1> HIDE DEF R
<1>2. /\ IsFiniteSet(R) /\ Cardinality(R) \in Nat /\ Cardinality(Among(T, p, L)) \in Nat
      /\ Cardinality(R \union {t}) = Cardinality(R) + 1
  BY <1>1, ThreadsFinite, FS_AddElement
<1>3. Cardinality(Among(T, p, L)) = Cardinality(R) + (IF t \in T /\ p[t] \in L THEN 1 ELSE 0)
  BY <1>1, <1>2
<1>4. Cardinality(Among(T, q, L)) = Cardinality(R) + (IF t \in T /\ q[t] \in L THEN 1 ELSE 0)
  BY <1>1, <1>2
<1> QED BY <1>2, <1>3, <1>4

(* What that means for the three groups of threads the counts depend on.     *)
GroupsMove(t) ==
  /\ enqueued \in Nat /\ dequeued \in Nat /\ connecting \in Nat
  /\ enqueued' = enqueued + (IF pc'[t] \in {"publish", "count"} THEN 1 ELSE 0)
                          - (IF pc[t] \in {"publish", "count"} THEN 1 ELSE 0)
  /\ dequeued' = dequeued + (IF pc'[t] \in {"took", "tookLocked", "drained"} THEN 1 ELSE 0)
                          - (IF pc[t] \in {"took", "tookLocked", "drained"} THEN 1 ELSE 0)
  /\ connecting' = connecting + (IF t \in Creators /\ pc'[t] = "connect" THEN 1 ELSE 0)
                              - (IF t \in Creators /\ pc[t] = "connect" THEN 1 ELSE 0)

(* A step of one thread changes the groups of threads by that thread alone. *)
LEMMA GroupsStep ==
  ASSUME PoolInv, NEW t \in Threads, OnlyMoves(t, pc, pc')
  PROVE  GroupsMove(t)
<1>1. pc \in [Threads -> Labels] /\ Creators \in SUBSET Threads /\ Threads \in SUBSET Threads
  BY DEF PoolInv, TypeOK, Threads
<1>2. PICK p : p = pc
  OBVIOUS
<1>3. PICK q : q = pc'
  OBVIOUS
<1>4. p[t] = pc[t] /\ q[t] = pc'[t] /\ OnlyMoves(t, p, q)
  BY <1>1, <1>2, <1>3 DEF OnlyMoves
<1>5. /\ enqueued = Cardinality(Among(Threads, p, {"publish", "count"}))
      /\ dequeued = Cardinality(Among(Threads, p, {"took", "tookLocked", "drained"}))
      /\ connecting = Cardinality(Among(Creators, p, {"connect"}))
  BY <1>2 DEF enqueued, dequeued, connecting
<1>6. /\ enqueued' = Cardinality(Among(Threads, q, {"publish", "count"}))
      /\ dequeued' = Cardinality(Among(Threads, q, {"took", "tookLocked", "drained"}))
      /\ connecting' = Cardinality(Among(Creators, q, {"connect"}))
  BY <1>3 DEF enqueued, dequeued, connecting, Among
<1>7. ASSUME NEW T \in SUBSET Threads, NEW L
      PROVE  /\ Cardinality(Among(T, p, L)) \in Nat
             /\ Cardinality(Among(T, q, L)) =
                  Cardinality(Among(T, p, L)) + (IF t \in T /\ q[t] \in L THEN 1 ELSE 0)
                                              - (IF t \in T /\ p[t] \in L THEN 1 ELSE 0)
  BY <1>4, AmongStep
<1>8. /\ enqueued \in Nat
      /\ enqueued' = enqueued + (IF pc'[t] \in {"publish", "count"} THEN 1 ELSE 0)
                              - (IF pc[t] \in {"publish", "count"} THEN 1 ELSE 0)
  BY <1>1, <1>4, <1>5, <1>6, <1>7
<1>9. /\ dequeued \in Nat
      /\ dequeued' = dequeued + (IF pc'[t] \in {"took", "tookLocked", "drained"} THEN 1 ELSE 0)
                              - (IF pc[t] \in {"took", "tookLocked", "drained"} THEN 1 ELSE 0)
  BY <1>1, <1>4, <1>5, <1>6, <1>7
<1>10. /\ connecting \in Nat
       /\ connecting' = connecting + (IF t \in Creators /\ pc'[t] = "connect" THEN 1 ELSE 0)
                                   - (IF t \in Creators /\ pc[t] = "connect" THEN 1 ELSE 0)
  <2>1. \A x : x \in {"connect"} <=> x = "connect"
    OBVIOUS
  <2>2. /\ Cardinality(Among(Creators, p, {"connect"})) \in Nat
        /\ Cardinality(Among(Creators, q, {"connect"})) =
             Cardinality(Among(Creators, p, {"connect"}))
               + (IF t \in Creators /\ q[t] \in {"connect"} THEN 1 ELSE 0)
               - (IF t \in Creators /\ p[t] \in {"connect"} THEN 1 ELSE 0)
    BY <1>1, <1>7
  <2> QED BY <1>4, <1>5, <1>6, <2>1, <2>2
<1> QED BY <1>8, <1>9, <1>10 DEF GroupsMove

(* The step of a thread that is not discarding changes no connection's       *)
(* standing, nor does one in the middle of a discard.                        *)
LEMMA UncountedStay ==
  ASSUME PoolInv, NEW t \in Threads, NEW l, pc' = [pc EXCEPT ![t] = l], alive' = alive,
         \A u \in Threads : u # t => conn'[u] = conn[u],
         \/ pc[t] \notin {"erase", "delete"} /\ l \notin {"erase", "delete"}
         \/ pc[t] \in {"erase", "delete"} /\ l \in {"erase", "delete"} /\ conn'[t] = conn[t]
  PROVE  counted' = counted /\ counted \in Nat
<1>1. Uncounted' = Uncounted
  BY DEF Uncounted, PoolInv, TypeOK
<1>2. counted \in Nat
  BY ConnAssumption, FS_Subset, FS_CardinalityType DEF counted, PoolInv, TypeOK
<1> QED BY <1>1, <1>2 DEF counted

(* The labels the counts depend on.                                          *)
CountLabels == {"publish", "count", "took", "tookLocked", "drained", "connect", "submit", "erase", "delete"}

(* The counts are integers.                                                  *)
LEMMA CountTypes ==
  ASSUME PoolInv
  PROVE  /\ total \in Int /\ idle \in Int /\ tasks \in Int /\ m.need \in Int
         /\ Len(queue) \in Nat /\ queue \in Seq(Conn) /\ counted \in Nat
         /\ pc \in [Threads -> Labels] /\ conn \in [Threads -> Conn \union {NoConn}]
         /\ alive \subseteq Conn /\ IsFiniteSet(alive) /\ m \in MaintainerLocals
<1>1. IsFiniteSet(alive)
  BY ConnAssumption, FS_Subset DEF PoolInv, TypeOK
<1>2. counted \in Nat
  BY <1>1, FS_Subset, FS_CardinalityType DEF counted
<1> QED BY <1>1, <1>2, LocalsFields DEF PoolInv, TypeOK

(* A step that concerns neither count.                                       *)
LEMMA CountsStay ==
  ASSUME PoolInv, CountsInv, NEW t \in Threads, NEW l, pc' = [pc EXCEPT ![t] = l],
         pc[t] \notin CountLabels, l \notin CountLabels,
         total' = total, idle' = idle, tasks' = tasks, Len(queue') = Len(queue), alive' = alive,
         opc' = opc, t # Maintainer => m'.need = m.need,
         \A u \in Threads : u # t => conn'[u] = conn[u]
  PROVE  CountsInv'
<1>1. counted' = counted
  BY UncountedStay DEF CountLabels
<1>2. enqueued' = enqueued /\ dequeued' = dequeued /\ connecting' = connecting
  <2>1. OnlyMoves(t, pc, pc') /\ pc'[t] \notin CountLabels
    BY CountTypes DEF OnlyMoves
  <2>2. GroupsMove(t)
    BY <2>1, GroupsStep
  <2> QED BY <2>1, <2>2 DEF CountLabels, GroupsMove
<1>3. reserved' = reserved
  BY CountTypes DEF reserved, CountLabels, Threads
<1> QED BY <1>1, <1>2, <1>3 DEF CountsInv, IdleBalance, TotalBalance

(* Nor does waking sleepers.                                                 *)
LEMMA CountsWake ==
  ASSUME PoolInv, CountsInv, NEW t, NEW l, l \notin CountLabels, t \in Threads => pc[t] \notin CountLabels,
         pc' = [u \in Threads |-> IF pc[u] = "asleep" THEN "woken" ELSE IF u = t THEN l ELSE pc[u]],
         total' = total, idle' = idle, tasks' = tasks, queue' = queue, alive' = alive, conn' = conn,
         m' = m, opc # "closed",
         opc' \in {"open", "wake", "join", "createPool"} => opc \in {"open", "wake", "join", "createPool"}
  PROVE  CountsInv'
<1>1. ASSUME NEW u \in Threads, NEW x \in CountLabels PROVE pc'[u] = x <=> pc[u] = x
  BY <1>1 DEF CountLabels
<1>2. Maintainer \in Threads /\ Creators \subseteq Threads
  BY DEF Threads
<1>3. Uncounted' = Uncounted
  BY <1>1 DEF Uncounted, CountLabels
<1>4. /\ Among(Threads, pc, {"publish", "count"})' = Among(Threads, pc, {"publish", "count"})
      /\ Among(Threads, pc, {"took", "tookLocked", "drained"})' = Among(Threads, pc, {"took", "tookLocked", "drained"})
      /\ Among(Creators, pc, {"connect"})' = Among(Creators, pc, {"connect"})
  BY <1>1, <1>2 DEF Among, CountLabels
<1>5. reserved' = reserved
  BY <1>1, <1>2 DEF reserved, CountLabels
<1>6. counted' = counted /\ enqueued' = enqueued /\ dequeued' = dequeued /\ connecting' = connecting
  BY <1>3, <1>4 DEF counted, enqueued, dequeued, connecting
<1> QED BY <1>5, <1>6 DEF CountsInv, IdleBalance, TotalBalance

(* idleCount_ stays in balance when it changes by what the queue gained less *)
(* what its threads gained.                                                  *)
IdleMove(i, q, e, d) ==
  /\ idle' = idle + i /\ Len(queue') = Len(queue) + q
  /\ enqueued' = enqueued + e /\ dequeued' = dequeued + d /\ opc' = opc

(* Such a change keeps the balance of idleCount_.                            *)
LEMMA IdleMoves ==
  ASSUME IdleBalance, idle \in Int, Len(queue) \in Int, enqueued \in Int, dequeued \in Int,
         NEW i \in Int, NEW q \in Int, NEW e \in Int, NEW d \in Int, IdleMove(i, q, e, d), i = (q - e) + d
  PROVE  IdleBalance'
  BY DEF IdleMove, IdleBalance

(* A dequeue, and the count that goes with it.                               *)
LEMMA CountsTake ==
  ASSUME PoolInv, CountsInv, NEW t \in Threads, NEW l, pc' = [pc EXCEPT ![t] = l],
         total' = total, tasks' = tasks, alive' = alive, opc' = opc, m'.need = m.need,
         \A u \in Threads : u # t => conn'[u] = conn[u],
         \/ /\ pc[t] \notin CountLabels /\ l \in {"took", "tookLocked", "drained"}
            /\ queue # <<>> /\ queue' = Tail(queue) /\ idle' = idle
         \/ /\ pc[t] \in {"took", "tookLocked", "drained"} /\ l \notin CountLabels
            /\ queue' = queue /\ idle' = idle - 1
  PROVE  CountsInv'
<1>0. idle \in Int /\ Len(queue) \in Int /\ IdleBalance /\ TotalBalance
  BY CountTypes DEF CountsInv
<1>1. counted' = counted
  BY UncountedStay DEF CountLabels
<1>2. /\ enqueued \in Nat /\ dequeued \in Nat /\ enqueued' = enqueued /\ connecting' = connecting
      /\ dequeued' = dequeued + (IF l \in {"took", "tookLocked", "drained"} THEN 1 ELSE 0)
                              - (IF pc[t] \in {"took", "tookLocked", "drained"} THEN 1 ELSE 0)
  <2>1. OnlyMoves(t, pc, pc') /\ pc'[t] = l
    BY CountTypes DEF OnlyMoves
  <2>2. GroupsMove(t)
    BY <2>1, GroupsStep
  <2> QED BY <2>1, <2>2 DEF CountLabels, GroupsMove
<1>3. reserved' = reserved
  BY CountTypes DEF reserved, CountLabels, Threads
<1>4. queue # <<>> => Len(Tail(queue)) = Len(queue) - 1
  BY CountTypes
<1>5. ASSUME pc[t] \notin CountLabels PROVE IdleBalance'
  <2>1. /\ l \in {"took", "tookLocked", "drained"} /\ queue # <<>> /\ queue' = Tail(queue) /\ idle' = idle
        /\ pc[t] \notin {"took", "tookLocked", "drained"}
    BY <1>5 DEF CountLabels
  <2>2. dequeued' = dequeued + 1
    BY <1>2, <2>1
  <2>3. Len(queue') = Len(queue) + (-1)
    BY <1>0, <1>4, <2>1
  <2>4. idle' = idle + 0 /\ enqueued' = enqueued + 0
    BY <1>0, <1>2, <2>1
  <2>5. IdleMove(0, -1, 0, 1)
    BY <2>2, <2>3, <2>4 DEF IdleMove
  <2> QED BY <1>0, <1>2, <2>5, IdleMoves
<1>6. ASSUME pc[t] \in {"took", "tookLocked", "drained"} PROVE IdleBalance'
  <2>1. l \notin CountLabels /\ queue' = queue /\ idle' = idle - 1
    BY <1>6 DEF CountLabels
  <2>2. dequeued' = dequeued + (-1)
    BY <1>2, <1>6, <2>1 DEF CountLabels
  <2>3. IdleMove(-1, 0, 0, -1)
    BY <1>0, <1>2, <2>1, <2>2 DEF IdleMove
  <2> QED BY <1>0, <1>2, <2>3, IdleMoves
<1>7. IdleBalance'
  BY <1>5, <1>6 DEF CountLabels
<1>8. TotalBalance'
  BY <1>0, <1>1, <1>2, <1>3 DEF TotalBalance
<1> QED BY <1>7, <1>8 DEF CountsInv

(* An enqueue, and the count that goes with it (DBPool.cc:267-289).          *)
LEMMA CountsEnqueue ==
  ASSUME PoolInv, CountsInv, NEW t \in Threads,
         EnqueueClaim(t) \/ EnqueuePublish(t) \/ EnqueueCount(t)
  PROVE  CountsInv'
<1> USE DEF At, counts, conns, idleQueue, control, locals
<1>0. idle \in Int /\ Len(queue) \in Int /\ IdleBalance /\ TotalBalance
  BY CountTypes DEF CountsInv
<1>1. PICK l \in {"publish", "count", "evict", "check"} : pc' = [pc EXCEPT ![t] = l]
  BY DEF EnqueueClaim, EnqueuePublish, EnqueueCount
<1>2. /\ total' = total /\ tasks' = tasks /\ alive' = alive /\ opc' = opc
      /\ \A u \in Threads : u # t => conn'[u] = conn[u]
      /\ pc[t] \in {"enqueue", "publish", "count"}
  BY CountTypes DEF EnqueueClaim, EnqueuePublish, EnqueueCount
<1>3. m'.need = m.need
  BY CountTypes DEF EnqueueClaim, EnqueuePublish, EnqueueCount, MaintainerLocals
<1>4. counted' = counted
  BY <1>1, <1>2, UncountedStay
<1>5. /\ enqueued \in Nat /\ dequeued \in Nat /\ dequeued' = dequeued /\ connecting' = connecting
      /\ enqueued' = enqueued + (IF l \in {"publish", "count"} THEN 1 ELSE 0)
                              - (IF pc[t] \in {"publish", "count"} THEN 1 ELSE 0)
  <2>1. OnlyMoves(t, pc, pc') /\ pc'[t] = l
    BY <1>1, CountTypes DEF OnlyMoves
  <2>2. GroupsMove(t)
    BY <2>1, GroupsStep
  <2> QED BY <1>1, <1>2, <2>1, <2>2 DEF GroupsMove
<1>6. reserved' = reserved
  BY <1>1, <1>2, <1>3, CountTypes DEF reserved
<1>7. ASSUME EnqueueClaim(t) PROVE IdleBalance'
  <2>1. conn[t] \in Conn
    BY <1>7 DEF EnqueueClaim, PoolInv, Holds, HoldLabels
  <2>2. Len(queue') = Len(queue) + 1 /\ idle' = idle
    BY <1>7, <2>1, CountTypes DEF EnqueueClaim
  <2>3. pc'[t] = "publish" /\ pc'[t] = l /\ pc[t] = "enqueue"
    BY <1>1, <1>7, CountTypes DEF EnqueueClaim
  <2>4. enqueued' = enqueued + 1
    BY <1>5, <2>3
  <2>5. IdleMove(0, 1, 1, 0)
    BY <1>0, <1>2, <1>5, <2>2, <2>4 DEF IdleMove
  <2> QED BY <1>0, <1>5, <2>5, IdleMoves
<1>8. ASSUME EnqueuePublish(t) PROVE IdleBalance'
  <2>1. pc'[t] = "count" /\ pc'[t] = l /\ pc[t] = "publish" /\ queue' = queue /\ idle' = idle
    BY <1>1, <1>8, CountTypes DEF EnqueuePublish
  <2>2. enqueued' = enqueued + 0
    BY <1>5, <2>1
  <2>3. IdleMove(0, 0, 0, 0)
    BY <1>0, <1>2, <1>5, <2>1, <2>2 DEF IdleMove
  <2> QED BY <1>0, <1>5, <2>3, IdleMoves
<1>9. ASSUME EnqueueCount(t) PROVE IdleBalance'
  <2>1. /\ pc'[t] \in {"evict", "check"} /\ pc'[t] = l /\ pc[t] = "count"
        /\ queue' = queue /\ idle' = idle + 1
    BY <1>1, <1>9, CountTypes DEF EnqueueCount
  <2>2. enqueued' = enqueued + (-1)
    BY <1>5, <2>1
  <2>3. IdleMove(1, 0, -1, 0)
    BY <1>0, <1>2, <1>5, <2>1, <2>2 DEF IdleMove
  <2> QED BY <1>0, <1>5, <2>3, IdleMoves
<1>10. TotalBalance'
  BY <1>0, <1>2, <1>4, <1>5, <1>6 DEF TotalBalance
<1> QED BY <1>7, <1>8, <1>9, <1>10 DEF CountsInv

(* totalConnCount_ stays in balance when it changes by as much as the        *)
(* connections, tasks, connecting creators and reserved places together.     *)
TotalMove(n, c, k, g, r) ==
  /\ total' = total + n /\ counted' = counted + c /\ tasks' = tasks + k
  /\ connecting' = connecting + g /\ reserved' = reserved + r /\ opc' = opc

(* Such a change keeps the balance of totalConnCount_.                       *)
LEMMA TotalMoves ==
  ASSUME TotalBalance, total \in Int, counted \in Int, tasks \in Int, connecting \in Int, reserved \in Int,
         NEW n \in Int, NEW c \in Int, NEW k \in Int, NEW g \in Int, NEW r \in Int,
         TotalMove(n, c, k, g, r), n = ((c + k) + g) + r
  PROVE  TotalBalance'
  BY DEF TotalMove, TotalBalance

(* The summands are integers.                                                *)
LEMMA BalanceTypes ==
  ASSUME PoolInv, NEW t \in Threads, GroupsMove(t)
  PROVE  /\ total \in Int /\ counted \in Int /\ tasks \in Int /\ connecting \in Int /\ reserved \in Int
         /\ idle \in Int /\ Len(queue) \in Int /\ enqueued \in Int /\ dequeued \in Int
  BY CountTypes DEF GroupsMove, reserved

(* Discarding: the connection leaves the count, then the world               *)
(* (DBPool.cc:303-309).                                                      *)
LEMMA CountsDiscard ==
  ASSUME PoolInv, OwnInv, CountsInv, opc # "closed", NEW t \in Threads, DiscardStep(t)
  PROVE  CountsInv'
<1> USE DEF At, counts, conns, idleQueue, control, locals
<1>1. PICK l \in {"erase", "delete", "given", "ping", "evict"} : pc' = [pc EXCEPT ![t] = l]
  BY CountTypes, LocalsFields DEF DiscardStep, DiscardCount, DiscardErase, DiscardDelete
<1>2. /\ OnlyMoves(t, pc, pc') /\ pc'[t] = l /\ pc[t] \in {"discard", "erase", "delete"}
      /\ idle' = idle /\ queue' = queue /\ tasks' = tasks /\ opc' = opc /\ m' = m
  BY <1>1, CountTypes DEF OnlyMoves, DiscardStep, DiscardCount, DiscardErase, DiscardDelete
<1>3. GroupsMove(t)
  BY <1>2, GroupsStep
<1>3a. /\ total \in Int /\ counted \in Int /\ tasks \in Int /\ connecting \in Int /\ reserved \in Int
      /\ TotalBalance
  BY <1>2, <1>3, BalanceTypes DEF CountsInv
<1>4. enqueued' = enqueued /\ dequeued' = dequeued /\ connecting' = connecting
  BY <1>2, <1>3 DEF GroupsMove
<1>5. reserved' = reserved
  BY <1>1, <1>2, CountTypes DEF reserved, Threads
<1>6. IdleBalance'
  BY <1>2, <1>4 DEF CountsInv, IdleBalance
<1>7. /\ NotShared /\ conn[t] \in Conn /\ hands[t] = conn[t] /\ conn[t] \in alive
      /\ \A u \in Threads : conn[u] = conn[t] /\ pc[u] # "publish" => u = t
  <2>1. NotShared /\ conn[t] \in Conn /\ hands[t] = conn[t]
    BY <1>2 DEF OwnInv, PoolInv, Holds, HoldLabels, hands
  <2>2. conn[t] \in Held(hands)
    BY <2>1, ConnAssumption DEF Held
  <2>3. \A u \in Threads : conn[u] = conn[t] /\ pc[u] # "publish" => u = t
    BY <2>1, ConnAssumption DEF NotShared, OneHand, hands
  <2> QED BY <2>1, <2>2, <2>3 DEF NotShared
<1>8. TotalBalance'
  <2>1. CASE DiscardCount(t)
    <3>1. alive' = alive /\ conn' = conn /\ pc' = [pc EXCEPT ![t] = "erase"] /\ total' = total - 1
          /\ pc[t] = "discard"
      BY <2>1 DEF DiscardCount
    <3>2. Uncounted' = Uncounted \union {conn[t]} /\ conn[t] \notin Uncounted
      BY <1>7, <3>1, CountTypes DEF Uncounted
    <3>3. (alive \ Uncounted)' = (alive \ Uncounted) \ {conn[t]} /\ conn[t] \in alive \ Uncounted
      BY <1>7, <3>1, <3>2
    <3>4. counted' = counted - 1
      <4>1. IsFiniteSet(alive \ Uncounted)
        BY CountTypes, FS_Subset
      <4>2. Cardinality((alive \ Uncounted) \ {conn[t]}) = Cardinality(alive \ Uncounted) - 1
        BY <3>3, <4>1, FS_RemoveElement
      <4> QED BY <3>3, <4>2 DEF counted
    <3>5. TotalMove(-1, -1, 0, 0, 0)
      BY <1>2, <1>4, <1>5, <1>3a, <3>1, <3>4 DEF TotalMove
    <3> QED BY <1>3a, <3>5, TotalMoves
  <2>2. CASE DiscardErase(t)
    <3>1. /\ alive' = alive /\ conn' = conn /\ pc' = [pc EXCEPT ![t] = "delete"] /\ total' = total
          /\ pc[t] = "erase"
      BY <2>2 DEF DiscardErase
    <3>2. counted' = counted
      BY <3>1, UncountedStay
    <3> QED BY <1>2, <1>4, <1>5, <3>1, <3>2 DEF CountsInv, TotalBalance
  <2>3. CASE DiscardDelete(t)
    <3>1. /\ alive' = alive \ {conn[t]} /\ conn' = [conn EXCEPT ![t] = NoConn] /\ total' = total
          /\ pc[t] = "delete" /\ l \notin {"erase", "delete"}
      BY <1>2, <2>3, CountTypes, LocalsFields DEF DiscardDelete
    <3>2. (alive \ Uncounted)' = alive \ Uncounted
      BY <1>1, <1>7, <3>1, CountTypes, ConnAssumption DEF Uncounted
    <3>3. counted' = counted
      BY <3>2 DEF counted
    <3> QED BY <1>2, <1>4, <1>5, <3>1, <3>3 DEF CountsInv, TotalBalance
  <2> QED BY <2>1, <2>2, <2>3 DEF DiscardStep
<1> QED BY <1>6, <1>8 DEF CountsInv

(* A task becomes a connecting creator, and that one a connection or, if it  *)
(* cannot connect, nothing (DBPool.cc:467-503).                              *)
LEMMA CountsCreate ==
  ASSUME PoolInv, OwnInv, CountsInv, opc # "closed", NEW t \in Creators,
         CreateOne(t) \/ CreateFailed(t) \/ CreateConnected(t)
  PROVE  CountsInv'
<1> USE DEF At, counts, conns, idleQueue, control, locals
<1>1. PICK l \in {"connect", "idle", "register"} : pc' = [pc EXCEPT ![t] = l]
  BY DEF CreateOne, CreateFailed, CreateConnected
<1>2. /\ OnlyMoves(t, pc, pc') /\ pc'[t] = l /\ pc[t] \in {"idle", "connect"} /\ t \in Threads
      /\ idle' = idle /\ queue' = queue /\ opc' = opc /\ m' = m /\ t # Maintainer
  BY <1>1, CountTypes, ActorsAssumption DEF OnlyMoves, Threads, CreateOne, CreateFailed, CreateConnected
<1>3. GroupsMove(t)
  BY <1>2, GroupsStep
<1>3a. /\ total \in Int /\ counted \in Int /\ tasks \in Int /\ connecting \in Int /\ reserved \in Int
      /\ TotalBalance
  BY <1>2, <1>3, BalanceTypes DEF CountsInv
<1>4. enqueued' = enqueued /\ dequeued' = dequeued
  BY <1>2, <1>3 DEF GroupsMove
<1>5. reserved' = reserved
  BY <1>1, <1>2, CountTypes DEF reserved, Threads
<1>6. IdleBalance'
  BY <1>2, <1>4 DEF CountsInv, IdleBalance
<1>7. TotalBalance'
  <2>1. CASE CreateOne(t)
    <3>1. /\ alive' = alive /\ conn' = conn /\ total' = total /\ tasks' = tasks - 1
          /\ pc[t] = "idle" /\ pc'[t] = "connect"
      BY <1>2, <2>1, CountTypes DEF CreateOne
    <3>2. counted' = counted
      BY <1>1, <1>2, <3>1, UncountedStay
    <3>3. connecting' = connecting + 1
      BY <1>3, <3>1 DEF GroupsMove
    <3>4. TotalMove(0, 0, -1, 1, 0)
      BY <1>2, <1>5, <1>3a, <3>1, <3>2, <3>3 DEF TotalMove
    <3> QED BY <1>3a, <3>4, TotalMoves
  <2>2. CASE CreateFailed(t)
    <3>1. /\ alive' = alive /\ conn' = conn /\ total' = total - 1 /\ tasks' = tasks
          /\ pc[t] = "connect" /\ pc'[t] = "idle"
      BY <1>2, <2>2, CountTypes DEF CreateFailed
    <3>2. counted' = counted
      BY <1>1, <1>2, <3>1, UncountedStay
    <3>3. connecting' = connecting - 1
      BY <1>3, <3>1 DEF GroupsMove
    <3>4. TotalMove(-1, 0, 0, -1, 0)
      BY <1>2, <1>5, <1>3a, <3>1, <3>2, <3>3 DEF TotalMove
    <3> QED BY <1>3a, <3>4, TotalMoves
  <2>3. CASE CreateConnected(t)
    <3>1. PICK c \in Conn \ alive : alive' = alive \union {c} /\ conn' = [conn EXCEPT ![t] = c]
      BY <2>3 DEF CreateConnected
    <3>2. /\ total' = total /\ tasks' = tasks /\ pc[t] = "connect" /\ pc'[t] = "register"
      BY <1>2, <2>3, CountTypes DEF CreateConnected
    <3>3. \A u \in Threads : pc[u] \in {"erase", "delete"} => conn[u] # c
      <4>1. ASSUME NEW u \in Threads, pc[u] \in {"erase", "delete"}, conn[u] = c PROVE FALSE
        <5>1. hands[u] = c /\ hands[u] # NoConn
          BY <4>1, ConnAssumption DEF hands
        <5>2. c \in Held(hands)
          BY <5>1 DEF Held
        <5> QED BY <3>1, <5>2 DEF OwnInv, NotShared
      <4> QED BY <4>1
    <3>4. (alive \ Uncounted)' = (alive \ Uncounted) \union {c} /\ c \notin alive \ Uncounted
      BY <1>2, <3>1, <3>2, <3>3, CountTypes DEF Uncounted, OnlyMoves
    <3>5. counted' = counted + 1
      BY <3>4, CountTypes, FS_Subset, FS_AddElement DEF counted
    <3>6. connecting' = connecting - 1
      BY <1>3, <3>2 DEF GroupsMove
    <3>7. TotalMove(0, 1, 0, -1, 0)
      BY <1>2, <1>5, <1>3a, <3>2, <3>5, <3>6 DEF TotalMove
    <3> QED BY <1>3a, <3>7, TotalMoves
  <2> QED BY <2>1, <2>2, <2>3
<1> QED BY <1>6, <1>7 DEF CountsInv

(* Places are reserved all at once and handed to the tasks one by one        *)
(* (DBPool.cc:425-440).                                                      *)
LEMMA CountsReserve ==
  ASSUME PoolInv, CountsInv, ReplenishReserve \/ ReplenishSubmit
  PROVE  CountsInv'
<1> USE DEF At, counts, conns, idleQueue, control, locals
<1> DEFINE t == Maintainer
<1>1. PICK l \in {"submit", "wait"} : pc' = [pc EXCEPT ![t] = l]
  BY DEF ReplenishReserve, ReplenishSubmit
<1>2. /\ OnlyMoves(t, pc, pc') /\ pc'[t] = l /\ pc[t] \in {"reserve", "submit"} /\ t \in Threads
      /\ idle' = idle /\ queue' = queue /\ opc' = opc /\ alive' = alive /\ conn' = conn
  BY <1>1, CountTypes DEF OnlyMoves, Threads, ReplenishReserve, ReplenishSubmit
<1>3. GroupsMove(t)
  BY <1>2, GroupsStep
<1>4. /\ total \in Int /\ counted \in Int /\ tasks \in Int /\ connecting \in Int /\ reserved \in Int
      /\ TotalBalance
  BY <1>2, <1>3, BalanceTypes DEF CountsInv
<1>5. enqueued' = enqueued /\ dequeued' = dequeued /\ connecting' = connecting
  BY <1>2, <1>3 DEF GroupsMove
<1>6. counted' = counted
  BY <1>1, <1>2, UncountedStay
<1>7. IdleBalance'
  BY <1>2, <1>5 DEF CountsInv, IdleBalance
<1>8. CASE ReplenishReserve
  <2>1. /\ total' = total + m.need /\ tasks' = tasks /\ pc[t] = "reserve" /\ pc'[t] = "submit" /\ m' = m
    BY <1>8, CountTypes, <1>2 DEF ReplenishReserve
  <2>2. reserved = 0 /\ reserved' = m.need
    BY <2>1 DEF reserved
  <2>3. PICK n \in Int : n = m.need
    BY CountTypes
  <2>4. reserved' = reserved + n /\ total' = total + n
    BY <2>1, <2>2, <2>3
  <2>5. TotalMove(n, 0, 0, 0, n)
    BY <1>2, <1>4, <1>5, <1>6, <2>1, <2>4 DEF TotalMove
  <2> QED BY <1>4, <1>7, <2>5, TotalMoves DEF CountsInv
<1>9. CASE ReplenishSubmit
  <2>1. /\ total' = total /\ tasks' = tasks + 1 /\ pc[t] = "submit" /\ m'.need = m.need - 1
        /\ pc'[t] = (IF m.need = 1 THEN "wait" ELSE "submit")
    BY <1>9, CountTypes, <1>2 DEF ReplenishSubmit, MaintainerLocals
  <2>2. reserved = m.need /\ reserved' = m.need - 1
    BY <2>1, CountTypes DEF reserved
  <2>3. TotalMove(0, 0, 1, 0, -1)
    BY <1>2, <1>4, <1>5, <1>6, <2>1, <2>2 DEF TotalMove
  <2> QED BY <1>4, <1>7, <2>3, TotalMoves DEF CountsInv
<1> QED BY <1>8, <1>9

(* Nothing is counted any more once the queue is being drained.              *)
LEMMA CountsShutdown ==
  ASSUME PoolInv, CountsInv, ShutdownStop \/ ShutdownStep
  PROVE  CountsInv'
<1> USE DEF counts, conns, idleQueue, locals
<1>1. CASE ShutdownWake
  <2>1. PICK t : t \notin Threads
    <3>1. {u \in Threads : u \notin u} \notin Threads
      OBVIOUS
    <3> QED BY <3>1
  <2>2. pc' = [u \in Threads |-> IF pc[u] = "asleep" THEN "woken" ELSE IF u = t THEN "out" ELSE pc[u]]
    BY <1>1, <2>1 DEF ShutdownWake
  <2>3. /\ total' = total /\ idle' = idle /\ tasks' = tasks /\ queue' = queue /\ alive' = alive
        /\ conn' = conn /\ m' = m /\ opc = "wake"
    BY <1>1 DEF ShutdownWake
  <2> QED BY <2>1, <2>2, <2>3, CountsWake DEF CountLabels
<1>2. CASE ~ShutdownWake
  <2>1. /\ pc' = pc /\ conn' = conn /\ m' = m /\ total' = total /\ idle' = idle /\ tasks' = tasks
        /\ opc # "closed"
    BY <1>2 DEF ShutdownStop, ShutdownStep, ShutdownJoin, ShutdownCreatePool, ShutdownDrain, ShutdownDelete
  <2>2. opc' # "closed" => alive' = alive
    BY <1>2 DEF ShutdownStop, ShutdownStep, ShutdownJoin, ShutdownCreatePool, ShutdownDrain, ShutdownDelete
  <2>3. opc' \in {"open", "wake", "join", "createPool"} =>
          opc \in {"open", "wake", "join", "createPool"} /\ queue' = queue
    BY <1>2 DEF ShutdownStop, ShutdownStep, ShutdownJoin, ShutdownCreatePool, ShutdownDrain, ShutdownDelete
  <2>4. enqueued' = enqueued /\ dequeued' = dequeued /\ connecting' = connecting /\ reserved' = reserved
    BY <2>1 DEF enqueued, dequeued, connecting, reserved, Among
  <2>5. opc' # "closed" => counted' = counted
    BY <2>1, <2>2 DEF counted, Uncounted
  <2>6. IdleBalance'
    BY <2>1, <2>3, <2>4 DEF CountsInv, IdleBalance
  <2>7. TotalBalance'
    BY <2>1, <2>4, <2>5 DEF CountsInv, TotalBalance
  <2> QED BY <2>6, <2>7 DEF CountsInv
<1> QED BY <1>1, <1>2

(* init() counts what it creates.                                            *)
LEMMA CountsInvInit == Init => CountsInv
<1> SUFFICES ASSUME Init PROVE CountsInv
  OBVIOUS
<1>1. pc = [t \in Threads |-> IF t \in Borrowers THEN "out" ELSE IF t \in Creators THEN "idle" ELSE "wait"]
  BY DEF Init
<1>2. /\ Among(Threads, pc, {"publish", "count"}) = {} /\ Among(Creators, pc, {"connect"}) = {}
      /\ Among(Threads, pc, {"took", "tookLocked", "drained"}) = {}
  BY <1>1 DEF Among, Threads
<1>3. enqueued = 0 /\ dequeued = 0 /\ connecting = 0
  BY <1>2, FS_EmptySet DEF enqueued, dequeued, connecting
<1>4. Uncounted = {} /\ reserved = 0
  BY <1>1 DEF Uncounted, reserved, Threads
<1>5. /\ MinIdle \in Nat /\ total = MinIdle /\ idle = MinIdle /\ tasks = 0 /\ Len(queue) = MinIdle
      /\ queue \in [1..MinIdle -> Conn] /\ alive = {queue[i] : i \in 1..MinIdle}
      /\ \A i, j \in 1..MinIdle : queue[i] = queue[j] => i = j
  BY SizesAssumption DEF Init
<1>6. Cardinality(alive) = MinIdle
  <2>1. queue \in Bijection(1..MinIdle, alive)
    BY <1>5 DEF Bijection, Injection, Surjection, IsInjective
  <2>2. IsFiniteSet(1..MinIdle) /\ Cardinality(1..MinIdle) = MinIdle
    BY <1>5, FS_Interval
  <2> QED BY <2>1, <2>2, FS_Bijection DEF ExistsBijection
<1>7. counted = MinIdle
  BY <1>4, <1>6 DEF counted
<1> QED BY <1>3, <1>4, <1>5, <1>7 DEF CountsInv, IdleBalance, TotalBalance

(* Every step keeps both counts in balance.                                  *)
LEMMA CountsInvNext == PoolInv /\ OwnInv /\ CountsInv /\ [Next]_vars => CountsInv'
<1> SUFFICES ASSUME PoolInv, OwnInv, CountsInv, [Next]_vars PROVE CountsInv'
  OBVIOUS
<1> USE DEF At, counts, locals, idleQueue, control, conns
<1>0. /\ Maintainer \in Threads /\ m \in MaintainerLocals
      /\ \A b \in Borrowers : b \in Threads /\ b # Maintainer
      /\ \A k \in Creators : k \in Threads /\ k # Maintainer
  BY ActorsAssumption, CountTypes DEF Threads
<1>1. CASE UNCHANGED vars
  BY <1>1 DEF vars, CountsInv, IdleBalance, TotalBalance, enqueued, dequeued, connecting, reserved,
     counted, Uncounted, Among
<1>2. ASSUME NEW b \in Borrowers, GetConnection(b) \/ WaitTurn(b) PROVE CountsInv'
  <2>0. /\ total' = total /\ idle' = idle /\ tasks' = tasks /\ alive' = alive /\ opc' = opc /\ m' = m
        /\ pc[b] \notin CountLabels
    BY <1>2 DEF GetConnection, WaitTurn, CountLabels
  <2>1. CASE Ready
    <3>1. /\ queue # <<>> /\ queue' = Tail(queue) /\ conn' = [conn EXCEPT ![b] = Head(queue)]
      BY <1>2, <2>1 DEF GetConnection, WaitTurn, Ready
    <3>2. PICK l \in {"took", "tookLocked"} : pc' = [pc EXCEPT ![b] = l]
      BY <1>2, <2>1 DEF GetConnection, WaitTurn
    <3>3. \A u \in Threads : u # b => conn'[u] = conn[u]
      BY <3>1, CountTypes
    <3> QED BY <1>0, <2>0, <3>1, <3>2, <3>3, CountsTake
  <2>2. CASE ~Ready
    <3>1. conn' = conn /\ queue' = queue
      BY <1>2, <2>2 DEF GetConnection, WaitTurn
    <3>2. PICK l \in {"arrive", "leave", "asleep"} : pc' = [pc EXCEPT ![b] = l]
      BY <1>2, <2>2 DEF GetConnection, WaitTurn
    <3> QED BY <1>0, <2>0, <3>1, <3>2, CountsStay DEF CountLabels
  <2> QED BY <2>1, <2>2
<1>3. ASSUME NEW b \in Borrowers, TakeIdleCount(b) PROVE CountsInv'
  <2>1. /\ total' = total /\ idle' = idle - 1 /\ tasks' = tasks /\ alive' = alive /\ opc' = opc /\ m' = m
        /\ pc[b] \in {"took", "tookLocked"} /\ queue' = queue /\ conn' = conn
    BY <1>3 DEF TakeIdleCount
  <2>2. PICK l \in {"stamp", "stampLocked"} : pc' = [pc EXCEPT ![b] = l]
    BY <1>3 DEF TakeIdleCount
  <2> QED BY <1>0, <2>1, <2>2, CountsTake DEF CountLabels
<1>4. ASSUME NEW b \in Borrowers,
             \/ TakeIdleStamp(b) \/ WaitArrive(b) \/ WaitLeave(b) \/ LowWater(b)
             \/ WaitTimeout(b) \/ SpuriousWakeup(b) \/ ReleaseConnection(b)
      PROVE  CountsInv'
  <2>1. /\ conn' = conn /\ queue' = queue /\ alive' = alive /\ opc' = opc /\ m' = m
        /\ total' = total /\ idle' = idle /\ tasks' = tasks /\ pc[b] \notin CountLabels
    BY <1>4 DEF TakeIdleStamp, WaitArrive, WaitLeave, LowWater, WaitTimeout,
       SpuriousWakeup, ReleaseConnection, CountLabels
  <2>2. PICK l \in {"got", "leave", "locked", "out", "using", "woken", "discard", "enqueue"} :
          pc' = [pc EXCEPT ![b] = l]
    BY <1>4 DEF TakeIdleStamp, WaitArrive, WaitLeave, LowWater, WaitTimeout,
       SpuriousWakeup, ReleaseConnection
  <2> QED BY <1>0, <2>1, <2>2, CountsStay DEF CountLabels
<1>5. ASSUME NEW t \in Threads, opc # "closed", EnqueueStep(t) PROVE CountsInv'
  <2>1. CASE CheckWaiters(t)
    <3>1. /\ conn' = conn /\ queue' = queue /\ alive' = alive /\ opc' = opc /\ m' = m
          /\ total' = total /\ idle' = idle /\ tasks' = tasks /\ pc[t] \notin CountLabels
      BY <2>1 DEF CheckWaiters, CountLabels
    <3>2. PICK l \in {"notify", "given", "idle", "flag"} : pc' = [pc EXCEPT ![t] = l]
      BY <2>1 DEF CheckWaiters, AfterEnqueue
    <3> QED BY <3>1, <3>2, CountsStay DEF CountLabels
  <2>2. CASE NotifyWaiters(t)
    <3>1. /\ conn' = conn /\ queue' = queue /\ alive' = alive /\ opc' = opc /\ m' = m
          /\ total' = total /\ idle' = idle /\ tasks' = tasks
          /\ pc[t] \notin CountLabels /\ AfterEnqueue(t) \notin CountLabels
          /\ pc' = [u \in Threads |-> IF pc[u] = "asleep" THEN "woken"
                                      ELSE IF u = t THEN AfterEnqueue(t) ELSE pc[u]]
      BY <2>2 DEF NotifyWaiters, AfterEnqueue, CountLabels
    <3> QED BY <1>5, <3>1, CountsWake
  <2> QED BY <1>5, <2>1, <2>2, CountsEnqueue DEF EnqueueStep
<1>6. ASSUME NEW k \in Creators, CreateRegister(k) PROVE CountsInv'
  <2>1. /\ conn' = conn /\ queue' = queue /\ alive' = alive /\ opc' = opc /\ m' = m
        /\ total' = total /\ idle' = idle /\ tasks' = tasks /\ pc[k] \notin CountLabels
        /\ pc' = [pc EXCEPT ![k] = "enqueue"]
    BY <1>6 DEF CreateRegister, CountLabels
  <2> QED BY <1>0, <2>1, CountsStay DEF CountLabels
<1>7. CASE ScanDrain \/ ScanDrained
  <2>1. /\ total' = total /\ tasks' = tasks /\ alive' = alive /\ opc' = opc /\ conn' = conn
        /\ m'.need = m.need
    BY <1>0, <1>7 DEF ScanDrain, ScanDrained, MaintainerLocals
  <2>2. CASE ScanDrain /\ Ready
    <3>1. /\ queue # <<>> /\ queue' = Tail(queue) /\ idle' = idle /\ pc[Maintainer] \notin CountLabels
          /\ pc' = [pc EXCEPT ![Maintainer] = "drained"]
      BY <2>2 DEF ScanDrain, Ready, CountLabels
    <3> QED BY <1>0, <2>1, <3>1, CountsTake
  <2>3. CASE ScanDrain /\ ~Ready
    <3>1. /\ queue' = queue /\ idle' = idle /\ pc[Maintainer] \notin CountLabels
          /\ pc' = [pc EXCEPT ![Maintainer] = "ping"]
      BY <2>3 DEF ScanDrain, CountLabels
    <3> QED BY <1>0, <2>1, <3>1, CountsStay DEF CountLabels
  <2>4. CASE ScanDrained
    <3>1. /\ queue' = queue /\ idle' = idle - 1 /\ pc[Maintainer] = "drained"
          /\ pc' = [pc EXCEPT ![Maintainer] = "drain"]
      BY <2>4 DEF ScanDrained
    <3> QED BY <1>0, <2>1, <3>1, CountsTake DEF CountLabels
  <2> QED BY <1>7, <2>2, <2>3, <2>4
<1>8. CASE \/ MaintenanceWake \/ MaintenanceClear \/ ScanPing \/ ScanEvict \/ ScanFlag \/ LeakSnapshot
           \/ LeakRead \/ ReplenishRead
  <2>1. /\ queue' = queue /\ alive' = alive /\ opc' = opc
        /\ total' = total /\ idle' = idle /\ tasks' = tasks /\ pc[Maintainer] \notin CountLabels
    BY <1>8 DEF MaintenanceWake, MaintenanceClear, ScanPing, ScanEvict, ScanFlag, LeakSnapshot, LeakRead,
       ReplenishRead, CountLabels
  <2>2. \A u \in Threads : u # Maintainer => conn'[u] = conn[u]
    BY <1>8, CountTypes DEF MaintenanceWake, MaintenanceClear, ScanPing, ScanEvict, ScanFlag,
       LeakSnapshot, LeakRead, ReplenishRead
  <2>3. PICK l \in {"exited", "clear", "drain", "discard", "evict", "ping", "enqueue", "check", "flag",
                    "snapshot", "leaks", "replenish", "wait", "reserve"} : pc' = [pc EXCEPT ![Maintainer] = l]
    <3>1. CASE ScanPing \/ LeakRead
      <4>1. CASE pc' = pc
        <5>1. pc' = [pc EXCEPT ![Maintainer] = pc[Maintainer]]
          BY <4>1, CountTypes
        <5>2. pc[Maintainer] \in {"ping", "leaks"}
          BY <3>1 DEF ScanPing, LeakRead
        <5> QED BY <5>1, <5>2
      <4>2. CASE pc' # pc
        BY <3>1, <4>2 DEF ScanPing, LeakRead
      <4> QED BY <4>1, <4>2
    <3>2. CASE ~(ScanPing \/ LeakRead)
      BY <1>8, <3>2 DEF MaintenanceWake, MaintenanceClear, ScanEvict, ScanFlag, LeakSnapshot,
         ReplenishRead
    <3> QED BY <3>1, <3>2
  <2> QED BY <1>0, <2>1, <2>2, <2>3, CountsStay DEF CountLabels
<1>9. CASE ShutdownStop \/ ShutdownStep
  BY <1>9, CountsShutdown
<1>10. CASE opc # "closed" /\ MaintainerStep
  BY <1>0, <1>5, <1>7, <1>8, <1>10, CountsReserve, CountsDiscard DEF MaintainerStep
<1>11. ASSUME NEW b \in Borrowers, opc # "closed",
              \/ GetConnection(b) \/ ReleaseConnection(b) \/ BorrowerStep(b)
              \/ WaitTimeout(b) \/ SpuriousWakeup(b)
       PROVE  CountsInv'
  BY <1>0, <1>2, <1>3, <1>4, <1>5, <1>11, CountsDiscard DEF BorrowerStep, WaitStep
<1>12. ASSUME NEW k \in Creators, opc # "closed", CreatorStep(k) PROVE CountsInv'
  BY <1>0, <1>5, <1>6, <1>12, CountsCreate DEF CreatorStep
<1> QED
  BY <1>1, <1>9, <1>10, <1>11, <1>12 DEF Next

(***************************************************************************)
(* totalConnCount_ is the number of connections and reserved places and at *)
(* most maxSize_; idleCount_ is the length of the queue up to the threads  *)
(* between a queue operation and its count (DBPool.cc:228-309, 425-479).   *)
(***************************************************************************)
THEOREM CountsHold == Spec => []CountsAreExact
<1>1. CountsInv => TotalIsExact /\ IdleCountIsExact
  <2>1. /\ connecting = Cardinality({k \in Creators : pc[k] = "connect"})
        /\ enqueued = Cardinality({t \in Threads : pc[t] \in {"publish", "count"}})
        /\ dequeued = Cardinality({t \in Threads : pc[t] \in {"took", "tookLocked", "drained"}})
    <3>1. {k \in Creators : pc[k] \in {"connect"}} = {k \in Creators : pc[k] = "connect"}
      OBVIOUS
    <3> QED BY <3>1 DEF connecting, enqueued, dequeued, Among
  <2> QED
    BY <2>1 DEF CountsInv, IdleBalance, TotalBalance, TotalIsExact, IdleCountIsExact, counted, reserved
<1>2. TotalIsExact /\ IdleCountIsExact /\ TotalWithinMax => CountsAreExact
  BY DEF CountsAreExact
<1> QED
  BY <1>1, <1>2, PoolInvInit, PoolInvNext, OwnInvInit, OwnInvNext, CountsInvInit, CountsInvNext,
     PoolWithinMax, PTL DEF Spec
=============================================================================
