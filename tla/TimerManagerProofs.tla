------------------------- MODULE TimerManagerProofs -------------------------
(***************************************************************************)
(* Proofs about the timers of an event loop, for any number of timers and  *)
(* functors and any delays: the timerfd is armed for the earliest timer,   *)
(* and a cancelled timer is never armed again.                             *)
(***************************************************************************)
EXTENDS TimerManager, FiniteSetTheorems, WellFoundedInduction, TLAPS

Batch == {expired[i] : i \in DOMAIN expired}
Added == {t \in Timer : \E i \in 1..Len(functors) : functors[i] = <<"add", t>>}
AddedOnce ==
  \A t \in Timer, i, j \in 1..Len(functors) :
    functors[i] = <<"add", t>> /\ functors[j] = <<"add", t>> => i = j

(* Every timer the manager knows was created, and is in one place: about to  *)
(* be inserted, inserted, or expired.                                        *)
Placed ==
  /\ timers_ \subseteq created /\ Batch \subseteq created /\ Added \subseteq created /\ stopped \subseteq created
  /\ timers_ \intersect Batch = {}
  /\ Added \intersect (timers_ \union Batch) = {}
  /\ AddedOnce
  /\ expired # <<>> => callingExpired

(* A cancelled timer is nowhere it could come back from.                     *)
Cancelled ==
  /\ stopped \intersect (timers_ \union Added) = {}
  /\ Batch \intersect stopped \subseteq cancelingTimers_

(* Outside the callbacks the timerfd is early enough for every timer.        *)
EarlyFor(fd, e) == fd # Off /\ fd <= Later(e, 1)
Armed == ~callingExpired => \A t \in timers_ : EarlyFor(timerfd_, expiration[t])

TimerInv == TypeOK /\ Placed /\ Cancelled /\ Armed

(* A set of numbers has a least one.                                         *)
LEMMA LeastNatural ==
  ASSUME NEW S \in SUBSET Nat, S # {}
  PROVE  \E m \in S : \A n \in S : m <= n
<1> DEFINE R == {p \in Nat \X Nat : p[1] < p[2]}
<1>1. IsWellFoundedOn(R, Nat)
  BY NatLessThanWellFounded DEF OpToRel
<1>2. \A n, m \in Nat : n < m => <<n, m>> \in R
  OBVIOUS
<1> HIDE DEF R
<1>3. PICK m \in S : \A n \in S : <<n, m>> \notin R
  BY <1>1, WFMin
<1>4. \A n \in S : ~(n < m)
  BY <1>2, <1>3
<1> QED BY <1>3, <1>4

(* The longest delay is one of the delays, and none is longer.               *)
LEMMA FarthestIs == Farthest \in Nat \ {0} /\ Farthest \in Delay /\ \A d \in Delay : d <= Farthest
BY TimerAssumption DEF Farthest

(* Earliest is the least expiration of a set of timers.                      *)
LEMMA EarliestIs ==
  ASSUME NEW exp \in [Timer -> (-MaxLate)..Farthest], NEW S \in SUBSET Timer, S # {}
  PROVE  /\ Earliest(S, exp) \in (-MaxLate)..Farthest
         /\ \E t \in S : Earliest(S, exp) = exp[t]
         /\ \A t \in S : Earliest(S, exp) <= exp[t]
<1>0. MaxLate \in Nat /\ Farthest \in Nat
  BY TimerAssumption, FarthestIs
<1> DEFINE N == {exp[t] + MaxLate : t \in S}
<1>1. N \in SUBSET Nat /\ N # {}
  BY <1>0
<1>2. PICK m \in N : \A n \in N : m <= n
  BY <1>1, LeastNatural
<1>3. PICK s \in S : m = exp[s] + MaxLate
  BY <1>2
<1>4. \A t \in S : exp[s] <= exp[t]
  BY <1>0, <1>2, <1>3
<1>5. \E e \in {exp[t] : t \in S} : \A t \in S : e <= exp[t]
  BY <1>4
<1>6. Earliest(S, exp) \in {exp[t] : t \in S} /\ \A t \in S : Earliest(S, exp) <= exp[t]
  BY <1>5 DEF Earliest
<1> QED BY <1>6

(* resetTimerfd never turns the timerfd off.                                 *)
LEMMA ResetIs ==
  ASSUME NEW when \in (-MaxLate)..Farthest
  PROVE  resetTimerfd(when) \in 1..Farthest /\ resetTimerfd(when) = Later(when, 1)
                                            /\ EarlyFor(resetTimerfd(when), when)
BY TimerAssumption, FarthestIs DEF resetTimerfd, Later, EarlyFor, Off

(* Inserting a timer leaves the timerfd early for it and for the others.     *)
LEMMA InsertIs ==
  ASSUME NEW exp \in [Timer -> (-MaxLate)..Farthest], NEW S \in SUBSET Timer, NEW t \in Timer,
         NEW fd \in (-MaxLate)..Off
  PROVE  /\ Insert(t, exp, S, fd) \in (-MaxLate)..Off
         /\ (\A s \in S : EarlyFor(fd, exp[s])) =>
              \A s \in S \union {t} : EarlyFor(Insert(t, exp, S, fd), exp[s])
<1>0. MaxLate \in Nat /\ Farthest \in Nat \ {0} /\ Off = Farthest + 1
  BY TimerAssumption, FarthestIs DEF Off
<1>1. exp[t] \in (-MaxLate)..Farthest
  OBVIOUS
<1>2. CASE S = {}
  <2>1. Insert(t, exp, S, fd) = resetTimerfd(exp[t])
    BY <1>2 DEF Insert
  <2> QED BY <1>0, <1>1, <1>2, <2>1, ResetIs
<1>3. CASE S # {} /\ exp[t] < Earliest(S, exp)
  <2>1. Insert(t, exp, S, fd) = resetTimerfd(exp[t])
    BY <1>3 DEF Insert
  <2>2. \A s \in S : exp[t] <= exp[s]
    BY <1>0, <1>1, <1>3, EarliestIs
  <2>3. \A s \in S : EarlyFor(resetTimerfd(exp[t]), exp[s])
    BY <1>0, <1>1, <2>2, ResetIs DEF EarlyFor, Later
  <2> QED BY <1>0, <1>1, <2>1, <2>3, ResetIs
<1>4. CASE S # {} /\ ~(exp[t] < Earliest(S, exp))
  <2>1. Insert(t, exp, S, fd) = fd
    BY <1>4 DEF Insert
  <2>2. PICK s \in S : Earliest(S, exp) = exp[s]
    BY <1>4, EarliestIs
  <2>3. exp[s] <= exp[t]
    BY <1>0, <1>1, <1>4, <2>2
  <2>4. EarlyFor(fd, exp[s]) => EarlyFor(fd, exp[t])
    BY <1>0, <1>1, <2>3 DEF EarlyFor, Later
  <2> QED BY <2>1, <2>4
<1> QED BY <1>2, <1>3, <1>4

(* Time brings the timerfd as much closer as the timers.                     *)
LEMMA CloserIs ==
  ASSUME NEW fd \in (-MaxLate)..Off, NEW e \in (-MaxLate)..Farthest
  PROVE  /\ Closer(e) \in (-MaxLate)..Farthest
         /\ fd # Off => Closer(fd) \in (-MaxLate)..Farthest
         /\ EarlyFor(fd, e) => EarlyFor(Closer(fd), Closer(e))
<1>1. MaxLate \in Nat \ {0} /\ Farthest \in Nat \ {0} /\ Off = Farthest + 1
  BY TimerAssumption, FarthestIs DEF Off
<1>2. Closer(e) \in (-MaxLate)..Farthest /\ (fd # Off => Closer(fd) \in (-MaxLate)..Farthest)
  BY <1>1 DEF Closer, Later
<1>3. ASSUME fd # Off, fd <= Later(e, 1) PROVE Closer(fd) <= Later(Closer(e), 1)
  BY <1>1, <1>3 DEF Closer, Later
<1> QED BY <1>1, <1>2, <1>3 DEF EarlyFor

(* What a sequence of functors has after one is queued.                      *)
LEMMA AppendIs ==
  ASSUME NEW S, NEW s \in Seq(S), NEW x \in S
  PROVE  /\ Append(s, x) \in Seq(S) /\ Len(s) \in Nat /\ Len(Append(s, x)) = Len(s) + 1
         /\ \A i \in 1..Len(s) : Append(s, x)[i] = s[i]
         /\ Append(s, x)[Len(s) + 1] = x
OBVIOUS

(* What is left of a sequence of functors when the first is run.             *)
LEMMA TailIs ==
  ASSUME NEW S, NEW s \in Seq(S), s # <<>>
  PROVE  /\ Tail(s) \in Seq(S) /\ Len(s) \in Nat \ {0} /\ Len(Tail(s)) = Len(s) - 1
         /\ \A i \in 1..(Len(s) - 1) : Tail(s)[i] = s[i + 1]
         /\ Head(s) = s[1] /\ Head(s) \in S
OBVIOUS

(* Queueing a functor about t.                                               *)
LEMMA QueueIs ==
  ASSUME functors \in Seq({"add", "cancel"} \X Timer), NEW k \in {"add", "cancel"}, NEW t \in Timer,
         functors' = Append(functors, <<k, t>>), AddedOnce
  PROVE  /\ functors' \in Seq({"add", "cancel"} \X Timer)
         /\ Added' = IF k = "add" THEN Added \union {t} ELSE Added
         /\ (k = "add" => t \notin Added) => AddedOnce'
<1> DEFINE F == {"add", "cancel"} \X Timer
           x == <<k, t>>
           s == Append(functors, x)
<1>1. /\ s \in Seq(F) /\ Len(functors) \in Nat /\ Len(s) = Len(functors) + 1
      /\ \A i \in 1..Len(functors) : s[i] = functors[i]
      /\ s[Len(functors) + 1] = x
  BY AppendIs
<1>2. functors' = s
  OBVIOUS
<1> HIDE DEF s
<1>3. \A u \in Timer : (\E i \in 1..Len(s) : s[i] = <<"add", u>>) <=>
                       (\E i \in 1..Len(functors) : functors[i] = <<"add", u>>) \/ x = <<"add", u>>
  <2>1. \A i \in 1..Len(s) : i \in 1..Len(functors) \/ i = Len(functors) + 1
    BY <1>1
  <2>2. \A i \in 1..Len(functors) : i \in 1..Len(s)
    BY <1>1
  <2>3. Len(functors) + 1 \in 1..Len(s)
    BY <1>1
  <2> HIDE DEF x
  <2> QED BY <1>1, <2>1, <2>2, <2>3
<1>4. \A u \in Timer : x = <<"add", u>> <=> k = "add" /\ u = t
  OBVIOUS
<1>5. Added' = IF k = "add" THEN Added \union {t} ELSE Added
  BY <1>2, <1>3, <1>4 DEF Added
<1>6. ASSUME k = "add" => t \notin Added PROVE AddedOnce'
  <2>1. \A u \in Timer : x = <<"add", u>> => \A i \in 1..Len(functors) : functors[i] # <<"add", u>>
    BY <1>4, <1>6 DEF Added
  <2>2. \A u \in Timer, i, j \in 1..Len(s) : s[i] = <<"add", u>> /\ s[j] = <<"add", u>> => i = j
    <3>1. \A i \in 1..Len(s) : i \in 1..Len(functors) \/ i = Len(functors) + 1
      BY <1>1
    <3> HIDE DEF x
    <3> QED BY <1>1, <2>1, <3>1 DEF AddedOnce
  <2> QED BY <1>2, <2>2 DEF AddedOnce
<1> QED BY <1>1, <1>2, <1>5, <1>6

(* Running the first functor, which is about t.                              *)
LEMMA RunIs ==
  ASSUME functors \in Seq({"add", "cancel"} \X Timer), functors # <<>>, functors' = Tail(functors), AddedOnce
  PROVE  /\ functors' \in Seq({"add", "cancel"} \X Timer)
         /\ Head(functors)[1] \in {"add", "cancel"} /\ Head(functors)[2] \in Timer
         /\ Head(functors)[1] = "add" => Head(functors)[2] \in Added /\ Added' = Added \ {Head(functors)[2]}
         /\ Head(functors)[1] # "add" => Added' = Added
         /\ AddedOnce'
<1> DEFINE F == {"add", "cancel"} \X Timer
           s == Tail(functors)
<1>1. /\ s \in Seq(F) /\ Len(functors) \in Nat \ {0} /\ Len(s) = Len(functors) - 1
      /\ \A i \in 1..(Len(functors) - 1) : s[i] = functors[i + 1]
      /\ Head(functors) = functors[1] /\ Head(functors) \in F
  BY TailIs
<1>2. functors' = s
  OBVIOUS
<1> HIDE DEF s
<1>3. PICK k \in {"add", "cancel"}, t \in Timer : functors[1] = <<k, t>>
  BY <1>1
<1>4. \A u \in Timer : functors[1] = <<"add", u>> <=> k = "add" /\ u = t
  BY <1>3
<1>5. \A u \in Timer : (\E i \in 1..Len(functors) : functors[i] = <<"add", u>>) <=>
                       (\E i \in 1..Len(s) : s[i] = <<"add", u>>) \/ (k = "add" /\ u = t)
  <2> SUFFICES ASSUME NEW u \in Timer
               PROVE  (\E i \in 1..Len(functors) : functors[i] = <<"add", u>>) <=>
                      (\E i \in 1..Len(s) : s[i] = <<"add", u>>) \/ (k = "add" /\ u = t)
    OBVIOUS
  <2>1. ASSUME NEW i \in 1..Len(functors), functors[i] = <<"add", u>>, i # 1
        PROVE  \E j \in 1..Len(s) : s[j] = <<"add", u>>
    <3>1. i - 1 \in 1..Len(s) /\ (i - 1) + 1 = i
      BY <1>1, <2>1
    <3> QED BY <1>1, <2>1, <3>1
  <2>2. \A j \in 1..Len(s) : j + 1 \in 1..Len(functors) /\ s[j] = functors[j + 1]
    BY <1>1
  <2>3. 1 \in 1..Len(functors)
    BY <1>1
  <2> QED BY <1>4, <2>1, <2>2, <2>3
<1>6. k = "add" => ~\E i \in 1..Len(s) : s[i] = <<"add", t>>
  <2> SUFFICES ASSUME k = "add", NEW i \in 1..Len(s), s[i] = <<"add", t>> PROVE FALSE
    OBVIOUS
  <2>1. i + 1 \in 1..Len(functors) /\ 1 \in 1..Len(functors) /\ i + 1 # 1 /\ functors[i + 1] = <<"add", t>>
    BY <1>1
  <2> QED BY <1>3, <2>1 DEF AddedOnce
<1>7. Added = IF k = "add" THEN Added' \union {t} ELSE Added'
  BY <1>2, <1>5 DEF Added
<1>8. k = "add" => t \notin Added'
  BY <1>2, <1>6 DEF Added
<1>9. AddedOnce'
  <2>1. \A u \in Timer, i, j \in 1..Len(s) : s[i] = <<"add", u>> /\ s[j] = <<"add", u>> => i = j
    <3> SUFFICES ASSUME NEW u \in Timer, NEW i \in 1..Len(s), NEW j \in 1..Len(s),
                        s[i] = <<"add", u>>, s[j] = <<"add", u>>
                 PROVE  i = j
      OBVIOUS
    <3>1. i + 1 \in 1..Len(functors) /\ j + 1 \in 1..Len(functors)
      BY <1>1
    <3>2. functors[i + 1] = <<"add", u>> /\ functors[j + 1] = <<"add", u>>
      BY <1>1
    <3>3. i + 1 = j + 1
      BY <3>1, <3>2 DEF AddedOnce
    <3> QED BY <3>3
  <2> QED BY <1>2, <2>1 DEF AddedOnce
<1> QED BY <1>1, <1>2, <1>3, <1>7, <1>8, <1>9

(* The timers that are due can be listed, and Sorted lists exactly them.     *)
LEMMA SortedIs ==
  ASSUME TypeOK, NEW s \in Sorted(Due)
  PROVE  s \in Seq(Timer) /\ \A i \in DOMAIN s : s[i] \in Due
<1>1. IsFiniteSet(Due) /\ Due \subseteq Timer
  BY TimerAssumption, FS_Subset DEF Due, TypeOK
<1>2. Cardinality(Due) \in Nat
  BY <1>1, FS_CardinalityType
<1>3. s \in [1..Cardinality(Due) -> Due]
  BY DEF Sorted
<1> QED BY <1>1, <1>2, <1>3

(* The manager's state keeps its types.                                      *)
LEMMA TypeKept == ASSUME TypeOK, AddedOnce, [Next]_vars PROVE TypeOK'
<1>0. MaxLate \in Nat \ {0} /\ Farthest \in Nat \ {0} /\ Off = Farthest + 1 /\ Delay \subseteq 1..Farthest
      /\ Interval \in 1..Farthest
  BY TimerAssumption, FarthestIs DEF Off
<1> USE DEF TypeOK
<1>1. CASE UNCHANGED vars
  BY <1>1 DEF vars, timerVars, fdVars, runVars
<1>2. ASSUME NEW t \in Timer, NEW d \in Delay, AddHere(t, d) \/ AddElsewhere(t, d) PROVE TypeOK'
  <2>1. expiration' \in [Timer -> (-MaxLate)..Farthest] /\ created' \subseteq Timer
    <3>1. d \in (-MaxLate)..Farthest /\ expiration' = [expiration EXCEPT ![t] = d] /\ created' = created \union {t}
      BY <1>0, <1>2 DEF AddHere, AddElsewhere
    <3> QED BY <3>1
  <2>2. CASE AddHere(t, d)
    <3>1. timers_' = timers_ \union {t} /\ timerfd_' = Insert(t, expiration', timers_, timerfd_)
      BY <2>2 DEF AddHere, addTimerInLoop
    <3>2. timerfd_' \in (-MaxLate)..Off
      BY <2>1, <3>1, InsertIs
    <3> QED BY <2>1, <2>2, <3>1, <3>2 DEF AddHere, runVars
  <2>3. CASE AddElsewhere(t, d)
    <3>1. functors' \in Seq({"add", "cancel"} \X Timer)
      BY <2>3, QueueIs DEF AddElsewhere
    <3> QED BY <2>1, <2>3, <3>1 DEF AddElsewhere, fdVars, runVars
  <2> QED BY <1>2, <2>2, <2>3
<1>3. ASSUME NEW t \in Timer, CancelHere(t) PROVE TypeOK'
  BY <1>3 DEF CancelHere, cancelInLoop, fdVars
<1>4. ASSUME NEW t \in Timer, CancelElsewhere(t) PROVE TypeOK'
  <2>1. functors' \in Seq({"add", "cancel"} \X Timer)
    BY <1>4, QueueIs DEF CancelElsewhere
  <2> QED BY <1>4, <2>1 DEF CancelElsewhere, timerVars, fdVars, runVars
<1>5. CASE RunFunctor
  <2>1. functors' \in Seq({"add", "cancel"} \X Timer) /\ Head(functors)[2] \in Timer
    BY <1>5, RunIs DEF RunFunctor
  <2>2. Insert(Head(functors)[2], expiration, timers_, timerfd_) \in (-MaxLate)..Off
    BY <2>1, InsertIs
  <2> QED BY <1>5, <2>1, <2>2 DEF RunFunctor, addTimerInLoop, cancelInLoop
<1>6. CASE PollTimer
  BY <1>6 DEF PollTimer, timerVars, runVars
<1>7. CASE HandleRead
  <2>1. expired' \in Seq(Timer)
    BY <1>7, SortedIs DEF HandleRead
  <2>2. 0 \in 0..Len(expired') /\ 0 \in (-MaxLate)..0 /\ timerfd_' \in (-MaxLate)..Off
    BY <1>0, <1>7, <2>1 DEF HandleRead
  <2> QED BY <1>7, <2>1, <2>2 DEF HandleRead
<1>8. CASE RunTimer
  <2>1. ran' \in 0..Len(expired')
    BY <1>8 DEF RunTimer
  <2> QED BY <1>8, <2>1 DEF RunTimer, timerVars, fdVars
<1>9. CASE Reset
  <2>1. base + Interval \in (-MaxLate)..Farthest
    BY <1>0
  <2>2. expiration' \in [Timer -> (-MaxLate)..Farthest] /\ timers_' \in SUBSET Timer
    BY <1>9, <2>1 DEF Reset, Restarted
  <2>3. timerfd_' \in (-MaxLate)..Off
    <3>1. CASE timers_' = {}
      BY <1>9, <3>1 DEF Reset
    <3>2. CASE timers_' # {}
      <4>1. Earliest(timers_', expiration') \in (-MaxLate)..Farthest
        BY <2>2, <3>2, EarliestIs
      <4>2. resetTimerfd(Earliest(timers_', expiration')) \in 1..Farthest
        BY <4>1, ResetIs
      <4>3. timerfd_' = resetTimerfd(Earliest(timers_', expiration'))
        BY <1>9, <3>2 DEF Reset
      <4> HIDE DEF TypeOK
      <4> QED BY <1>0, <4>2, <4>3
    <3> QED BY <3>1, <3>2
  <2>4. expired' = <<>> /\ ran' = 0 /\ base' = 0 /\ <<>> \in Seq(Timer) /\ 0 \in 0..Len(<<>>) /\ 0 \in (-MaxLate)..0
    BY <1>0, <1>9 DEF Reset
  <2> QED BY <1>9, <2>2, <2>3, <2>4 DEF Reset
<1>10. CASE Tick
  <2>1. expiration' \in [Timer -> (-MaxLate)..Farthest]
    <3>1. \A t \in Timer : Closer(expiration[t]) \in (-MaxLate)..Farthest /\ 0 \in (-MaxLate)..Farthest
      BY <1>0 DEF Closer, Later
    <3> QED BY <1>10, <3>1 DEF Tick
  <2>2. timerfd_' \in (-MaxLate)..Off /\ base' \in (-MaxLate)..0
    BY <1>0, <1>10 DEF Tick, Closer, Later
  <2> QED BY <1>10, <2>1, <2>2 DEF Tick
<1> QED BY <1>1, <1>2, <1>3, <1>4, <1>5, <1>6, <1>7, <1>8, <1>9, <1>10 DEF Next, LoopStep, Calls

(* Batch, Added and AddedOnce change only with what they are made of.        *)
LEMMA SamePlaces ==
  /\ expired' = expired => Batch' = Batch
  /\ functors' = functors => Added' = Added /\ AddedOnce' = AddedOnce
  /\ expired' = <<>> => Batch' = {}
BY DEF Batch, Added, AddedOnce

(* Timers keep to one place, and cancelled ones stay away.                   *)
LEMMA PlacesKept ==
  ASSUME TypeOK, Placed, Cancelled, [Next]_vars
  PROVE  Placed' /\ Cancelled'
<1> USE DEF Placed, Cancelled
<1>0. functors \in Seq({"add", "cancel"} \X Timer) /\ (\A t : (\E i \in DOMAIN expired : expired[i] = t) <=> t \in Batch)
  BY DEF TypeOK, Batch
<1>1. CASE UNCHANGED vars
  BY <1>1, SamePlaces DEF vars, timerVars, fdVars, runVars
<1>2. ASSUME NEW t \in Timer, NEW d \in Delay, AddHere(t, d) PROVE Placed' /\ Cancelled'
  BY <1>2, SamePlaces DEF AddHere, addTimerInLoop, runVars
<1>3. ASSUME NEW t \in Timer, NEW d \in Delay, AddElsewhere(t, d) PROVE Placed' /\ Cancelled'
  <2>1. Added' = Added \union {t} /\ AddedOnce'
    BY <1>0, <1>3, QueueIs DEF AddElsewhere
  <2> QED BY <1>3, <2>1, SamePlaces DEF AddElsewhere, runVars
<1>4. ASSUME NEW t \in Timer, CancelHere(t) PROVE Placed' /\ Cancelled'
  <2>1. Batch' = Batch /\ Added' = Added /\ AddedOnce' /\ UNCHANGED <<callingExpired, expired, created>>
    BY <1>4, SamePlaces DEF CancelHere
  <2>2. t \in Batch => callingExpired
    BY <1>0 DEF TypeOK
  <2> QED BY <1>0, <1>4, <2>1, <2>2 DEF CancelHere, cancelInLoop
<1>5. ASSUME NEW t \in Timer, CancelElsewhere(t) PROVE Placed' /\ Cancelled'
  <2>1. Added' = Added /\ AddedOnce'
    BY <1>0, <1>5, QueueIs DEF CancelElsewhere
  <2> QED BY <1>5, <2>1, SamePlaces DEF CancelElsewhere, timerVars, runVars
<1>6. CASE RunFunctor
  <2>1. PICK t \in Timer : t = Head(functors)[2]
    BY <1>0, <1>6, RunIs DEF RunFunctor
  <2>2. /\ AddedOnce' /\ Batch = {} /\ Batch' = {} /\ UNCHANGED <<callingExpired, expired, created>>
        /\ Head(functors)[1] = "add" => t \in Added /\ Added' = Added \ {t}
        /\ Head(functors)[1] # "add" => Added' = Added
    BY <1>0, <1>6, <2>1, RunIs, SamePlaces DEF RunFunctor, Batch
  <2>3. CASE Head(functors)[1] = "add"
    BY <1>6, <2>1, <2>2, <2>3 DEF RunFunctor, addTimerInLoop
  <2>4. CASE Head(functors)[1] # "add"
    BY <1>0, <1>6, <2>1, <2>2, <2>4 DEF RunFunctor, cancelInLoop
  <2> QED BY <2>3, <2>4
<1>7. CASE PollTimer
  BY <1>7, SamePlaces DEF PollTimer, timerVars, runVars
<1>8. CASE HandleRead
  <2>1. Batch' \subseteq Due /\ Due \subseteq timers_
    BY <1>8, SortedIs DEF HandleRead, Batch, Due
  <2> QED BY <1>8, <2>1, SamePlaces DEF HandleRead
<1>9. CASE RunTimer
  BY <1>9, SamePlaces DEF RunTimer, timerVars
<1>10. CASE Reset
  <2>1. Restarted \subseteq Batch \ cancelingTimers_
    BY DEF Restarted, Batch
  <2> QED BY <1>10, <2>1, SamePlaces DEF Reset
<1>11. CASE Tick
  BY <1>11, SamePlaces DEF Tick
<1> QED BY <1>1, <1>2, <1>3, <1>4, <1>5, <1>6, <1>7, <1>8, <1>9, <1>10, <1>11 DEF Next, LoopStep, Calls

(* Outside the callbacks the timerfd stays early enough.                     *)
LEMMA ArmedKept == ASSUME TypeOK, Placed, Armed, TypeOK', [Next]_vars PROVE Armed'
<1>0. MaxLate \in Nat \ {0} /\ Farthest \in Nat \ {0} /\ Off = Farthest + 1 /\ Delay \subseteq 1..Farthest
  BY TimerAssumption, FarthestIs DEF Off
<1>1. CASE UNCHANGED vars
  BY <1>1 DEF vars, timerVars, fdVars, runVars, Armed
<1>2. ASSUME NEW t \in Timer, NEW d \in Delay, AddHere(t, d) PROVE Armed'
  <2>1. /\ expiration' = [expiration EXCEPT ![t] = d] /\ t \notin timers_ /\ callingExpired' = callingExpired
        /\ timers_' = timers_ \union {t} /\ timerfd_' = Insert(t, expiration', timers_, timerfd_)
    BY <1>2 DEF AddHere, addTimerInLoop, runVars, Placed
  <2>2. \A s \in timers_ : expiration'[s] = expiration[s]
    BY <2>1 DEF TypeOK
  <2> QED BY <2>1, <2>2, InsertIs DEF Armed, TypeOK
<1>3. ASSUME NEW t \in Timer, NEW d \in Delay, AddElsewhere(t, d) PROVE Armed'
  <2>1. /\ expiration' = [expiration EXCEPT ![t] = d] /\ t \notin timers_
        /\ UNCHANGED <<timers_, timerfd_, callingExpired>>
    BY <1>3 DEF AddElsewhere, fdVars, runVars, Placed
  <2>2. \A s \in timers_ : expiration'[s] = expiration[s]
    BY <2>1 DEF TypeOK
  <2> QED BY <2>1, <2>2 DEF Armed
<1>4. ASSUME NEW t \in Timer, CancelHere(t) \/ CancelElsewhere(t) PROVE Armed'
  BY <1>4 DEF CancelHere, CancelElsewhere, cancelInLoop, timerVars, fdVars, runVars, Armed
<1>5. CASE RunFunctor
  <2>1. Head(functors)[2] \in Timer /\ UNCHANGED <<expiration, callingExpired>>
    BY <1>5, RunIs DEF RunFunctor, TypeOK, Placed
  <2>2. CASE Head(functors)[1] = "add"
    <3>1. PICK t \in Timer : t = Head(functors)[2]
      BY <2>1
    <3>2. timers_' = timers_ \union {t} /\ timerfd_' = Insert(t, expiration, timers_, timerfd_) /\ ~callingExpired
      BY <1>5, <2>2, <3>1 DEF RunFunctor, addTimerInLoop
    <3>3. (\A s \in timers_ : EarlyFor(timerfd_, expiration[s])) =>
            \A s \in timers_ \union {t} : EarlyFor(Insert(t, expiration, timers_, timerfd_), expiration[s])
      BY InsertIs DEF TypeOK
    <3> QED BY <2>1, <3>2, <3>3 DEF Armed
  <2>3. CASE Head(functors)[1] # "add"
    BY <1>5, <2>1, <2>3 DEF RunFunctor, cancelInLoop, Armed
  <2> QED BY <2>2, <2>3
<1>6. CASE PollTimer \/ HandleRead \/ RunTimer
  BY <1>6 DEF PollTimer, HandleRead, RunTimer, timerVars, fdVars, runVars, Armed
<1>7. CASE Reset
  <2>1. ASSUME NEW t \in timers_' PROVE EarlyFor(timerfd_', expiration'[t])
    <3>1. timers_' # {} /\ timerfd_' = resetTimerfd(Earliest(timers_', expiration'))
      BY <1>7, <2>1 DEF Reset
    <3>2. Earliest(timers_', expiration') \in (-MaxLate)..Farthest /\ Earliest(timers_', expiration') <= expiration'[t]
      BY <2>1, <3>1, EarliestIs DEF TypeOK
    <3>3. expiration'[t] \in (-MaxLate)..Farthest
      BY <2>1 DEF TypeOK
    <3>4. PICK e \in (-MaxLate)..Farthest : e = Earliest(timers_', expiration')
      BY <3>2
    <3>5. timerfd_' \in 1..Farthest /\ timerfd_' = Later(e, 1)
      BY <3>1, <3>4, ResetIs
    <3> QED BY <1>0, <3>2, <3>3, <3>4, <3>5 DEF EarlyFor, Later
  <2> QED BY <2>1 DEF Armed
<1>8. CASE Tick
  <2>1. \A t \in timers_ : expiration'[t] = Closer(expiration[t])
    BY <1>8 DEF Tick, Waiting, TypeOK
  <2>2. timerfd_ # Off => timerfd_' = Closer(timerfd_)
    BY <1>8 DEF Tick
  <2>3. \A t \in timers_ : EarlyFor(timerfd_, expiration[t]) => EarlyFor(timerfd_', expiration'[t])
    BY <2>1, <2>2, CloserIs DEF TypeOK, EarlyFor
  <2> QED BY <1>8, <2>3 DEF Tick, Armed
<1> QED BY <1>1, <1>2, <1>3, <1>4, <1>5, <1>6, <1>7, <1>8 DEF Next, LoopStep, Calls

(* The parts together are inductive.                                         *)
LEMMA TimerInvHolds == Spec => []TimerInv
<1>1. Init => TimerInv
  <2> SUFFICES ASSUME Init PROVE TimerInv
    OBVIOUS
  <2>1. MaxLate \in Nat \ {0} /\ Farthest \in Nat \ {0} /\ Off = Farthest + 1
    BY TimerAssumption, FarthestIs DEF Off
  <2>2. TypeOK
    <3>1. 0 \in (-MaxLate)..Farthest /\ Off \in (-MaxLate)..Off /\ 0 \in (-MaxLate)..0
      BY <2>1
    <3>2. expired \in Seq(Timer) /\ functors \in Seq({"add", "cancel"} \X Timer) /\ ran \in 0..Len(expired)
      BY DEF Init
    <3> QED BY <3>1, <3>2 DEF Init, TypeOK
  <2>3. Batch = {} /\ Added = {} /\ AddedOnce
    BY DEF Init, Batch, Added, AddedOnce
  <2> QED BY <2>2, <2>3 DEF Init, TimerInv, Placed, Cancelled, Armed
<1>2. TimerInv /\ [Next]_vars => TimerInv'
  <2> SUFFICES ASSUME TimerInv, [Next]_vars PROVE TimerInv'
    OBVIOUS
  <2>1. TypeOK /\ Placed /\ Cancelled /\ Armed /\ AddedOnce
    BY DEF TimerInv, Placed
  <2>2. TypeOK'
    BY <2>1, TypeKept
  <2>3. Placed' /\ Cancelled'
    BY <2>1, PlacesKept
  <2>4. Armed'
    BY <2>1, <2>2, ArmedKept
  <2> QED BY <2>2, <2>3, <2>4 DEF TimerInv
<1> QED BY <1>1, <1>2, PTL DEF Spec

(***************************************************************************)
(* Between two rounds of callbacks the timerfd is armed for the earliest   *)
(* timer (TimerManager.cc:34-62, 113-120, 150-221), for any number of      *)
(* timers and any delays.                                                  *)
(***************************************************************************)
THEOREM TimersStayArmed == Spec => []TimersAreArmed
<1>1. TimerInv => TimersAreArmed
  <2> SUFFICES ASSUME TimerInv, ~callingExpired, timers_ # {}
               PROVE  timerfd_ # Off /\ timerfd_ <= Later(Earliest(timers_, expiration), 1)
    BY DEF TimersAreArmed
  <2>1. PICK t \in timers_ : Earliest(timers_, expiration) = expiration[t]
    BY EarliestIs DEF TimerInv, TypeOK
  <2> QED BY <2>1 DEF TimerInv, Armed, EarlyFor
<1> QED BY <1>1, TimerInvHolds, PTL

(***************************************************************************)
(* A timer cancelled while the manager has it is never armed again         *)
(* (TimerManager.cc:122-164, 193-207), whoever cancels it and when.        *)
(***************************************************************************)
THEOREM CancelledForGood == Spec => []CancelIsFinal
<1>1. TimerInv => CancelIsFinal
  BY DEF TimerInv, Cancelled, CancelIsFinal
<1> QED BY <1>1, TimerInvHolds, PTL
=============================================================================
