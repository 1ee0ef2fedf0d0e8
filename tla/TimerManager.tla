--------------------------- MODULE TimerManager ---------------------------
(***************************************************************************)
(* net::TimerManager (src/src/net/TimerManager.h, TimerManager.cc) with    *)
(* the timer calls of its EventLoop: timers ordered by expiration, one     *)
(* timerfd armed for the earliest, timers that are added and cancelled by  *)
(* callbacks on the loop and, through functors, by other threads.          *)
(*                                                                         *)
(* Time is relative: an expiration is how far away it is, and Tick brings  *)
(* everything one unit closer.  A timer is its (address, sequence) pair,   *)
(* so an identifier never comes to mean another timer.  activeTimers_ has  *)
(* the members of timers_, as the code asserts after every operation.      *)
(***************************************************************************)
EXTENDS Integers, Sequences, FiniteSets

CONSTANTS Timer,     \* Timer objects ever created
          Repeating, \* those created by runEvery
          Delay,     \* delays given to runAfter and runEvery
          Interval,  \* m_interval of the repeating timers
          MaxLate,   \* bound: a timer this late does not grow any later
          MaxQueued  \* bound on the functors queued by other threads

ASSUME TimerAssumption ==
  /\ IsFiniteSet(Timer) /\ Repeating \subseteq Timer
  /\ Delay \subseteq Nat \ {0} /\ \E d \in Delay : \A e \in Delay : e <= d
  /\ Interval \in Delay
  /\ MaxLate \in Nat \ {0} /\ MaxQueued \in Nat

VARIABLES timers_,            \* timers_ and activeTimers_
          expiration,         \* m_expiration of each timer, relative to the present
          timerfd_,           \* Off, or when the timerfd becomes readable
          callingExpired,     \* callingExpiredTimers_
          cancelingTimers_,   \* cancelingTimers_
          expired,            \* local of handleRead: timers still to run, then to reset
          ran,                \* those of expired that have run
          base,               \* local now of handleRead, relative to the present
          active,             \* the timer channel is among the active channels
          functors,           \* functors queued to the loop by other threads
          created,            \* timers whose identifier some caller has
          stopped             \* history: timers cancelled when the manager had them

fdVars == <<timerfd_, active>>
runVars == <<callingExpired, cancelingTimers_, expired, ran, base>>
timerVars == <<timers_, expiration>>
vars == <<timerVars, fdVars, runVars, functors, created, stopped>>

Farthest == CHOOSE d \in Delay : \A e \in Delay : e <= d
Off == Farthest + 1  \* farther than any armed timerfd

TypeOK ==
  /\ timers_ \subseteq Timer
  /\ expiration \in [Timer -> (-MaxLate)..Farthest]
  /\ timerfd_ \in (-MaxLate)..Off
  /\ callingExpired \in BOOLEAN
  /\ cancelingTimers_ \subseteq Timer
  /\ expired \in Seq(Timer) /\ ran \in 0..Len(expired)
  /\ base \in (-MaxLate)..0
  /\ active \in BOOLEAN
  /\ functors \in Seq({"add", "cancel"} \X Timer)
  /\ created \subseteq Timer /\ stopped \subseteq Timer

Init ==
  /\ timers_ = {}
  /\ expiration = [t \in Timer |-> 0]
  /\ timerfd_ = Off
  /\ callingExpired = FALSE
  /\ cancelingTimers_ = {}
  /\ expired = <<>> /\ ran = 0
  /\ base = 0
  /\ active = FALSE
  /\ functors = <<>>
  /\ created = {} /\ stopped = {}

-----------------------------------------------------------------------------
Earlier(a, b) == IF a < b THEN a ELSE b
Later(a, b) == IF a < b THEN b ELSE a

(* The earliest expiration among a set of timers.                            *)
Earliest(S, exp) == CHOOSE e \in {exp[t] : t \in S} : \A t \in S : e <= exp[t]

(* Mutant: the time left is not clamped; zero disarms a timerfd, a negative  *)
(* value is refused.                                                         *)
ResetUnclamped(when) == IF when > 0 THEN when ELSE Off

(* resetTimerfd with howMuchTimeFromNow: never for the past or the present,  *)
(* which would disarm the descriptor.                                        *)
resetTimerfd(when) == Later(when, 1)

(* Mutant: the timerfd is set only when the set was empty.                   *)
InsertFirstOnly(t, exp, set, fd) == IF set = {} THEN resetTimerfd(exp[t]) ELSE fd

(* insert: the timerfd is set only when the new timer is the earliest.       *)
Insert(t, exp, set, fd) ==
  IF set = {} \/ exp[t] < Earliest(set, exp) THEN resetTimerfd(exp[t]) ELSE fd

addTimerInLoop(t, exp) ==
  /\ timers_' = timers_ \union {t}
  /\ timerfd_' = Insert(t, exp, timers_, timerfd_)

cancelInLoop(t) ==
  /\ timers_' = timers_ \ {t}
  /\ cancelingTimers_' =
       IF t \notin timers_ /\ callingExpired THEN cancelingTimers_ \union {t} ELSE cancelingTimers_
  /\ stopped' = IF t \in timers_ \/ \E i \in DOMAIN expired : expired[i] = t
                THEN stopped \union {t} ELSE stopped

(* The loop's thread is in user code: a handler, a functor or a timer.       *)
InUserCode == callingExpired => ran > 0

(* runAfter and runEvery on the loop's thread.                               *)
AddHere(t, d) ==
  /\ InUserCode
  /\ t \notin created
  /\ t \in Repeating => d = Interval
  /\ created' = created \union {t}
  /\ expiration' = [expiration EXCEPT ![t] = d]
  /\ addTimerInLoop(t, expiration')
  /\ UNCHANGED <<active, runVars, functors, stopped>>

(* The same on another thread: the expiration is fixed now, the timer is     *)
(* inserted by a functor.                                                    *)
AddElsewhere(t, d) ==
  /\ Len(functors) < MaxQueued
  /\ t \notin created
  /\ t \in Repeating => d = Interval
  /\ created' = created \union {t}
  /\ expiration' = [expiration EXCEPT ![t] = d]
  /\ functors' = Append(functors, <<"add", t>>)
  /\ UNCHANGED <<timers_, fdVars, runVars, stopped>>

CancelHere(t) ==
  /\ InUserCode
  /\ t \in created
  /\ cancelInLoop(t)
  /\ UNCHANGED <<expiration, fdVars, callingExpired, expired, ran, base, functors, created>>

(* cancel on another thread.                                                 *)
CancelElsewhere(t) ==
  /\ Len(functors) < MaxQueued
  /\ t \in created
  /\ functors' = Append(functors, <<"cancel", t>>)
  /\ UNCHANGED <<timerVars, fdVars, runVars, created, stopped>>

(* The loop runs a queued functor, outside handleRead.                       *)
RunFunctor ==
  /\ functors # <<>>
  /\ expired = <<>> /\ ~callingExpired /\ ~active
  /\ functors' = Tail(functors)
  /\ LET t == Head(functors)[2] IN
       IF Head(functors)[1] = "add"
       THEN /\ addTimerInLoop(t, expiration)
            /\ UNCHANGED <<cancelingTimers_, stopped>>
       ELSE /\ cancelInLoop(t)
            /\ UNCHANGED timerfd_
  /\ UNCHANGED <<expiration, active, callingExpired, expired, ran, base, created>>

-----------------------------------------------------------------------------
(* poll reports the timer channel.                                           *)
PollTimer ==
  /\ ~active /\ ~callingExpired /\ expired = <<>>
  /\ timerfd_ # Off /\ timerfd_ <= 0
  /\ active' = TRUE
  /\ UNCHANGED <<timerVars, timerfd_, runVars, functors, created, stopped>>

(* The lists of all members of S in the order of timers_: by expiration,     *)
(* and by address among equal ones.                                          *)
Sorted(S) ==
  {s \in [1..Cardinality(S) -> S] :
     /\ \A i, j \in DOMAIN s : i # j => s[i] # s[j]
     /\ \A i, j \in DOMAIN s : i < j => expiration[s[i]] <= expiration[s[j]]}

Due == {t \in timers_ : expiration[t] <= 0}

(* handleRead up to the first callback.  The read finds nothing when a       *)
(* handler of this round has set the timerfd again.                          *)
HandleRead ==
  /\ active
  /\ active' = FALSE
  /\ timerfd_' = IF timerfd_ # Off /\ timerfd_ <= 0 THEN Off ELSE timerfd_
  /\ expired' \in Sorted(Due)
  /\ timers_' = timers_ \ Due
  /\ ran' = 0
  /\ base' = 0
  /\ callingExpired' = TRUE
  /\ cancelingTimers_' = {}
  /\ UNCHANGED <<expiration, functors, created, stopped>>

(* The next expired timer runs; it may add and cancel timers before the next *)
(* step, with AddHere and CancelHere.                                        *)
RunTimer ==
  /\ callingExpired
  /\ ran < Len(expired)
  /\ ran' = ran + 1
  /\ UNCHANGED <<timerVars, fdVars, callingExpired, cancelingTimers_, expired, base, functors, created,
                 stopped>>

(* Mutant: cancelled timers are restarted too.                               *)
RestartedAll == {t \in {expired[i] : i \in DOMAIN expired} : t \in Repeating}

(* reset: repeating timers that were not cancelled meanwhile are restarted   *)
(* relative to handleRead's now, then the timerfd is set for the earliest.   *)
Restarted == {t \in {expired[i] : i \in DOMAIN expired} :
                t \in Repeating /\ t \notin cancelingTimers_}

Reset ==
  /\ callingExpired
  /\ ran = Len(expired)
  /\ callingExpired' = FALSE
  /\ expired' = <<>> /\ ran' = 0 /\ base' = 0
  /\ expiration' = [t \in Timer |-> IF t \in Restarted THEN base + Interval ELSE expiration[t]]
  /\ timers_' = timers_ \union Restarted
  /\ timerfd_' = IF timers_' = {} THEN timerfd_ ELSE resetTimerfd(Earliest(timers_', expiration'))
  /\ UNCHANGED <<active, cancelingTimers_, functors, created, stopped>>

(* Time passes.  What is left of a timer that is gone does not matter.       *)
Closer(e) == Later(e - 1, -MaxLate)
InBatch(t) == \E i \in DOMAIN expired : expired[i] = t
Waiting(t) == t \in timers_ \/ \E i \in DOMAIN functors : functors[i] = <<"add", t>>

Tick ==
  /\ expiration' = [t \in Timer |-> IF Waiting(t) THEN Closer(expiration[t]) ELSE 0]
  /\ timerfd_' = IF timerfd_ = Off THEN Off ELSE Closer(timerfd_)
  /\ base' = IF callingExpired THEN Closer(base) ELSE 0
  /\ UNCHANGED <<timers_, active, callingExpired, cancelingTimers_, expired, ran, functors,
                 created, stopped>>
-----------------------------------------------------------------------------
LoopStep == RunFunctor \/ PollTimer \/ HandleRead \/ RunTimer \/ Reset

Calls ==
  \/ \E t \in Timer, d \in Delay : AddHere(t, d) \/ AddElsewhere(t, d)
  \/ \E t \in Timer : CancelHere(t) \/ CancelElsewhere(t)

Next == LoopStep \/ Calls \/ Tick

Spec == Init /\ [][Next]_vars

(* The loop runs: handlers return, and each round polls, level-triggered,    *)
(* and runs functors, however many are queued meanwhile.  Time passes.       *)
FairSpec ==
  /\ Spec
  /\ WF_vars(HandleRead \/ RunTimer \/ Reset)
  /\ SF_vars(PollTimer) /\ SF_vars(RunFunctor)
  /\ WF_vars(Tick)
-----------------------------------------------------------------------------
(***************************************************************************)
(* Between two rounds of callbacks the timerfd is due no later than the    *)
(* earliest timer, or in the next unit when that one is late: whatever     *)
(* callbacks add and cancel, and although settime forgets an expiry that   *)
(* nobody has read, no timer is left without an alarm                      *)
(* (TimerManager.cc:34-62, 113-120, 150-221).                              *)
(***************************************************************************)
TimersAreArmed ==
  ~callingExpired /\ timers_ # {} =>
    timerfd_ # Off /\ timerfd_ <= Later(Earliest(timers_, expiration), 1)

(***************************************************************************)
(* A timer cancelled while the manager has it, be it by its own callback   *)
(* or by another one of its round, is never armed again                    *)
(* (TimerManager.cc:122-164, 193-207).                                     *)
(***************************************************************************)
CancelIsFinal == timers_ \intersect stopped = {}

(***************************************************************************)
(* A timer whose creation has been asked for runs or is cancelled, and a   *)
(* repeating one that runs is armed again or cancelled                     *)
(* (TimerManager.cc:87-120, 146-221).                                      *)
(***************************************************************************)
TimersFire ==
  \A t \in Timer :
    /\ Waiting(t) ~> InBatch(t) \/ t \in stopped
    /\ (t \in Repeating /\ InBatch(t)) ~> (t \in timers_ \/ t \in stopped)
=============================================================================
