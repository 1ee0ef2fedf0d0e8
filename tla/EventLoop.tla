----------------------------- MODULE EventLoop -----------------------------
(***************************************************************************)
(* net::EventLoop (src/src/net/EventLoop.h, EventLoop.cc): the loop of one *)
(* thread, the functors other threads and the loop's own callbacks queue   *)
(* to it, and the eventfd that wakes it.  The eventfd is readable or not:  *)
(* a write makes it readable, the one read empties it.  Channels other     *)
(* than the wake-up channel are represented by a poll that may return at   *)
(* any time and handlers that may call back into the loop.                 *)
(***************************************************************************)
EXTENDS Integers, Sequences

CONSTANTS Functor,    \* functors, each queued at most once
          Callers,    \* threads other than the loop's
          EarlyQueue  \* whether the loop's own thread queues functors before loop()

ASSUME EarlyQueueAssumption == EarlyQueue \in BOOLEAN

VARIABLES m_quit,                    \* m_quit
          m_pendingFunctors,         \* m_pendingFunctors
          m_callingPendingFunctors,  \* m_callingPendingFunctors
          wakeupFd,                  \* m_wakeupFd is readable
          active,                    \* the wake-up channel is among m_activeChannels
          functors,                  \* local of doPendingFunctors
          lpc,                       \* where the loop's thread is
          cpc,                       \* where each caller is
          queued,                    \* history: the functors queued, in order
          executed                   \* history: the queued functors executed, in order

loopVars == <<m_quit, m_pendingFunctors, m_callingPendingFunctors, wakeupFd, active, functors, lpc, cpc,
              queued, executed>>

LoopLabels == {"new", "test", "poll", "events", "swap", "run", "functor", "done"}

LoopTypeOK ==
  /\ m_quit \in BOOLEAN
  /\ m_pendingFunctors \in Seq(Functor)
  /\ m_callingPendingFunctors \in BOOLEAN
  /\ wakeupFd \in BOOLEAN
  /\ active \in BOOLEAN
  /\ functors \in Seq(Functor)
  /\ lpc \in LoopLabels
  /\ cpc \in [Callers -> {"out", "wakeup"}]
  /\ queued \in Seq(Functor)
  /\ executed \in Seq(Functor)

LoopInit ==
  /\ m_quit = FALSE
  /\ m_pendingFunctors = <<>>
  /\ m_callingPendingFunctors = FALSE
  /\ wakeupFd = FALSE
  /\ active = FALSE
  /\ functors = <<>>
  /\ lpc = "new"
  /\ cpc = [c \in Callers |-> "out"]
  /\ queued = <<>>
  /\ executed = <<>>

Fresh(f) == \A i \in 1..Len(queued) : queued[i] # f

-----------------------------------------------------------------------------
(* loop() clears m_quit; it may be called again after it has returned. *)
LoopStart ==
  /\ lpc \in {"new", "done"}
  /\ m_quit' = FALSE
  /\ lpc' = "test"
  /\ UNCHANGED <<m_pendingFunctors, m_callingPendingFunctors, wakeupFd, active, functors, cpc, queued, executed>>

LoopTest ==
  /\ lpc = "test"
  /\ lpc' = (IF m_quit THEN "done" ELSE "poll")
  /\ UNCHANGED <<m_quit, m_pendingFunctors, m_callingPendingFunctors, wakeupFd, active, functors, cpc,
                 queued, executed>>

(* The poll returns for the wake-up channel, with or without others. *)
PollWoken ==
  /\ lpc = "poll"
  /\ wakeupFd
  /\ active' = TRUE
  /\ lpc' = "events"
  /\ UNCHANGED <<m_quit, m_pendingFunctors, m_callingPendingFunctors, wakeupFd, functors, cpc, queued, executed>>

(* It returns for another channel or after kPollTimeMs. *)
PollOther ==
  /\ lpc = "poll"
  /\ ~wakeupFd
  /\ lpc' = "events"
  /\ UNCHANGED <<m_quit, m_pendingFunctors, m_callingPendingFunctors, wakeupFd, active, functors, cpc,
                 queued, executed>>

(* handleRead of the wake-up channel. *)
HandleRead ==
  /\ lpc = "events"
  /\ active
  /\ wakeupFd' = FALSE
  /\ active' = FALSE
  /\ UNCHANGED <<m_quit, m_pendingFunctors, m_callingPendingFunctors, functors, lpc, cpc, queued, executed>>

(* doPendingFunctors, entered when every active channel has been handled. *)
DoPendingFunctors ==
  /\ lpc = "events"
  /\ ~active
  /\ m_callingPendingFunctors' = TRUE
  /\ lpc' = "swap"
  /\ UNCHANGED <<m_quit, m_pendingFunctors, wakeupFd, active, functors, cpc, queued, executed>>

(* Mutant: the pending functors are copied and not taken out. *)
SwapCopies ==
  /\ lpc = "swap"
  /\ functors' = m_pendingFunctors
  /\ lpc' = "run"
  /\ UNCHANGED <<m_quit, m_pendingFunctors, m_callingPendingFunctors, wakeupFd, active, cpc, queued, executed>>

Swap ==
  /\ lpc = "swap"
  /\ functors' = m_pendingFunctors
  /\ m_pendingFunctors' = <<>>
  /\ lpc' = "run"
  /\ UNCHANGED <<m_quit, m_callingPendingFunctors, wakeupFd, active, cpc, queued, executed>>

RunFunctor ==
  /\ lpc = "run"
  /\ functors # <<>>
  /\ executed' = Append(executed, Head(functors))
  /\ functors' = Tail(functors)
  /\ lpc' = "functor"
  /\ UNCHANGED <<m_quit, m_pendingFunctors, m_callingPendingFunctors, wakeupFd, active, cpc, queued>>

FunctorReturns ==
  /\ lpc = "functor"
  /\ lpc' = "run"
  /\ UNCHANGED <<m_quit, m_pendingFunctors, m_callingPendingFunctors, wakeupFd, active, functors, cpc,
                 queued, executed>>

FunctorsDone ==
  /\ lpc = "run"
  /\ functors = <<>>
  /\ m_callingPendingFunctors' = FALSE
  /\ lpc' = "test"
  /\ UNCHANGED <<m_quit, m_pendingFunctors, wakeupFd, active, functors, cpc, queued, executed>>

(* Mutant: the loop's own thread never wakes its loop. *)
QueueInLoopHereSilent(f) ==
  /\ lpc \in {"events", "functor"} \union (IF EarlyQueue THEN {"new"} ELSE {})
  /\ Fresh(f)
  /\ m_pendingFunctors' = Append(m_pendingFunctors, f)
  /\ queued' = Append(queued, f)
  /\ UNCHANGED <<m_quit, m_callingPendingFunctors, wakeupFd, active, functors, lpc, cpc, executed>>

(* queueInLoop from a callback on the loop's own thread: it wakes the loop    *)
(* only while pending functors are being called.  (runInLoop there just calls *)
(* the functor.)                                                              *)
QueueInLoopHere(f) ==
  /\ lpc \in {"events", "functor"} \union (IF EarlyQueue THEN {"new"} ELSE {})
  /\ Fresh(f)
  /\ m_pendingFunctors' = Append(m_pendingFunctors, f)
  /\ queued' = Append(queued, f)
  /\ wakeupFd' = (wakeupFd \/ m_callingPendingFunctors)
  /\ UNCHANGED <<m_quit, m_callingPendingFunctors, active, functors, lpc, cpc, executed>>

(* quit() from a callback on the loop's own thread. *)
QuitHere ==
  /\ lpc \in {"events", "functor"}
  /\ m_quit' = TRUE
  /\ UNCHANGED <<m_pendingFunctors, m_callingPendingFunctors, wakeupFd, active, functors, lpc, cpc,
                 queued, executed>>

-----------------------------------------------------------------------------
(* queueInLoop and runInLoop from another thread, up to the wakeup(). *)
QueueInLoop(c, f) ==
  /\ cpc[c] = "out"
  /\ Fresh(f)
  /\ m_pendingFunctors' = Append(m_pendingFunctors, f)
  /\ queued' = Append(queued, f)
  /\ cpc' = [cpc EXCEPT ![c] = "wakeup"]
  /\ UNCHANGED <<m_quit, m_callingPendingFunctors, wakeupFd, active, functors, lpc, executed>>

(* Mutant: quit() does not wake the loop. *)
QuitSilent(c) ==
  /\ cpc[c] = "out"
  /\ m_quit' = TRUE
  /\ UNCHANGED <<m_pendingFunctors, m_callingPendingFunctors, wakeupFd, active, functors, lpc, cpc,
                 queued, executed>>

(* quit() from another thread, up to the wakeup(). *)
Quit(c) ==
  /\ cpc[c] = "out"
  /\ m_quit' = TRUE
  /\ cpc' = [cpc EXCEPT ![c] = "wakeup"]
  /\ UNCHANGED <<m_pendingFunctors, m_callingPendingFunctors, wakeupFd, active, functors, lpc, queued, executed>>

Wakeup(c) ==
  /\ cpc[c] = "wakeup"
  /\ wakeupFd' = TRUE
  /\ cpc' = [cpc EXCEPT ![c] = "out"]
  /\ UNCHANGED <<m_quit, m_pendingFunctors, m_callingPendingFunctors, active, functors, lpc, queued, executed>>

-----------------------------------------------------------------------------
(* The steps of loop() once it has been called, except waiting for a channel. *)
LoopStep ==
  \/ LoopTest \/ PollWoken \/ HandleRead \/ DoPendingFunctors
  \/ Swap \/ RunFunctor \/ FunctorReturns \/ FunctorsDone

LoopNext ==
  \/ LoopStart \/ LoopStep \/ PollOther \/ QuitHere
  \/ \E f \in Functor : QueueInLoopHere(f)
  \/ \E c \in Callers : Wakeup(c) \/ Quit(c) \/ (\E f \in Functor : QueueInLoop(c, f))

LoopSpec == LoopInit /\ [][LoopNext]_loopVars

-----------------------------------------------------------------------------
(* A wake-up is under way: written and not yet read, or about to be written. *)
WakeupComing == wakeupFd \/ \E c \in Callers : cpc[c] = "wakeup"

(***************************************************************************)
(* The loop never blocks in poll over a queued functor, or after quit(),   *)
(* without a wake-up on its way (EventLoop.cc:46-111, 135-192): nobody     *)
(* depends on kPollTimeMs, although queueInLoop does not wake the loop     *)
(* when it is called from an event handler.                                *)
(***************************************************************************)
WakeupNotLost == lpc = "poll" /\ (m_pendingFunctors # <<>> \/ m_quit) => WakeupComing

(***************************************************************************)
(* Functors run in the order in which they were queued, none is lost and   *)
(* none is run twice, across any number of batches (EventLoop.cc:98-111,   *)
(* 176-192).                                                               *)
(***************************************************************************)
FunctorsInOrder == executed \o functors \o m_pendingFunctors = queued

(***************************************************************************)
(* Liveness (EventLoop.cc:46-84): a queued functor is executed unless the  *)
(* loop stops or has not been started; quit() on a looping loop ends it.   *)
(***************************************************************************)
Executed(f) == \E i \in 1..Len(executed) : executed[i] = f

QueuedFunctorsRun ==
  \A f \in Functor : ~Fresh(f) /\ lpc \notin {"new", "done"} ~> Executed(f) \/ lpc = "done"

QuitEndsLoop == m_quit /\ lpc \notin {"new", "done"} ~> lpc = "done"
=============================================================================
