-------------------------- MODULE EventLoopThread --------------------------
(***************************************************************************)
(* net::EventLoopThread (src/src/net/EventLoopThread.cc): a thread that    *)
(* creates an EventLoop on its stack, hands it to its owner through a      *)
(* promise, runs it and destroys it; and the owner, which starts the       *)
(* thread, uses the loop and destroys the EventLoopThread.  The loop is    *)
(* the one of module EventLoop; the owner is one of its callers.           *)
(***************************************************************************)
EXTENDS EventLoop

CONSTANTS Owner,         \* the thread that owns the EventLoopThread
          PromptDestroy  \* whether it may destroy it before the loop is looping

ASSUME OwnerAssumption == Owner \in Callers /\ PromptDestroy \in BOOLEAN

VARIABLES m_loop,  \* m_loop is not null
          tpc,     \* threadFunc: unstarted, construct, promised, looping, exiting, exited
          opc      \* the owner: new, starting, started, quit, wakeup, join, gone

threadVars == <<m_loop, tpc, opc>>
loopThreadVars == <<loopVars, threadVars>>

ThreadInit ==
  /\ LoopInit
  /\ m_loop = FALSE
  /\ tpc = "unstarted"
  /\ opc = "new"

-----------------------------------------------------------------------------
(* startLoop: start the thread, then wait for its promise. *)
StartLoop ==
  /\ opc = "new"
  /\ opc' = "starting"
  /\ tpc' = "construct"
  /\ UNCHANGED <<loopVars, m_loop>>

StartLoopReturn ==
  /\ opc = "starting"
  /\ tpc \notin {"unstarted", "construct"}
  /\ m_loop' = TRUE
  /\ opc' = "started"
  /\ UNCHANGED <<loopVars, tpc>>

(* threadFunc: construct the loop, run the callback, keep the promise. *)
ThreadPromise ==
  /\ tpc = "construct"
  /\ tpc' = "promised"
  /\ UNCHANGED <<loopVars, m_loop, opc>>

ThreadLoop ==
  /\ tpc = "promised"
  /\ LoopStart
  /\ tpc' = "looping"
  /\ UNCHANGED <<m_loop, opc>>

LoopRuns ==
  /\ tpc = "looping"
  /\ LoopStep
  /\ UNCHANGED threadVars

(* Callbacks of the thread: the thread init callback, handlers and functors. *)
LoopCallback ==
  /\ tpc \in {"construct", "looping"}
  /\ PollOther \/ QuitHere \/ (\E f \in Functor : QueueInLoopHere(f))
  /\ UNCHANGED threadVars

(* loop() has returned: m_loop is cleared, then the loop is destroyed. *)
ThreadClear ==
  /\ tpc = "looping"
  /\ lpc = "done"
  /\ m_loop' = FALSE
  /\ tpc' = "exiting"
  /\ UNCHANGED <<loopVars, opc>>

ThreadExit ==
  /\ tpc = "exiting"
  /\ tpc' = "exited"
  /\ UNCHANGED <<loopVars, m_loop, opc>>

-----------------------------------------------------------------------------
(* The owner and the threads it gives the loop to use it until the destructor. *)
UseLoop(c) ==
  /\ opc = "started"
  /\ Wakeup(c) \/ Quit(c) \/ (\E f \in Functor : QueueInLoop(c, f))
  /\ UNCHANGED threadVars

(* ~EventLoopThread: without a loop the thread is detached, otherwise the loop *)
(* is told to quit and the thread is joined.                                   *)
DestructorTest ==
  /\ opc = "started"
  /\ \A c \in Callers : cpc[c] = "out"
  /\ PromptDestroy \/ lpc # "new"
  /\ opc' = (IF m_loop THEN "quit" ELSE "gone")
  /\ UNCHANGED <<loopVars, m_loop, tpc>>

DestructorQuit ==
  /\ opc = "quit"
  /\ Quit(Owner)
  /\ opc' = "wakeup"
  /\ UNCHANGED <<m_loop, tpc>>

DestructorWakeup ==
  /\ opc = "wakeup"
  /\ Wakeup(Owner)
  /\ opc' = "join"
  /\ UNCHANGED <<m_loop, tpc>>

DestructorJoin ==
  /\ opc = "join"
  /\ tpc = "exited"
  /\ opc' = "gone"
  /\ UNCHANGED <<loopVars, m_loop, tpc>>

-----------------------------------------------------------------------------
ThreadStep == ThreadPromise \/ ThreadLoop \/ LoopRuns \/ ThreadClear \/ ThreadExit

OwnerStep == StartLoopReturn \/ DestructorQuit \/ DestructorWakeup \/ DestructorJoin

ThreadNext ==
  \/ ThreadStep \/ LoopCallback
  \/ StartLoop \/ OwnerStep \/ DestructorTest
  \/ \E c \in Callers : UseLoop(c)

ThreadSpec == ThreadInit /\ [][ThreadNext]_loopThreadVars

(* Fairness: both threads run once they have begun; nobody has to use or to *)
(* destroy the loop, and the poll timeout is not relied upon.               *)
ThreadFairSpec ==
  /\ ThreadSpec
  /\ WF_loopThreadVars(ThreadStep)
  /\ WF_loopThreadVars(OwnerStep)
  /\ \A c \in Callers : WF_loopThreadVars(Wakeup(c) /\ UseLoop(c))

-----------------------------------------------------------------------------
(***************************************************************************)
(* Liveness (EventLoopThread.cc:15-42): startLoop returns, and so does the *)
(* destructor: the loop's thread ends.                                     *)
(***************************************************************************)
StartLoopReturns == opc = "starting" ~> opc = "started"

DestructorReturns == opc \in {"quit", "wakeup", "join"} ~> opc = "gone"

(* All the loop owes its users: queued functors run, quit() ends it, and     *)
(* startLoop and the destructor return.                                      *)
LoopResponds == QueuedFunctorsRun /\ QuitEndsLoop /\ StartLoopReturns /\ DestructorReturns
=============================================================================
