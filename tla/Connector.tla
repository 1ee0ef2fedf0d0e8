----------------------------- MODULE Connector -----------------------------
(***************************************************************************)
(* net::Connector (src/src/net/Connector.cc) on its loop: an attempt to    *)
(* connect, its retries with a growing delay, and the owner that starts    *)
(* and stops it from another thread.  Channel objects are named by their   *)
(* descriptor, and the kernel hands out the lowest free one.  A retry is a *)
(* timer of module TimerManager; here a poll reports how many are due, and *)
(* one set in a round is not due in that round.  Who takes over the        *)
(* connection (TcpClient) is added by the module that extends this one.    *)
(***************************************************************************)
EXTENDS Integers, Sequences, FiniteSets

CONSTANTS Fd,         \* bound: descriptors
          InitDelay,  \* kInitRetryDelayMs
          MaxDelay,   \* kMaxRetryDelayMs
          MaxTimers   \* bound on pending retry timers

ASSUME ConnectorAssumption ==
  /\ Fd \subseteq Nat \ {0}
  /\ InitDelay \in Nat \ {0} /\ MaxDelay \in Nat /\ InitDelay <= MaxDelay
  /\ MaxTimers \in Nat \ {0}

None == 0

VARIABLES m_connect,       \* m_connect
          m_state,         \* m_state
          m_channel,       \* None, or the channel m_channel owns
          m_retryDelayMs,  \* m_retryDelayMs
          polled,          \* channels registered in the poller
          open,            \* descriptors open
          timers,          \* retry timers pending
          failed,          \* history: an attempt met an error that is not retried
          pending,         \* functors queued to the loop
          batch,           \* functors of the running batch still to run
          phase,           \* what the loop does: "poll", "events" or "functors"
          ready,           \* events still to dispatch in this round
          due,             \* retry timers still to run in this round
          lpc              \* where the loop's thread is inside a call

connectorVars == <<m_connect, m_state, m_channel, m_retryDelayMs, polled, open, timers, failed>>
queueVars == <<pending, batch>>
roundVars == <<phase, ready, due>>

ConnectorInit ==
  /\ m_connect = FALSE
  /\ m_state = "kDisconnected"
  /\ m_channel = None
  /\ m_retryDelayMs = InitDelay
  /\ polled = {} /\ open = {}
  /\ timers = 0
  /\ failed = FALSE
  /\ pending = <<>> /\ batch = <<>>
  /\ phase = "poll" /\ ready = {} /\ due = 0
  /\ lpc = "idle"

In(s, x) == \E i \in DOMAIN s : s[i] = x
Queued(x) == In(pending, x) \/ In(batch, x)
Queue(x) == pending' = Append(pending, x)

-----------------------------------------------------------------------------
(* What the functions below do to the connector's variables.                 *)

(* The delay of the next retry.                                              *)
Backoff == m_retryDelayMs' = IF 2 * m_retryDelayMs < MaxDelay THEN 2 * m_retryDelayMs ELSE MaxDelay

(* Mutant: a failed attempt is not retried.                                  *)
RetryNever(s) ==
  /\ open' = open \ {s}
  /\ m_state' = "kDisconnected"
  /\ UNCHANGED <<timers, m_retryDelayMs>>

(* Mutant: the descriptor stays open.                                        *)
RetryLeaks(s) ==
  /\ m_state' = "kDisconnected"
  /\ IF m_connect
     THEN timers < MaxTimers /\ timers' = timers + 1 /\ Backoff
     ELSE UNCHANGED <<timers, m_retryDelayMs>>
  /\ UNCHANGED open

retry(s) ==
  /\ open' = open \ {s}
  /\ m_state' = "kDisconnected"
  /\ IF m_connect
     THEN timers < MaxTimers /\ timers' = timers + 1 /\ Backoff
     ELSE UNCHANGED <<timers, m_retryDelayMs>>

(* Mutant: the channel is not removed from the poller.                       *)
ChannelStays ==
  /\ UNCHANGED polled
  /\ Queue("resetChannel")

(* The channel leaves the poller now and is destroyed by a functor.          *)
removeAndResetChannel ==
  /\ polled' = polled \ {m_channel}
  /\ Queue("resetChannel")

-----------------------------------------------------------------------------
(* The loop polls: the attempt's channel is reported in any state of the     *)
(* poller, extra names the events of the module that extends this one.       *)
Poll(extra) ==
  /\ phase = "poll" /\ lpc = "idle"
  /\ \E socket \in SUBSET (IF polled = {} THEN {} ELSE {"connector"}), d \in 0..timers :
       /\ ready' = socket \union extra
       /\ due' = d
       /\ socket # {} \/ extra # {} \/ d > 0 \/ pending # <<>>
  /\ phase' = "events"
  /\ UNCHANGED <<connectorVars, queueVars, lpc>>

StartBatch ==
  /\ phase = "events" /\ lpc = "idle" /\ ready = {} /\ due = 0
  /\ phase' = "functors"
  /\ batch' = pending
  /\ pending' = <<>>
  /\ UNCHANGED <<connectorVars, ready, due, lpc>>

EndBatch ==
  /\ phase = "functors" /\ lpc = "idle" /\ batch = <<>>
  /\ phase' = "poll"
  /\ UNCHANGED <<connectorVars, queueVars, ready, due, lpc>>

(* The next functor of the batch is x.                                       *)
Takes(x) ==
  /\ phase = "functors" /\ lpc = "idle"
  /\ batch # <<>> /\ Head(batch) = x
  /\ batch' = Tail(batch)

-----------------------------------------------------------------------------
(* Mutant: whether the attempt is still wanted is not tested.                *)
StartUntested == lpc' = IF m_state = "kDisconnected" THEN "connect" ELSE "idle"

(* startInLoop, run by a functor, a timer or restart; m_connect is read      *)
(* again by what follows.                                                    *)
StartTest == lpc' = IF m_state = "kDisconnected" /\ m_connect THEN "connect" ELSE "idle"

RunStart ==
  /\ Takes("startInLoop")
  /\ StartTest
  /\ UNCHANGED <<connectorVars, pending, roundVars>>

RunTimer ==
  /\ phase = "events" /\ lpc = "idle" /\ due > 0
  /\ due' = due - 1
  /\ timers' = timers - 1
  /\ StartTest
  /\ UNCHANGED <<m_connect, m_state, m_channel, m_retryDelayMs, polled, open, failed, queueVars, phase,
                 ready>>

RestartTest ==
  /\ lpc = "start"
  /\ StartTest
  /\ UNCHANGED <<connectorVars, queueVars, roundVars>>

(* connect: the attempt is under way, is to be retried, or is hopeless.      *)
Connect ==
  /\ lpc = "connect"
  /\ lpc' = "idle"
  /\ \/ \E s \in Fd \ open :
          /\ \A r \in Fd \ open : s <= r
          /\ open' = open \union {s}
          /\ m_state' = "kConnecting"
          /\ m_channel' = s
          /\ polled' = polled \union {s}
          /\ UNCHANGED <<m_connect, m_retryDelayMs, timers, failed>>
     \/ /\ retry(None)
        /\ UNCHANGED <<m_connect, m_channel, polled, failed>>
     \/ /\ failed' = TRUE
        /\ UNCHANGED <<m_connect, m_state, m_channel, m_retryDelayMs, polled, open, timers>>
  /\ UNCHANGED <<queueVars, roundVars>>

RunReset ==
  /\ Takes("resetChannel")
  /\ m_channel' = None
  /\ UNCHANGED <<m_connect, m_state, m_retryDelayMs, polled, open, timers, failed, pending, roundVars, lpc>>

RunStop ==
  /\ Takes("stopInLoop")
  /\ IF m_state = "kConnecting"
     THEN /\ retry(m_channel)
          /\ removeAndResetChannel
     ELSE UNCHANGED <<open, m_state, timers, m_retryDelayMs, polled, pending>>
  /\ UNCHANGED <<m_connect, m_channel, failed, roundVars, lpc>>

(* handleWrite that finds an error or a self-connection, and handleError.    *)
AttemptFails ==
  /\ phase = "events" /\ lpc = "idle"
  /\ "connector" \in ready
  /\ ready' = ready \ {"connector"}
  /\ m_state = "kConnecting"
  /\ retry(m_channel)
  /\ removeAndResetChannel
  /\ UNCHANGED <<m_connect, m_channel, failed, batch, phase, due, lpc>>

(* handleWrite on an established connection: it is handed over or closed.    *)
AttemptSucceeds ==
  /\ phase = "events" /\ lpc = "idle"
  /\ "connector" \in ready
  /\ ready' = ready \ {"connector"}
  /\ m_state = "kConnecting"
  /\ m_state' = "kConnected"
  /\ removeAndResetChannel
  /\ open' = IF m_connect THEN open ELSE open \ {m_channel}
  /\ UNCHANGED <<m_connect, m_channel, m_retryDelayMs, timers, failed, batch, phase, due, lpc>>

(* restart, up to startInLoop.                                               *)
Restart ==
  /\ lpc = "restart"
  /\ m_state' = "kDisconnected"
  /\ m_retryDelayMs' = InitDelay
  /\ m_connect' = TRUE
  /\ lpc' = "start"
  /\ UNCHANGED <<m_channel, polled, open, timers, failed, queueVars, roundVars>>
=============================================================================
