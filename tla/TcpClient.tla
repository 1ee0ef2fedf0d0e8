----------------------------- MODULE TcpClient -----------------------------
(***************************************************************************)
(* net::TcpClient (src/src/net/TcpClient.cc) on top of Connector: the      *)
(* connection it owns, reconnection after a close, and the calls of its    *)
(* owner.  connect, disconnect and stop come from another thread, the      *)
(* destructor runs on the loop's thread, outside the connection's own      *)
(* callbacks (TcpClient.cc:54).  The connection is abstracted to its state *)
(* as module TcpConnection has it; one that was removed is not held by     *)
(* users for longer than its connectDestroyed.                             *)
(***************************************************************************)
EXTENDS Connector

CONSTANTS MaxCalls,  \* bound on the owner's calls
          Careful    \* whether connect() meets a connector at rest and stop() no restart

ASSUME ClientAssumption == MaxCalls \in Nat /\ Careful \in BOOLEAN

VARIABLES clientConnect,  \* TcpClient::m_connect
          m_retry,        \* m_retry
          m_connection,   \* m_connection is set
          conn,           \* state of the connection
          connFd,         \* its descriptor
          closeCallback,  \* whom the connection tells of its close
          held,           \* a user holds a pointer to the connection
          client,         \* the client exists
          ucall,          \* where the owner's thread is
          calls,          \* the owner's calls so far
          stopped         \* history: the owner's last wish was stop()

connVars == <<m_connection, conn, connFd, closeCallback, held>>
ownerVars == <<clientConnect, m_retry, client, ucall, calls, stopped>>
vars == <<connectorVars, queueVars, roundVars, lpc, connVars, ownerVars>>

Functors == {"startInLoop", "stopInLoop", "resetChannel", "forceClose", "connectDestroyed"}

TypeOK ==
  /\ {m_connect, failed, clientConnect, m_retry, m_connection, held, client, stopped} \subseteq BOOLEAN
  /\ m_state \in {"kDisconnected", "kConnecting", "kConnected"}
  /\ m_channel \in Fd \union {None} /\ connFd \in Fd \union {None}
  /\ m_retryDelayMs \in InitDelay..MaxDelay
  /\ polled \subseteq Fd /\ open \subseteq Fd
  /\ timers \in 0..MaxTimers /\ due \in 0..timers
  /\ pending \in Seq(Functors) /\ batch \in Seq(Functors)
  /\ phase \in {"poll", "events", "functors"}
  /\ ready \subseteq {"connector", "connection"}
  /\ lpc \in {"idle", "start", "connect", "restart"}
  /\ conn \in {"none", "connected", "disconnecting", "disconnected"}
  /\ closeCallback \in {"client", "loop"}
  /\ ucall \in {"out", "start", "stop"}
  /\ calls \in 0..MaxCalls

Init ==
  /\ ConnectorInit
  /\ clientConnect = TRUE
  /\ m_retry \in BOOLEAN
  /\ m_connection = FALSE /\ conn = "none" /\ connFd = None /\ closeCallback = "client" /\ held = FALSE
  /\ client = TRUE
  /\ ucall = "out" /\ calls = 0 /\ stopped = FALSE

ConnectionOpen == conn \in {"connected", "disconnecting"}

-----------------------------------------------------------------------------
(* The owner's calls; the flags are set before the functor is queued.        *)
AtRest == timers = 0 /\ lpc = "idle" /\ pending = <<>> /\ batch = <<>> /\ m_state = "kDisconnected"

Call(c) == ucall = "out" /\ client /\ calls < MaxCalls /\ calls' = calls + 1 /\ ucall' = c

connect ==
  /\ Call("start")
  /\ Careful => AtRest
  /\ clientConnect' = TRUE /\ m_connect' = TRUE /\ stopped' = FALSE
  /\ UNCHANGED <<m_state, m_channel, m_retryDelayMs, polled, open, timers, failed, queueVars, roundVars, lpc,
                 connVars, m_retry, client>>

stop ==
  /\ Call("stop")
  /\ Careful => lpc # "restart"
  /\ clientConnect' = FALSE /\ m_connect' = FALSE /\ stopped' = TRUE
  /\ UNCHANGED <<m_state, m_channel, m_retryDelayMs, polled, open, timers, failed, queueVars, roundVars, lpc,
                 connVars, m_retry, client>>

CallQueues ==
  /\ ucall # "out"
  /\ Queue(IF ucall = "start" THEN "startInLoop" ELSE "stopInLoop")
  /\ ucall' = "out"
  /\ UNCHANGED <<connectorVars, batch, roundVars, lpc, connVars, clientConnect, m_retry, client, calls,
                 stopped>>

(* disconnect shuts the connection down; the peer closes it in its own time. *)
disconnect ==
  /\ Call("out")
  /\ clientConnect' = FALSE
  /\ conn' = IF m_connection /\ conn = "connected" THEN "disconnecting" ELSE conn
  /\ UNCHANGED <<connectorVars, queueVars, roundVars, lpc, m_connection, connFd, closeCallback, held, m_retry,
                 client, stopped>>

(* connection(), and the end of the pointer's life.  A user that outlives    *)
(* the client gives it back only when the connection is closed.              *)
HoldConnection ==
  /\ \/ ~held /\ m_connection /\ client /\ held' = TRUE
     \/ held /\ (client \/ ~ConnectionOpen) /\ held' = FALSE
  /\ UNCHANGED <<connectorVars, queueVars, roundVars, lpc, m_connection, conn, connFd, closeCallback, ownerVars>>

-----------------------------------------------------------------------------
(* newConnection follows a successful attempt that is still wanted.          *)
newConnection ==
  /\ m_connection' = TRUE
  /\ conn' = "connected"
  /\ connFd' = m_channel
  /\ closeCallback' = "client"
  /\ UNCHANGED held

Connected ==
  /\ AttemptSucceeds
  /\ IF m_connect THEN newConnection ELSE UNCHANGED connVars
  /\ UNCHANGED ownerVars

(* Mutant: a removed connection is not destroyed.                            *)
CloseForgets ==
  /\ conn' = "disconnected"
  /\ m_connection' = FALSE
  /\ lpc' = IF closeCallback = "client" /\ m_retry /\ clientConnect THEN "restart" ELSE "idle"
  /\ UNCHANGED <<pending, connFd, closeCallback, held>>

(* TcpConnection::handleClose as far as the client sees it: removeConnection *)
(* up to restart, or the callback the destructor has put in its place.       *)
handleClose ==
  /\ conn' = "disconnected"
  /\ Queue("connectDestroyed")
  /\ m_connection' = FALSE
  /\ lpc' = IF closeCallback = "client" /\ m_retry /\ clientConnect THEN "restart" ELSE "idle"
  /\ UNCHANGED <<connFd, closeCallback, held>>

PeerCloses ==
  /\ phase = "events" /\ lpc = "idle"
  /\ "connection" \in ready
  /\ ready' = ready \ {"connection"}
  /\ IF ConnectionOpen THEN handleClose ELSE UNCHANGED <<pending, lpc, connVars>>
  /\ UNCHANGED <<connectorVars, batch, phase, due, ownerVars>>

RunForceClose ==
  /\ Takes("forceClose")
  /\ IF ConnectionOpen THEN handleClose ELSE UNCHANGED <<pending, lpc, connVars>>
  /\ UNCHANGED <<connectorVars, roundVars, ownerVars>>

RunDestroyed ==
  /\ Takes("connectDestroyed")
  /\ conn' = "none" /\ connFd' = None /\ held' = FALSE
  /\ open' = open \ {connFd}
  /\ UNCHANGED <<m_connect, m_state, m_channel, m_retryDelayMs, polled, timers, failed, pending, roundVars, lpc,
                 m_connection, closeCallback, ownerVars>>

(* ~TcpClient.  It must not meet a start that is still queued while it has a *)
(* connection: that functor is bound to the bare connector.                  *)
Destructor ==
  /\ client /\ ucall = "out" /\ lpc = "idle"
  /\ m_connection => ~Queued("startInLoop")
  /\ client' = FALSE
  /\ m_connection' = FALSE
  /\ IF m_connection
     THEN /\ closeCallback' = "loop"
          /\ IF held THEN UNCHANGED <<conn, pending>> ELSE conn' = "disconnecting" /\ Queue("forceClose")
          /\ UNCHANGED m_connect
     ELSE /\ m_connect' = FALSE
          /\ Queue("stopInLoop")
          /\ UNCHANGED <<closeCallback, conn>>
  /\ UNCHANGED <<m_state, m_channel, m_retryDelayMs, polled, open, timers, failed, batch, roundVars, lpc, connFd,
                 held, clientConnect, m_retry, ucall, calls, stopped>>

-----------------------------------------------------------------------------
ConnectorStep ==
  /\ \/ StartBatch \/ EndBatch
     \/ RunStart \/ RunTimer \/ RestartTest \/ Connect \/ RunReset \/ RunStop \/ AttemptFails \/ Restart
  /\ UNCHANGED <<connVars, ownerVars>>

PollStep ==
  /\ \E extra \in SUBSET (IF ConnectionOpen THEN {"connection"} ELSE {}) : Poll(extra)
  /\ UNCHANGED <<connVars, ownerVars>>

LoopStep == ConnectorStep \/ PollStep \/ Connected \/ PeerCloses \/ RunForceClose \/ RunDestroyed

OwnerCalls == connect \/ stop \/ disconnect

Next == LoopStep \/ OwnerCalls \/ CallQueues \/ HoldConnection \/ Destructor

Spec == Init /\ [][Next]_vars

(* The loop runs, calls return, a pending timer or a settled attempt is      *)
(* reported eventually, and the peer answers in the end.                     *)
FairSpec ==
  /\ Spec
  /\ WF_vars(LoopStep) /\ WF_vars(CallQueues)
  /\ SF_vars(PollStep /\ due' > 0)
  /\ SF_vars(PollStep /\ "connector" \in ready')
  /\ SF_vars(ConnectorStep /\ m_state' = "kConnecting")
  /\ SF_vars(Connected)

-----------------------------------------------------------------------------
(***************************************************************************)
(* The poller never keeps a channel that m_channel no longer owns, although *)
(* resetChannel destroys whatever m_channel holds when its functor runs    *)
(* (Connector.cc:136-162).  It takes a careful owner.                      *)
(***************************************************************************)
ChannelNotDangling == polled \subseteq {m_channel}

(***************************************************************************)
(* Every open descriptor belongs to the attempt or to the connection, and  *)
(* each of those has its descriptor: attempts that fail, are stopped or    *)
(* succeed unwanted are closed, none is overwritten by the next            *)
(* (Connector.cc:73-83, 164-239, TcpClient.cc:97-143).                     *)
(***************************************************************************)
NoDescriptorLeak ==
  open = (IF m_state = "kConnecting" THEN {m_channel} ELSE {}) \union (IF conn = "none" THEN {} ELSE {connFd})

(***************************************************************************)
(* After stop() no attempt stays under way, be it begun by a start that    *)
(* was queued or a retry that was due: the stop's functor is still to come *)
(* (Connector.cc:49-83, 216-239).                                          *)
(***************************************************************************)
StopIsFinal ==
  stopped /\ m_state = "kConnecting" => ucall = "stop" \/ Queued("stopInLoop")

(***************************************************************************)
(* Calls bound to the bare connector find it: while its start is queued or *)
(* its channel polled, the client, a functor or a timer keeps it           *)
(* (Connector.cc:31, 69, 141-155, 229).                                    *)
(***************************************************************************)
RawCallsFindConnector ==
  Queued("startInLoop") \/ polled # {} =>
    client \/ Queued("stopInLoop") \/ Queued("resetChannel") \/ timers > 0

(***************************************************************************)
(* Nothing in the client's loop points at what is gone: neither the poller *)
(* at a channel, nor a functor or a channel's callback at the connector    *)
(* (Connector.cc:28-32, 69, 136-162, 229, TcpClient.cc:38-68).             *)
(***************************************************************************)
NothingDangles == ChannelNotDangling /\ RawCallsFindConnector

(***************************************************************************)
(* A connection whose client is gone is being closed, or somebody holds it *)
(* (TcpClient.cc:38-68).                                                   *)
(***************************************************************************)
OrphanIsClosing == ~client /\ ConnectionOpen => held \/ Queued("forceClose")

(***************************************************************************)
(* A client that wants a connection, for the first time or after losing    *)
(* one, gets it, unless it is stopped, destroyed or meets an error that is *)
(* not retried (Connector.cc:85-134, 216-239, TcpClient.cc:137-142).       *)
(***************************************************************************)
KeepsTrying ==
  (m_connect /\ m_state # "kConnected") \/ lpc = "restart"
    ~> (m_state = "kConnected" /\ lpc # "restart") \/ ~m_connect \/ failed \/ ~client

(***************************************************************************)
(* A closed connection is destroyed, and so is one its client leaves alone *)
(* (TcpClient.cc:9-12, 49-61, 137).                                        *)
(***************************************************************************)
ConnectionIsFreed == conn = "disconnected" \/ (~client /\ ConnectionOpen /\ ~held) ~> conn = "none"
=============================================================================
