----------------------------- MODULE TcpServer -----------------------------
(***************************************************************************)
(* net::TcpServer (src/src/net/TcpServer.cc) and one of its connections:   *)
(* newConnection, the removal of a closed connection through the server's  *)
(* loop, and the destructor.  The server's loop is the connection's IO     *)
(* loop when the server has no threads, and another one otherwise.  The    *)
(* destructor runs when the server's loop has returned and, with threads,  *)
(* ends with the end of the IO loops (~EventLoopThreadPool).               *)
(***************************************************************************)
EXTENDS TcpConnection

VARIABLES oneLoop,        \* the server has no threads of its own
          m_connections,  \* the connection is in m_connections
          removals,       \* removeConnectionInLoop functors queued to the server's loop
          server          \* "new", "open", "gone"

serverVars == <<oneLoop, m_connections, removals, server>>
vars == <<connVars, serverVars>>

Init ==
  /\ ConnectionInit
  /\ oneLoop \in BOOLEAN
  /\ m_connections = FALSE
  /\ removals = 0
  /\ server = "new"

-----------------------------------------------------------------------------
NewConnection ==
  /\ server = "new"
  /\ server' = "open"
  /\ m_connections' = TRUE
  /\ ownerRef' = TRUE
  /\ IF oneLoop
     THEN ipc = "poll" /\ connectEstablished
     ELSE Queue(<<"connectEstablished">>) /\ UNCHANGED <<conn, ipc, ret, users, history>>
  /\ UNCHANGED <<batch, batchHolds, phase, revents, oneLoop, removals>>

(* removeConnectionInLoop *)
Erase ==
  /\ m_connections' = FALSE
  /\ ownerRef' = (removals' > 0)
  /\ Queue(<<"connectDestroyed">>)

(* m_closeCallback: removeConnection, which runs or queues removeConnectionInLoop. *)
CloseCallback ==
  /\ ipc = "close"
  /\ ipc' = "next"
  /\ IF oneLoop
     THEN UNCHANGED removals /\ Erase
     ELSE removals' = removals + 1 /\ ownerRef' = (server = "open") /\ UNCHANGED <<m_connections, m_pending>>
  /\ UNCHANGED <<conn, batch, batchHolds, phase, revents, ret, users, history, oneLoop, server>>

RemoveConnectionInLoop ==
  /\ server = "open"
  /\ removals > 0
  /\ removals' = removals - 1
  /\ Erase
  /\ UNCHANGED <<conn, batch, batchHolds, phase, revents, ipc, ret, users, history, oneLoop, server>>

(* ~TcpServer with threads, up to the end of its body.  The functors left to   *)
(* the server's loop are never run.                                            *)
Destructor ==
  /\ ~oneLoop
  /\ server = "open"
  /\ server' = "gone"
  /\ m_connections' = FALSE
  /\ ownerRef' = FALSE
  /\ IF m_connections THEN Queue(<<"connectDestroyed">>) ELSE UNCHANGED m_pending
  /\ UNCHANGED <<conn, batch, batchHolds, phase, revents, ipc, ret, users, history, oneLoop, removals>>

(* The IO loop has seen quit(): its thread ends, whatever functors are left. *)
IoLoopEnds ==
  /\ server = "gone"
  /\ held = {}
  /\ ipc = "poll"
  /\ ipc' = "ended"
  /\ m_pending' = <<>>
  /\ UNCHANGED <<conn, batch, batchHolds, phase, revents, ret, users, ownerRef, history, serverVars>>

-----------------------------------------------------------------------------
ServerStep == CloseCallback \/ RemoveConnectionInLoop

Next ==
  \/ NewConnection \/ ServerStep \/ Destructor \/ IoLoopEnds
  \/ ConnectionNext /\ UNCHANGED serverVars

Spec == Init /\ [][Next]_vars

(***************************************************************************)
(* Fairness: both loops run, callbacks and calls return, users give their  *)
(* pointers back, and a peer that is sent data keeps taking it.            *)
(***************************************************************************)
FairSpec ==
  /\ Spec
  /\ WF_vars(IoStep /\ UNCHANGED serverVars)
  /\ WF_vars(ServerStep)
  /\ SF_vars((\E evs \in {{"write"}, {"read", "write"}} : Poll(evs)) /\ UNCHANGED serverVars)
  /\ SF_vars(OnWrite /\ wire' # wire /\ UNCHANGED serverVars)
  /\ \A u \in Users : WF_vars(UserFinishes(u) /\ UNCHANGED serverVars)
                   /\ SF_vars(Drop(u) /\ UNCHANGED serverVars)

-----------------------------------------------------------------------------
(***************************************************************************)
(* What the socket has taken followed by what is buffered is exactly what  *)
(* sendInLoop has accepted: no byte is lost, repeated or overtaken, through*)
(* direct writes, partial writes and write events                          *)
(* (TcpConnection.cc:153-187, 233-294).                                    *)
(***************************************************************************)
StreamInOrder == wire \o m_outputBuffer = accepted

(***************************************************************************)
(* The write side of an open connection is shut down only when everything  *)
(* accepted has left (TcpConnection.cc:172-175, 296-304).                  *)
(***************************************************************************)
ShutdownAfterData == wshut /\ downs = 0 => m_outputBuffer = <<>>

(* Both (TcpConnection.cc:153-187, 233-304).                                   *)
OutputIsExact == StreamInOrder /\ ShutdownAfterData

(***************************************************************************)
(* A connection is reported up once and down at most once, however peer    *)
(* close, shutdown and forceClose meet (TcpConnection.cc:105-128, 189-200, *)
(* 315-322).  Two exceptions: a forceClose from another thread that        *)
(* overwrites kDisconnected (see ConnectionDownOnce), and the channel that *)
(* comes back after the destructor of the server (see ChannelNotDangling). *)
(***************************************************************************)
UpThenDownOnce == ups <= 1 /\ (server = "open" /\ ~revived => downs <= ups)

(***************************************************************************)
(* While the server exists, the poller never keeps the channel of a        *)
(* connection that has been freed (TcpConnection.cc:117-128,               *)
(* TcpServer.cc:94-105).  Afterwards it may, until the IO loop ends: a     *)
(* forceClose queued behind the destructor's connectDestroyed adds the     *)
(* channel again, and nobody removes it.                                   *)
(***************************************************************************)
ChannelNotDangling == server = "open" /\ ~Alive => ~m_channel.epoll

(***************************************************************************)
(* Liveness (TcpConnection.cc:93-103, 153-187): a connection that is       *)
(* shutting down shuts its write side or is closed, unless the server is   *)
(* destroyed.                                                              *)
(***************************************************************************)
ShutdownCompletes == m_state = "kDisconnecting" ~> wshut \/ m_state = "kDisconnected" \/ server = "gone"

(***************************************************************************)
(* Liveness (TcpServer.cc:88-105): a closed connection is freed.           *)
(***************************************************************************)
ClosedIsFreed == m_state = "kDisconnected" ~> ~Alive

(* Liveness: both (TcpConnection.cc:93-103, 153-187, TcpServer.cc:88-105).     *)
ClosingCompletes == ShutdownCompletes /\ ClosedIsFreed

-----------------------------------------------------------------------------
(***************************************************************************)
(* What net/README.md:231 says, that send, shutdown and forceClose may be  *)
(* called from any thread, and the code does not keep.                     *)
(***************************************************************************)

(* A connection goes down once. *)
ConnectionDownOnce == downs <= 1

(* A queued call runs on a connection that exists. *)
QueuedCallsFindConnection ==
  ipc = "next" /\ phase = "functors" /\ batch # <<>> => Alive
=============================================================================
