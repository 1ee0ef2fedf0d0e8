--------------------------- MODULE TcpConnection ---------------------------
(***************************************************************************)
(* net::TcpConnection (src/src/net/TcpConnection.cc) on its IO loop: the   *)
(* connection's state, its channel and output buffer, the functors queued  *)
(* to the loop, user callbacks on the loop's thread, and users on other    *)
(* threads that send, shut down and force-close.  Who creates and removes  *)
(* the connection (TcpServer) is added by the module that extends this     *)
(* one: it makes the steps from "close" and maintains ownerRef.            *)
(*                                                                         *)
(* The loop runs functors in batches in the order of queueing, as module   *)
(* EventLoop shows.  A batch keeps its functors, and the shared pointers   *)
(* bound to them, until its end.  sendInLoop and shutdownInLoop are bound  *)
(* to the bare this.                                                       *)
(***************************************************************************)
EXTENDS Naturals, Sequences, Channel

CONSTANTS Users,          \* threads other than the IO loop's
          Message,        \* messages, each sent at most once
          MsgLen,         \* length of a message
          HighWaterMark,  \* m_highWaterMark
          MaxForceClose,  \* bound on the calls of forceClose
          HoldRef         \* whether users keep their pointer until their calls have taken effect

ASSUME ConnectionAssumption ==
  MsgLen \in Nat \ {0} /\ HighWaterMark \in Nat /\ MaxForceClose \in Nat /\ HoldRef \in BOOLEAN

VARIABLES m_state,         \* m_state
          m_channel,       \* m_channel, with its place in the poller
          m_outputBuffer,  \* m_outputBuffer
          wire,            \* what the socket has taken
          wshut,           \* the write side of the socket is shut down
          m_pending,       \* functors queued to the loop
          batch,           \* functors of the running batch still to run
          batchHolds,      \* the running batch holds a pointer to the connection
          phase,           \* the loop dispatches events or runs functors
          revents,         \* events still to dispatch to the channel
          ipc,             \* where the IO thread is
          ret,             \* where it goes when the running callback returns
          upc,             \* where each user is
          held,            \* users holding a pointer to the connection
          ownerRef,        \* the owner, or a functor of its loop, holds one
          sent, forces,    \* history: messages given to send(), calls of forceClose
          accepted,        \* history: what sendInLoop has taken, in order
          ups, downs,      \* history: connection callbacks, by what connected() returned
          revived          \* history: forceClose has overwritten kDisconnected

conn == <<m_state, m_channel, m_outputBuffer, wire, wshut>>
loop == <<m_pending, batch, batchHolds, phase, revents, ipc, ret>>
users == <<upc, held>>
history == <<sent, forces, accepted, ups, downs, revived>>
connVars == <<conn, loop, users, ownerRef, history>>

Chunk == Message \X (1..MsgLen)
Bytes(m) == [i \in 1..MsgLen |-> <<m, i>>]

Raw == {<<"sendInLoop", m>> : m \in Message} \union {<<"shutdownInLoop">>}
Holding == {<<"connectEstablished">>, <<"connectDestroyed">>, <<"forceCloseInLoop">>, <<"callback">>}
Functors == Raw \union Holding
UserLabels == {<<"out">>, <<"shutdown">>, <<"forceClose">>} \union {<<"send", m>> : m \in Message}

TypeOK ==
  /\ m_state \in {"kDisconnected", "kConnecting", "kConnected", "kDisconnecting"}
  /\ m_channel \in Channels
  /\ m_outputBuffer \in Seq(Chunk) /\ wire \in Seq(Chunk) /\ accepted \in Seq(Chunk)
  /\ wshut \in BOOLEAN
  /\ m_pending \in Seq(Functors) /\ batch \in Seq(Functors)
  /\ batchHolds \in BOOLEAN
  /\ phase \in {"events", "functors"}
  /\ revents \subseteq {"close", "read", "write"}
  /\ ipc \in {"poll", "next", "callback", "close", "destroy", "remove", "ended"}
  /\ ret \in {"next", "close", "remove"}
  /\ upc \in [Users -> UserLabels]
  /\ held \subseteq Users
  /\ ownerRef \in BOOLEAN /\ revived \in BOOLEAN
  /\ sent \subseteq Message
  /\ forces \in Nat /\ ups \in Nat /\ downs \in Nat

ConnectionInit ==
  /\ m_state = "kConnecting"
  /\ m_channel = NewChannel
  /\ m_outputBuffer = <<>> /\ wire = <<>> /\ wshut = FALSE
  /\ m_pending = <<>> /\ batch = <<>> /\ batchHolds = FALSE
  /\ phase = "events" /\ revents = {} /\ ipc = "poll" /\ ret = "next"
  /\ upc = [u \in Users |-> <<"out">>] /\ held = {}
  /\ ownerRef = FALSE
  /\ sent = {} /\ forces = 0 /\ accepted = <<>> /\ ups = 0 /\ downs = 0 /\ revived = FALSE

In(s, x) == \E i \in 1..Len(s) : s[i] = x
Holds(s) == \E x \in Holding : In(s, x)
RawPending == \E x \in Raw : In(m_pending, x) \/ In(batch, x)

(* Some shared_ptr to the connection exists. *)
Alive ==
  \/ ownerRef \/ held # {} \/ batchHolds \/ Holds(m_pending)
  \/ ipc \in {"callback", "close", "destroy", "remove"} \/ revents # {}

Queue(x) == m_pending' = Append(m_pending, x)

-----------------------------------------------------------------------------
(* The loop: poll, dispatch, then a batch of functors. *)

(* The poll reports events of the connection's channel, or the wake-up alone.  *)
(* POLLHUP comes whatever the channel asks for, and only without POLLIN is it a *)
(* close.                                                                       *)
Poll(evs) ==
  /\ ipc = "poll"
  /\ evs = {} => m_pending # <<>>
  /\ evs # {} => m_channel.epoll /\ Alive
  /\ evs \ {"close"} \subseteq m_channel.m_events
  /\ ~({"close", "read"} \subseteq evs)
  /\ revents' = evs
  /\ ipc' = "next"
  /\ UNCHANGED <<conn, m_pending, batch, batchHolds, phase, ret, users, ownerRef, history>>

(* doPendingFunctors follows the handlers of every poll. *)
StartBatch ==
  /\ ipc = "next"
  /\ phase = "events"
  /\ revents = {}
  /\ batch' = m_pending
  /\ batchHolds' = Holds(m_pending)
  /\ m_pending' = <<>>
  /\ phase' = "functors"
  /\ UNCHANGED <<conn, revents, ipc, ret, users, ownerRef, history>>

EndBatch ==
  /\ ipc = "next"
  /\ phase = "functors"
  /\ batch = <<>>
  /\ batchHolds' = FALSE
  /\ phase' = "events"
  /\ ipc' = "poll"
  /\ UNCHANGED <<conn, m_pending, batch, revents, ret, users, ownerRef, history>>

(* The IO thread dispatches event e: close before read before write. *)
Dispatch(e) ==
  /\ ipc = "next"
  /\ phase = "events"
  /\ e \in revents
  /\ e = "read" => "close" \notin revents
  /\ e = "write" => revents = {"write"}
  /\ revents' = revents \ {e}
  /\ UNCHANGED <<batch, batchHolds, phase>>

(* The IO thread runs functor x of the batch; a functor bound to a bare this   *)
(* needs the connection to exist.                                              *)
Run(x) ==
  /\ ipc = "next"
  /\ phase = "functors"
  /\ batch # <<>>
  /\ Head(batch) = x
  /\ x \in Raw => Alive
  /\ batch' = Tail(batch)
  /\ UNCHANGED <<batchHolds, phase, revents>>

Callback(r) == ipc' = "callback" /\ ret' = r

-----------------------------------------------------------------------------
(* Pieces of handlers. *)

shutdownInLoop == wshut' = (wshut \/ ~isWriting(m_channel))

(* Mutant: the whole message is buffered although part of it was written. *)
sendInLoopDuplicates(m) ==
  \/ /\ m_state = "kDisconnected"
     /\ UNCHANGED <<m_outputBuffer, m_channel, wire, accepted, m_pending>>
  \/ /\ m_state # "kDisconnected"
     /\ \E k \in 0..MsgLen :
          LET rest == IF k = MsgLen THEN <<>> ELSE Bytes(m)
          IN /\ k > 0 => ~isWriting(m_channel) /\ m_outputBuffer = <<>> /\ ~wshut
             /\ wire' = wire \o SubSeq(Bytes(m), 1, k)
             /\ accepted' = accepted \o Bytes(m)
             /\ m_outputBuffer' = m_outputBuffer \o rest
             /\ m_channel' = IF rest # <<>> /\ ~isWriting(m_channel) THEN enableWriting(m_channel) ELSE m_channel
             /\ IF k = MsgLen THEN Queue(<<"callback">>) ELSE UNCHANGED m_pending

(* sendInLoop: nothing on a closed connection; otherwise k bytes are written at *)
(* once if nothing is buffered (0 when the socket would block), the rest is     *)
(* buffered and the channel asked for write events; EPIPE and ECONNRESET drop   *)
(* the message.                                                                 *)
sendInLoop(m) ==
  LET idle == ~isWriting(m_channel) /\ m_outputBuffer = <<>>
      Kept(k) ==
        LET rest == SubSeq(Bytes(m), k + 1, MsgLen)
            len  == Len(m_outputBuffer) + Len(rest)
        IN /\ wire' = wire \o SubSeq(Bytes(m), 1, k)
           /\ accepted' = accepted \o Bytes(m)
           /\ m_outputBuffer' = m_outputBuffer \o rest
           /\ m_channel' = IF rest # <<>> /\ ~isWriting(m_channel) THEN enableWriting(m_channel) ELSE m_channel
           /\ IF k = MsgLen \/ (len >= HighWaterMark /\ Len(m_outputBuffer) < HighWaterMark)
              THEN Queue(<<"callback">>)
              ELSE UNCHANGED m_pending
  IN \/ /\ m_state = "kDisconnected" \/ idle
        /\ UNCHANGED <<m_outputBuffer, m_channel, wire, accepted, m_pending>>
     \/ /\ m_state # "kDisconnected" /\ idle /\ ~wshut
        /\ \E k \in 0..MsgLen : Kept(k)
     \/ /\ m_state # "kDisconnected" /\ ~idle
        /\ Kept(0)

(* handleClose, up to its connection callback. *)
handleClose ==
  /\ m_state' = "kDisconnected"
  /\ m_channel' = disableAll(m_channel)
  /\ downs' = downs + 1
  /\ Callback("close")
  /\ UNCHANGED <<m_outputBuffer, wire, wshut, m_pending, sent, forces, accepted, ups, revived>>

-----------------------------------------------------------------------------
(* Handlers of the channel. *)

OnClose == Dispatch("close") /\ handleClose /\ UNCHANGED <<users, ownerRef>>

(* handleRead: data, end of file, or an error that is only logged. *)
OnRead ==
  /\ Dispatch("read")
  /\ \/ Callback("next") /\ UNCHANGED <<conn, m_pending, history>>
     \/ handleClose
     \/ UNCHANGED <<conn, m_pending, ipc, ret, history>>
  /\ UNCHANGED <<users, ownerRef>>

(* Mutant: the write side is not shut down when the buffer has drained. *)
OnWriteForgetsShutdown ==
  /\ Dispatch("write")
  /\ \/ /\ isWriting(m_channel)
        /\ \E n \in 1..Len(m_outputBuffer) :
             /\ wire' = wire \o SubSeq(m_outputBuffer, 1, n)
             /\ m_outputBuffer' = SubSeq(m_outputBuffer, n + 1, Len(m_outputBuffer))
             /\ IF n = Len(m_outputBuffer)
                THEN m_channel' = disableWriting(m_channel) /\ Queue(<<"callback">>)
                ELSE UNCHANGED <<m_channel, m_pending>>
        /\ UNCHANGED <<m_state, wshut>>
     \/ UNCHANGED <<conn, m_pending>>
  /\ UNCHANGED <<ipc, ret, users, ownerRef, history>>

(* handleWrite: n bytes of the buffer are written; once it is empty the channel *)
(* stops asking, the write-complete callback is queued and a connection being   *)
(* shut down shuts its write side.  Without write interest, or on an error, it  *)
(* does nothing.                                                                *)
OnWrite ==
  /\ Dispatch("write")
  /\ \/ /\ isWriting(m_channel)
        /\ \E n \in 1..Len(m_outputBuffer) :
             /\ wire' = wire \o SubSeq(m_outputBuffer, 1, n)
             /\ m_outputBuffer' = SubSeq(m_outputBuffer, n + 1, Len(m_outputBuffer))
             /\ IF n = Len(m_outputBuffer)
                THEN /\ m_channel' = disableWriting(m_channel)
                     /\ Queue(<<"callback">>)
                     /\ wshut' = (wshut \/ m_state = "kDisconnecting")
                ELSE UNCHANGED <<m_channel, m_pending, wshut>>
        /\ UNCHANGED m_state
     \/ UNCHANGED <<conn, m_pending>>
  /\ UNCHANGED <<ipc, ret, users, ownerRef, history>>

-----------------------------------------------------------------------------
(* Functors. *)

connectEstablished ==
  /\ m_state' = "kConnected"
  /\ m_channel' = enableReading(m_channel)
  /\ held' = Users
  /\ ups' = ups + 1
  /\ Callback("next")
  /\ UNCHANGED <<m_outputBuffer, wire, wshut, m_pending, upc, sent, forces, accepted, downs, revived>>

RunEstablished == Run(<<"connectEstablished">>) /\ connectEstablished /\ UNCHANGED ownerRef

RunSend(m) ==
  /\ Run(<<"sendInLoop", m>>)
  /\ sendInLoop(m)
  /\ UNCHANGED <<m_state, wshut, ipc, ret, users, ownerRef, sent, forces, ups, downs, revived>>

RunShutdown ==
  /\ Run(<<"shutdownInLoop">>)
  /\ shutdownInLoop
  /\ UNCHANGED <<m_state, m_channel, m_outputBuffer, wire, m_pending, ipc, ret, users, ownerRef, history>>

(* Mutant: forceCloseInLoop does not look at the state. *)
RunForceCloseAlways ==
  /\ Run(<<"forceCloseInLoop">>)
  /\ handleClose
  /\ UNCHANGED <<users, ownerRef>>

RunForceClose ==
  /\ Run(<<"forceCloseInLoop">>)
  /\ \/ m_state \in {"kConnected", "kDisconnecting"} /\ handleClose
     \/ m_state \notin {"kConnected", "kDisconnecting"} /\ UNCHANGED <<conn, m_pending, ipc, ret, history>>
  /\ UNCHANGED <<users, ownerRef>>

(* A write-complete or high-water-mark callback. *)
RunCallback ==
  /\ Run(<<"callback">>)
  /\ Callback("next")
  /\ UNCHANGED <<conn, m_pending, users, ownerRef, history>>

(* connectDestroyed: the test of the state, then its branch, then the removal. *)
RunDestroyed ==
  /\ Run(<<"connectDestroyed">>)
  /\ ipc' = (IF m_state = "kConnected" THEN "destroy" ELSE "remove")
  /\ UNCHANGED <<conn, m_pending, ret, users, ownerRef, history>>

Destroy ==
  /\ ipc = "destroy"
  /\ m_state' = "kDisconnected"
  /\ m_channel' = disableAll(m_channel)
  /\ downs' = downs + 1
  /\ Callback("remove")
  /\ UNCHANGED <<m_outputBuffer, wire, wshut, m_pending, batch, batchHolds, phase, revents, users, ownerRef,
                 sent, forces, accepted, ups, revived>>

(* Mutant: the channel stays with the poller. *)
RemoveChannelForgotten ==
  /\ ipc = "remove"
  /\ ipc' = "next"
  /\ UNCHANGED <<conn, m_pending, batch, batchHolds, phase, revents, ret, users, ownerRef, history>>

RemoveChannel ==
  /\ ipc = "remove"
  /\ m_channel' = removeChannel(m_channel)
  /\ ipc' = "next"
  /\ UNCHANGED <<m_state, m_outputBuffer, wire, wshut, m_pending, batch, batchHolds, phase, revents, ret,
                 users, ownerRef, history>>

-----------------------------------------------------------------------------
(* User callbacks on the IO thread: what they may call, and their return. *)

SendHere(m) ==
  /\ ipc = "callback"
  /\ m \notin sent
  /\ m_state = "kConnected"
  /\ sent' = sent \union {m}
  /\ sendInLoop(m)
  /\ UNCHANGED <<m_state, wshut, batch, batchHolds, phase, revents, ipc, ret, users, ownerRef, forces, ups,
                 downs, revived>>

ShutdownHere ==
  /\ ipc = "callback"
  /\ m_state = "kConnected"
  /\ m_state' = "kDisconnecting"
  /\ shutdownInLoop
  /\ UNCHANGED <<m_channel, m_outputBuffer, wire, loop, users, ownerRef, history>>

ForceCloseHere ==
  /\ ipc = "callback"
  /\ forces < MaxForceClose
  /\ m_state \in {"kConnected", "kDisconnecting"}
  /\ m_state' = "kDisconnecting"
  /\ forces' = forces + 1
  /\ Queue(<<"forceCloseInLoop">>)
  /\ UNCHANGED <<m_channel, m_outputBuffer, wire, wshut, batch, batchHolds, phase, revents, ipc, ret, users,
                 ownerRef, sent, accepted, ups, downs, revived>>

CallbackReturns ==
  /\ ipc = "callback"
  /\ ipc' = ret
  /\ UNCHANGED <<conn, m_pending, batch, batchHolds, phase, revents, ret, users, ownerRef, history>>

-----------------------------------------------------------------------------
(* Users on other threads: the test or update of m_state, then the queueing. *)

Send(u, m) ==
  /\ u \in held /\ upc[u] = <<"out">>
  /\ m \notin sent
  /\ m_state = "kConnected"
  /\ sent' = sent \union {m}
  /\ upc' = [upc EXCEPT ![u] = <<"send", m>>]
  /\ UNCHANGED <<conn, loop, held, ownerRef, forces, accepted, ups, downs, revived>>

Shutdown(u) ==
  /\ u \in held /\ upc[u] = <<"out">>
  /\ m_state = "kConnected"
  /\ m_state' = "kDisconnecting"
  /\ upc' = [upc EXCEPT ![u] = <<"shutdown">>]
  /\ UNCHANGED <<m_channel, m_outputBuffer, wire, wshut, loop, held, ownerRef, history>>

ForceClose(u) ==
  /\ u \in held /\ upc[u] = <<"out">>
  /\ forces < MaxForceClose
  /\ m_state \in {"kConnected", "kDisconnecting"}
  /\ forces' = forces + 1
  /\ upc' = [upc EXCEPT ![u] = <<"forceClose">>]
  /\ UNCHANGED <<conn, loop, held, ownerRef, sent, accepted, ups, downs, revived>>

SendQueue(u) ==
  /\ upc[u][1] = "send"
  /\ Queue(<<"sendInLoop", upc[u][2]>>)
  /\ upc' = [upc EXCEPT ![u] = <<"out">>]
  /\ UNCHANGED <<conn, batch, batchHolds, phase, revents, ipc, ret, held, ownerRef, history>>

ShutdownQueue(u) ==
  /\ upc[u] = <<"shutdown">>
  /\ Queue(<<"shutdownInLoop">>)
  /\ upc' = [upc EXCEPT ![u] = <<"out">>]
  /\ UNCHANGED <<conn, batch, batchHolds, phase, revents, ipc, ret, held, ownerRef, history>>

(* setState(kDisconnecting), whatever the state has become since the test. *)
ForceCloseQueue(u) ==
  /\ upc[u] = <<"forceClose">>
  /\ m_state' = "kDisconnecting"
  /\ revived' = (revived \/ m_state = "kDisconnected")
  /\ Queue(<<"forceCloseInLoop">>)
  /\ upc' = [upc EXCEPT ![u] = <<"out">>]
  /\ UNCHANGED <<m_channel, m_outputBuffer, wire, wshut, batch, batchHolds, phase, revents, ipc, ret, held,
                 ownerRef, sent, forces, accepted, ups, downs>>

Drop(u) ==
  /\ u \in held /\ upc[u] = <<"out">>
  /\ HoldRef => ~RawPending
  /\ held' = held \ {u}
  /\ UNCHANGED <<conn, loop, upc, ownerRef, history>>

-----------------------------------------------------------------------------
(* What the IO thread does by itself once it has something to do. *)
IoStep ==
  \/ Poll({}) \/ StartBatch \/ EndBatch \/ OnClose \/ OnRead \/ OnWrite
  \/ RunEstablished \/ RunShutdown \/ RunForceClose \/ RunCallback \/ RunDestroyed
  \/ (\E m \in Message : RunSend(m))
  \/ Destroy \/ RemoveChannel \/ CallbackReturns

CallbackStep == ShutdownHere \/ ForceCloseHere \/ (\E m \in Message : SendHere(m))

UserFinishes(u) == SendQueue(u) \/ ShutdownQueue(u) \/ ForceCloseQueue(u)

UserStep(u) == Shutdown(u) \/ ForceClose(u) \/ (\E m \in Message : Send(u, m))

ConnectionNext ==
  \/ IoStep \/ CallbackStep
  \/ (\E evs \in SUBSET {"close", "read", "write"} \ {{}} : Poll(evs))
  \/ (\E u \in Users : UserFinishes(u) \/ UserStep(u) \/ Drop(u))
=============================================================================
