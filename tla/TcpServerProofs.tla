-------------------------- MODULE TcpServerProofs --------------------------
(***************************************************************************)
(* Proofs about a connection of a server, for any number of users and      *)
(* messages of any length: its output, and its life from newConnection to  *)
(* the removal of its channel.  And about the event loops under it, for    *)
(* any number of callers and functors, and the threads that run them.      *)
(***************************************************************************)
EXTENDS TcpServer, EventLoopThread, SequenceTheorems, TLAPS

(* The output side of a connection has its types. *)
OutputTypeOK ==
  /\ wire \in Seq(Chunk) /\ m_outputBuffer \in Seq(Chunk) /\ accepted \in Seq(Chunk)
  /\ wshut \in BOOLEAN
  /\ m_channel \in Channels
  /\ downs \in Nat

output == <<m_channel, m_outputBuffer, wire, wshut, accepted, downs>>

(* What one step can do to the output side of a connection. *)
Sends == \E m \in Message : sendInLoop(m) /\ UNCHANGED <<wshut, downs>>

Drains(n) ==
  /\ isWriting(m_channel)
  /\ n \in 1..Len(m_outputBuffer)
  /\ wire' = wire \o SubSeq(m_outputBuffer, 1, n)
  /\ m_outputBuffer' = SubSeq(m_outputBuffer, n + 1, Len(m_outputBuffer))
  /\ IF n = Len(m_outputBuffer) THEN m_channel' = disableWriting(m_channel) ELSE UNCHANGED <<m_channel, wshut>>
  /\ wshut' \in BOOLEAN
  /\ UNCHANGED <<accepted, downs>>

Shuts == shutdownInLoop /\ UNCHANGED <<m_channel, m_outputBuffer, wire, accepted, downs>>

Rewires ==
  /\ m_channel' \in {enableReading(m_channel), removeChannel(m_channel)}
  /\ UNCHANGED <<m_outputBuffer, wire, wshut, accepted, downs>>

Closes ==
  /\ m_channel' = disableAll(m_channel)
  /\ downs' = downs + 1
  /\ UNCHANGED <<m_outputBuffer, wire, wshut, accepted>>

(* Every step does one of these to the output side, or leaves it alone. *)
LEMMA OutputSteps ==
  ASSUME OutputTypeOK, [Next]_vars
  PROVE  \/ Sends \/ (\E n \in Nat : Drains(n)) \/ Shuts \/ Rewires \/ Closes
         \/ UNCHANGED output
<1> USE DEF output
<1>1. CASE UNCHANGED vars
  BY <1>1 DEF vars, connVars, conn, history
<1>2. CASE NewConnection
  BY <1>2 DEF NewConnection, connectEstablished, Rewires, conn, history
<1>3. CASE CloseCallback \/ RemoveConnectionInLoop \/ Destructor \/ IoLoopEnds
  BY <1>3 DEF CloseCallback, RemoveConnectionInLoop, Destructor, IoLoopEnds, conn, history
<1>4. CASE Poll({}) \/ StartBatch \/ EndBatch \/ RunCallback \/ RunDestroyed \/ CallbackReturns
  BY <1>4 DEF Poll, StartBatch, EndBatch, RunCallback, RunDestroyed, CallbackReturns, conn, history
<1>5. CASE OnClose \/ OnRead
  BY <1>5 DEF OnClose, OnRead, handleClose, Closes, conn, history
<1>6. CASE OnWrite
  <2>1. CASE UNCHANGED <<conn, m_pending>>
    BY <1>6, <2>1 DEF OnWrite, conn, history
  <2>2. ASSUME NEW n \in 1..Len(m_outputBuffer),
               isWriting(m_channel),
               wire' = wire \o SubSeq(m_outputBuffer, 1, n),
               m_outputBuffer' = SubSeq(m_outputBuffer, n + 1, Len(m_outputBuffer)),
               IF n = Len(m_outputBuffer)
               THEN /\ m_channel' = disableWriting(m_channel)
                    /\ wshut' = (wshut \/ m_state = "kDisconnecting")
               ELSE UNCHANGED <<m_channel, m_pending, wshut>>
        PROVE  Drains(n)
    <3>1. wshut' \in BOOLEAN
      BY <2>2 DEF OutputTypeOK
    <3>2. UNCHANGED <<accepted, downs>>
      BY <1>6 DEF OnWrite, history
    <3> QED BY <2>2, <3>1, <3>2 DEF Drains
  <2>3. \A n \in 1..Len(m_outputBuffer) : n \in Nat
    OBVIOUS
  <2> QED BY <1>6, <2>1, <2>2, <2>3 DEF OnWrite
<1>7. CASE RunEstablished
  BY <1>7 DEF RunEstablished, connectEstablished, Rewires
<1>8. CASE RunShutdown
  BY <1>8 DEF RunShutdown, Shuts, history
<1>9. CASE RunForceClose
  BY <1>9 DEF RunForceClose, handleClose, Closes, conn, history
<1>10. ASSUME NEW m \in Message, RunSend(m) \/ SendHere(m) PROVE Sends
  BY <1>10 DEF RunSend, SendHere, Sends
<1>11. CASE Destroy
  BY <1>11 DEF Destroy, Closes
<1>12. CASE RemoveChannel
  BY <1>12 DEF RemoveChannel, Rewires, history
<1>13. CASE ShutdownHere
  BY <1>13 DEF ShutdownHere, Shuts, history
<1>14. CASE ForceCloseHere
  BY <1>14 DEF ForceCloseHere
<1>15. ASSUME NEW evs, Poll(evs) PROVE UNCHANGED output
  BY <1>15 DEF Poll, conn, history
<1>16. ASSUME NEW u \in Users, UserFinishes(u) \/ UserStep(u) \/ Drop(u) PROVE UNCHANGED output
  BY <1>16 DEF UserFinishes, UserStep, Drop, SendQueue, ShutdownQueue, ForceCloseQueue, Shutdown, ForceClose,
     Send, conn, history
<1> QED
  BY <1>1, <1>2, <1>3, <1>4, <1>5, <1>6, <1>7, <1>8, <1>9, <1>10, <1>11, <1>12, <1>13, <1>14, <1>15, <1>16
     DEF Next, ServerStep, ConnectionNext, IoStep, CallbackStep

-----------------------------------------------------------------------------
(* What the operations of a channel do to its write interest. *)
LEMMA ChannelOps ==
  ASSUME NEW ch \in Channels
  PROVE  /\ enableReading(ch) \in Channels /\ isWriting(enableReading(ch)) = isWriting(ch)
         /\ enableWriting(ch) \in Channels /\ isWriting(enableWriting(ch))
         /\ disableWriting(ch) \in Channels /\ ~isWriting(disableWriting(ch))
         /\ disableAll(ch) \in Channels
         /\ removeChannel(ch) \in Channels /\ isWriting(removeChannel(ch)) = isWriting(ch)
<1>1. \A c \in Channels : updateChannel(c) \in Channels /\ updateChannel(c).m_events = c.m_events
  BY DEF Channels, updateChannel
<1>2. \A E \in SUBSET Events : LET c == [ch EXCEPT !.m_events = E] IN c \in Channels /\ c.m_events = E
  BY DEF Channels
<1>3. ch.m_events \in SUBSET Events
  BY DEF Channels
<1>4. /\ ch.m_events \union {"read"} \in SUBSET Events /\ ch.m_events \union {"write"} \in SUBSET Events
      /\ ch.m_events \ {"write"} \in SUBSET Events /\ {} \in SUBSET Events
  BY <1>3 DEF Events
<1>5. enableReading(ch) \in Channels /\ enableReading(ch).m_events = ch.m_events \union {"read"}
  BY <1>1, <1>2, <1>4 DEF enableReading
<1>6. enableWriting(ch) \in Channels /\ enableWriting(ch).m_events = ch.m_events \union {"write"}
  BY <1>1, <1>2, <1>4 DEF enableWriting
<1>7. disableWriting(ch) \in Channels /\ disableWriting(ch).m_events = ch.m_events \ {"write"}
  BY <1>1, <1>2, <1>4 DEF disableWriting
<1>8. disableAll(ch) \in Channels
  BY <1>1, <1>2, <1>4 DEF disableAll
<1>9. removeChannel(ch) \in Channels /\ removeChannel(ch).m_events = ch.m_events
  BY DEF removeChannel, Channels
<1> QED BY <1>5, <1>6, <1>7, <1>8, <1>9 DEF isWriting

(* A sequence cut in two. *)
LEMMA Cut ==
  ASSUME NEW S, NEW s \in Seq(S), NEW n \in 0..Len(s)
  PROVE  /\ SubSeq(s, 1, n) \in Seq(S) /\ SubSeq(s, n + 1, Len(s)) \in Seq(S)
         /\ SubSeq(s, 1, n) \o SubSeq(s, n + 1, Len(s)) = s
         /\ Len(SubSeq(s, n + 1, Len(s))) = Len(s) - n
<1> DEFINE a == SubSeq(s, 1, n)
           b == SubSeq(s, n + 1, Len(s))
<1>1. a \in Seq(S) /\ Len(a) = n /\ \A i \in 1..n : a[i] = s[i]
  OBVIOUS
<1>2. b \in Seq(S) /\ Len(b) = Len(s) - n /\ \A i \in 1..(Len(s) - n) : b[i] = s[n + i]
  OBVIOUS
<1> HIDE DEF a, b
<1>3. a \o b \in Seq(S) /\ Len(a \o b) = Len(s)
  BY <1>1, <1>2
<1>4. ASSUME NEW i \in 1..Len(s) PROVE (a \o b)[i] = s[i]
  <2>1. CASE i <= n
    <3>1. (a \o b)[i] = a[i]
      BY <1>1, <1>2, <2>1
    <3> QED BY <1>1, <2>1, <3>1
  <2>2. CASE i > n
    <3>1. i - n \in 1..(Len(s) - n) /\ n + (i - n) = i
      BY <2>2
    <3>2. (a \o b)[i] = b[i - n]
      BY <1>1, <1>2, <2>2
    <3> QED BY <1>2, <3>1, <3>2
  <2>3. i <= n \/ i > n
    <3>1. i \in Int /\ n \in Int
      OBVIOUS
    <3> QED BY <3>1
  <2> QED BY <2>1, <2>2, <2>3
<1>5. a \o b = s
  BY <1>3, <1>4, SeqEqual
<1> QED BY <1>1, <1>2, <1>5 DEF a, b

(* Concatenation is associative. *)
LEMMA Assoc ==
  ASSUME NEW S, NEW a \in Seq(S), NEW b \in Seq(S), NEW c \in Seq(S)
  PROVE  (a \o b) \o c = a \o (b \o c) /\ a \o b \in Seq(S)
  OBVIOUS

(* The same of the bytes on the wire. *)
LEMMA ChunkAssoc == \A a, b, c \in Seq(Chunk) : (a \o b) \o c = a \o (b \o c)
  BY Assoc

(* A message is a sequence of MsgLen chunks. *)
LEMMA MessageBytes == ASSUME NEW m \in Message PROVE Bytes(m) \in Seq(Chunk) /\ Len(Bytes(m)) = MsgLen
  BY ConnectionAssumption DEF Bytes, Chunk

-----------------------------------------------------------------------------
(* Until the connection goes down, its channel asks for write events exactly *)
(* while data is buffered.                                                   *)
WriteInterest == downs = 0 => (isWriting(m_channel) <=> m_outputBuffer # <<>>)

OutputInv == OutputTypeOK /\ StreamInOrder /\ WriteInterest /\ ShutdownAfterData

(* sendInLoop, in the one branch that changes something, keeps the stream. *)
LEMMA SendKeeps == ASSUME OutputInv, Sends PROVE OutputInv'
<1> PICK m \in Message : sendInLoop(m) /\ UNCHANGED <<wshut, downs>>
  BY DEF Sends
<1> DEFINE B == Bytes(m)
           idle == ~isWriting(m_channel) /\ m_outputBuffer = <<>>
<1>1. B \in Seq(Chunk) /\ Len(B) = MsgLen /\ MsgLen \in Nat \ {0}
  BY MessageBytes, ConnectionAssumption
<1> HIDE DEF B
<1>0. /\ wire \in Seq(Chunk) /\ m_outputBuffer \in Seq(Chunk) /\ accepted \in Seq(Chunk)
      /\ wshut \in BOOLEAN /\ m_channel \in Channels /\ downs \in Nat
      /\ wire \o m_outputBuffer = accepted
  BY DEF OutputInv, OutputTypeOK, StreamInOrder
<1>2. CASE UNCHANGED <<m_outputBuffer, m_channel, wire, accepted>>
  BY <1>2 DEF OutputInv, OutputTypeOK, StreamInOrder, WriteInterest, ShutdownAfterData
<1>3. ASSUME NEW k \in 0..MsgLen,
             k = 0 \/ m_outputBuffer = <<>>,
             wshut /\ downs = 0 => FALSE,
             wire' = wire \o SubSeq(B, 1, k),
             accepted' = accepted \o B,
             m_outputBuffer' = m_outputBuffer \o SubSeq(B, k + 1, MsgLen),
             m_channel' = IF SubSeq(B, k + 1, MsgLen) # <<>> /\ ~isWriting(m_channel)
                          THEN enableWriting(m_channel) ELSE m_channel
      PROVE  OutputInv'
  <2> DEFINE x == SubSeq(B, 1, k)
             y == SubSeq(B, k + 1, MsgLen)
  <2>1. x \in Seq(Chunk) /\ y \in Seq(Chunk) /\ x \o y = B /\ Len(y) = MsgLen - k /\ (k = 0 => x = <<>>)
    BY <1>1, Cut
  <2> HIDE DEF x, y
  <2>2. wire' = wire \o x /\ m_outputBuffer' = m_outputBuffer \o y
        /\ m_channel' = IF y # <<>> /\ ~isWriting(m_channel) THEN enableWriting(m_channel) ELSE m_channel
    BY <1>3 DEF x, y
  <2>3. OutputTypeOK'
    <3>1. wire' \in Seq(Chunk) /\ m_outputBuffer' \in Seq(Chunk)
      BY <1>0, <2>1, <2>2, Assoc
    <3>2. accepted' \in Seq(Chunk)
      BY <1>0, <1>1, <1>3, Assoc
    <3>3. m_channel' \in Channels
      BY <1>0, <2>2, ChannelOps
    <3> QED BY <1>0, <3>1, <3>2, <3>3 DEF OutputTypeOK
  <2>4. wire' \o m_outputBuffer' = accepted'
    <3>1. CASE k = 0
      <4>1. y = B
        <5>1. <<>> \o y = y
          BY <2>1
        <5> QED BY <2>1, <3>1, <5>1
      <4>2. wire' = wire
        <5>1. wire \o <<>> = wire
          BY <1>0
        <5> QED BY <2>1, <2>2, <3>1, <5>1
      <4>3. (wire \o m_outputBuffer) \o B = wire \o (m_outputBuffer \o B)
        BY <1>0, <1>1, ChunkAssoc
      <4> QED BY <1>0, <1>3, <2>2, <4>1, <4>2, <4>3
    <3>2. CASE m_outputBuffer = <<>>
      <4>1. m_outputBuffer' = y
        <5>1. <<>> \o y = y
          BY <2>1
        <5> QED BY <2>2, <3>2, <5>1
      <4>2. accepted = wire
        <5>1. wire \o <<>> = wire
          BY <1>0
        <5> QED BY <1>0, <3>2, <5>1
      <4>3. (wire \o x) \o y = wire \o (x \o y)
        BY <1>0, <2>1, ChunkAssoc
      <4> QED BY <1>3, <2>1, <2>2, <4>1, <4>2, <4>3
    <3> QED BY <1>3, <3>1, <3>2
  <2>5. WriteInterest'
    <3> USE DEF OutputInv, OutputTypeOK, WriteInterest
    <3>1. CASE y = <<>>
      BY <2>2, <3>1
    <3>2. CASE y # <<>>
      <4>1. m_outputBuffer' # <<>>
        BY <2>1, <2>2, <3>2
      <4>2. isWriting(m_channel)' = isWriting(m_channel')
        BY DEF isWriting
      <4>3. isWriting(m_channel')
        BY <2>2, <3>2, ChannelOps
      <4> QED BY <4>1, <4>2, <4>3
    <3> QED BY <3>1, <3>2
  <2>6. ShutdownAfterData'
    BY <1>3 DEF ShutdownAfterData
  <2> QED BY <2>3, <2>4, <2>5, <2>6 DEF OutputInv, StreamInOrder
<1>4. ~idle => ~(wshut /\ downs = 0)
  BY DEF OutputInv, WriteInterest, ShutdownAfterData
<1>5. CASE \E k \in 0..MsgLen :
             /\ k = 0 \/ m_outputBuffer = <<>>
             /\ ~idle \/ ~wshut
             /\ wire' = wire \o SubSeq(B, 1, k)
             /\ accepted' = accepted \o B
             /\ m_outputBuffer' = m_outputBuffer \o SubSeq(B, k + 1, MsgLen)
             /\ m_channel' = IF SubSeq(B, k + 1, MsgLen) # <<>> /\ ~isWriting(m_channel)
                             THEN enableWriting(m_channel) ELSE m_channel
  BY <1>3, <1>4, <1>5
<1>6. 0 \in 0..MsgLen
  BY <1>1
<1> QED BY <1>2, <1>5, <1>6 DEF sendInLoop, B

(* Draining n chunks of the buffer keeps the stream. *)
LEMMA DrainKeeps == ASSUME OutputInv, NEW n \in Nat, Drains(n) PROVE OutputInv'
<1> DEFINE x == SubSeq(m_outputBuffer, 1, n)
           y == SubSeq(m_outputBuffer, n + 1, Len(m_outputBuffer))
<1>0. /\ wire \in Seq(Chunk) /\ m_outputBuffer \in Seq(Chunk) /\ accepted \in Seq(Chunk)
      /\ wshut \in BOOLEAN /\ m_channel \in Channels /\ downs \in Nat
      /\ wire \o m_outputBuffer = accepted
  BY DEF OutputInv, OutputTypeOK, StreamInOrder
<1>1. n \in 1..Len(m_outputBuffer)
  BY DEF Drains
<1>2. /\ x \in Seq(Chunk) /\ y \in Seq(Chunk) /\ x \o y = m_outputBuffer
      /\ Len(y) = Len(m_outputBuffer) - n
  BY <1>0, <1>1, Cut
<1>3. /\ wire' = wire \o x /\ m_outputBuffer' = y
      /\ UNCHANGED <<accepted, downs>> /\ wshut' \in BOOLEAN
      /\ IF n = Len(m_outputBuffer) THEN m_channel' = disableWriting(m_channel)
                                    ELSE UNCHANGED <<m_channel, wshut>>
      /\ isWriting(m_channel)
  BY DEF Drains
<1> HIDE DEF x, y
<1>4. isWriting(m_channel)' = isWriting(m_channel')
  BY DEF isWriting
<1>5. OutputTypeOK'
  <2>1. wire' \in Seq(Chunk)
    BY <1>0, <1>2, <1>3, Assoc
  <2>2. m_channel' \in Channels
    BY <1>0, <1>3, ChannelOps
  <2> QED BY <1>0, <1>2, <1>3, <2>1, <2>2 DEF OutputTypeOK
<1>6. wire' \o m_outputBuffer' = accepted'
  <2>0. wire \in Seq(Chunk) /\ x \in Seq(Chunk) /\ y \in Seq(Chunk)
    BY <1>0, <1>2
  <2>1. (wire \o x) \o y = wire \o (x \o y)
    BY <2>0, ChunkAssoc
  <2> QED BY <1>0, <1>2, <1>3, <2>1
<1>7. CASE n = Len(m_outputBuffer)
  <2>1. y = <<>>
    BY <1>0, <1>2, <1>7
  <2>2. ~isWriting(m_channel')
    BY <1>0, <1>3, <1>7, ChannelOps
  <2> QED BY <1>3, <1>4, <1>5, <1>6, <2>1, <2>2 DEF OutputInv, StreamInOrder, WriteInterest, ShutdownAfterData
<1>8. CASE n # Len(m_outputBuffer)
  <2>1. y # <<>>
    BY <1>0, <1>1, <1>2, <1>8
  <2>2. m_outputBuffer # <<>>
    BY <1>1
  <2>3. WriteInterest'
    BY <1>3, <1>4, <1>8, <2>1 DEF WriteInterest
  <2>4. ShutdownAfterData'
    BY <1>3, <1>8, <2>2 DEF OutputInv, ShutdownAfterData
  <2> QED BY <1>5, <1>6, <2>3, <2>4 DEF OutputInv, StreamInOrder
<1> QED BY <1>7, <1>8

(* The other steps touch the channel, the write side or the count of callbacks. *)
LEMMA RestKeeps == ASSUME OutputInv, Shuts \/ Rewires \/ Closes \/ UNCHANGED output PROVE OutputInv'
<1>0. /\ wshut \in BOOLEAN /\ m_channel \in Channels /\ downs \in Nat
  BY DEF OutputInv, OutputTypeOK
<1>1. isWriting(m_channel)' = isWriting(m_channel')
  BY DEF isWriting
<1> USE DEF OutputInv, OutputTypeOK, StreamInOrder, WriteInterest, ShutdownAfterData
<1>2. CASE UNCHANGED output
  BY <1>1, <1>2 DEF output
<1>3. CASE Shuts
  <2>1. wshut' \in BOOLEAN
    BY <1>0, <1>3 DEF Shuts, shutdownInLoop
  <2> QED BY <1>1, <1>3, <2>1 DEF Shuts, shutdownInLoop
<1>4. CASE Rewires
  <2>1. m_channel' \in Channels /\ isWriting(m_channel') = isWriting(m_channel)
    BY <1>0, <1>4, ChannelOps DEF Rewires
  <2> QED BY <1>1, <1>4, <2>1 DEF Rewires
<1>5. CASE Closes
  <2>1. m_channel' \in Channels
    BY <1>0, <1>5, ChannelOps DEF Closes
  <2>2. downs' \in Nat /\ downs' # 0
    BY <1>0, <1>5 DEF Closes
  <2> QED BY <1>5, <2>1, <2>2 DEF Closes
<1> QED BY <1>2, <1>3, <1>4, <1>5

(***************************************************************************)
(* No byte of a connection is lost, repeated or overtaken, and its write   *)
(* side is never shut over buffered data (TcpConnection.cc:153-187,        *)
(* 233-304), for any number of users and messages of any length.           *)
(***************************************************************************)
THEOREM OutputIsInOrder == Spec => []OutputIsExact
<1>1. Init => OutputInv
  <2> SUFFICES ASSUME Init PROVE OutputInv
    OBVIOUS
  <2>1. NewChannel \in Channels /\ ~isWriting(NewChannel)
    BY DEF NewChannel, Channels, isWriting, Events
  <2>2. <<>> \in Seq(Chunk) /\ <<>> \o <<>> = <<>>
    OBVIOUS
  <2>3. wshut \in BOOLEAN /\ downs \in Nat
    BY DEF Init, ConnectionInit
  <2>4. wire = <<>> /\ m_outputBuffer = <<>> /\ accepted = <<>> /\ wshut = FALSE /\ m_channel = NewChannel
    BY DEF Init, ConnectionInit
  <2> QED BY <2>1, <2>2, <2>3, <2>4 DEF OutputInv, OutputTypeOK, StreamInOrder, WriteInterest, ShutdownAfterData
<1>2. OutputInv /\ [Next]_vars => OutputInv'
  <2> SUFFICES ASSUME OutputInv, [Next]_vars PROVE OutputInv'
    OBVIOUS
  <2>1. \/ Sends \/ (\E n \in Nat : Drains(n)) \/ Shuts \/ Rewires \/ Closes
        \/ UNCHANGED output
    BY OutputSteps DEF OutputInv
  <2> QED BY <2>1, SendKeeps, DrainKeeps, RestKeeps
<1>3. OutputInv => OutputIsExact
  BY DEF OutputInv, OutputIsExact
<1> QED BY <1>1, <1>2, <1>3, PTL DEF Spec

-----------------------------------------------------------------------------
(* The life of a connection.                                                   *)

Established == <<"connectEstablished">>
Destroyed == <<"connectDestroyed">>
ForceClosing == <<"forceCloseInLoop">>
Pending(x) == In(m_pending, x) \/ In(batch, x)

(* The IO thread is on its way from a close to the removal of the channel.     *)
Closing == ipc \in {"close", "destroy", "remove"} \/ (ipc = "callback" /\ ret \in {"close", "remove"})

(* x is in s at most as its first element.                                     *)
OnlyFirst(s, x) == \A i \in 1..Len(s) : s[i] = x => i = 1

LifeTypes ==
  /\ m_channel \in Channels /\ m_pending \in Seq(Functors) /\ batch \in Seq(Functors)
  /\ upc \in [Users -> UserLabels] /\ ret \in {"next", "close", "remove"}
  /\ phase \in {"events", "functors"}
  /\ ups \in Nat /\ downs \in Nat /\ removals \in Nat /\ server \in {"new", "open", "gone"}

(* connectEstablished runs once, before any other functor of the connection.   *)
UpOnce ==
  /\ ups <= 1
  /\ OnlyFirst(m_pending, Established) /\ OnlyFirst(batch, Established)
  /\ In(m_pending, Established) => ups = 0 /\ ~In(batch, Established)
  /\ In(batch, Established) => ups = 0

(* Until then nobody has the connection, and nothing happens to it.            *)
Unborn ==
  /\ server = "new" => ups = 0 /\ removals = 0 /\ m_pending = <<>> /\ batch = <<>>
  /\ server # "gone" /\ ups = 0 =>
       /\ m_state = "kConnecting" /\ m_channel = NewChannel /\ downs = 0
       /\ held = {} /\ upc = [u \in Users |-> <<"out">>] /\ revents = {} /\ ipc \in {"poll", "next"}
       /\ \A x \in Functors : Pending(x) => x = Established

(* The loop dispatches events, then runs functors; only there is a channel     *)
(* removed.                                                                    *)
LoopInv ==
  /\ phase = "functors" => revents = {} /\ ipc # "poll"
  /\ phase = "events" => batch = <<>> /\ ipc \notin {"destroy", "remove"} /\ ~(ipc = "callback" /\ ret = "remove")
  /\ ~({"close", "read"} \subseteq revents) /\ revents \subseteq {"close", "read", "write"}
  /\ m_channel.epoll => m_channel.m_index = "kAdded"
  /\ revents # {} => m_channel.m_index = "kAdded" \/ m_channel.m_events = {}
  /\ \A x \in Holding : In(batch, x) => batchHolds

(* Before the connection goes down the server holds it.                        *)
BeforeDown ==
  server = "open" /\ downs = 0 =>
    /\ ownerRef /\ removals = 0 /\ ~Pending(Destroyed) /\ ~Closing
    /\ ups = 1 => m_channel.epoll /\ "read" \in m_channel.m_events

(* Afterwards a channel that is in the epoll set is on its way out.            *)
AfterDown ==
  server = "open" /\ downs > 0 =>
    /\ removals > 0 => ownerRef
    /\ m_state # "kDisconnected" => m_state = "kDisconnecting" /\ Pending(ForceClosing)
    /\ m_channel.epoll => removals > 0 \/ Pending(Destroyed) \/ Closing \/ m_state # "kDisconnected"

DownOnce ==
  server = "open" /\ downs > 0 /\ ~revived =>
    /\ downs = 1 /\ m_state = "kDisconnected" /\ m_channel.m_events = {} /\ ~m_channel.epoll
    /\ revents \subseteq {"write"} /\ ipc # "destroy"

LifeInv == LifeTypes /\ UpOnce /\ Unborn /\ LoopInv /\ BeforeDown /\ AfterDown /\ DownOnce

(* What a sequence contains after an append.                                   *)
LEMMA AppendIn ==
  ASSUME NEW S, NEW s \in Seq(S), NEW x \in S
  PROVE  /\ Append(s, x) \in Seq(S)
         /\ \A y : In(Append(s, x), y) <=> In(s, y) \/ y = x
         /\ \A y : OnlyFirst(s, y) /\ (y # x \/ s = <<>>) => OnlyFirst(Append(s, x), y)
<1>1. /\ Len(s) \in Nat /\ Append(s, x) \in Seq(S) /\ Len(Append(s, x)) = Len(s) + 1
      /\ \A i \in 1..Len(s) : Append(s, x)[i] = s[i]
      /\ Append(s, x)[Len(s) + 1] = x
      /\ s = <<>> => Len(s) = 0
  OBVIOUS
<1> DEFINE a == Append(s, x)
<1> HIDE DEF a
<1>2. ASSUME NEW y PROVE In(a, y) <=> In(s, y) \/ y = x
  BY <1>1 DEF In, a
<1>3. ASSUME NEW y, OnlyFirst(s, y), y # x \/ s = <<>> PROVE OnlyFirst(a, y)
  BY <1>1, <1>3 DEF OnlyFirst, a
<1> QED BY <1>1, <1>2, <1>3 DEF a

(* What a sequence contains after its head is taken.                           *)
LEMMA TailIn ==
  ASSUME NEW S, NEW s \in Seq(S), s # <<>>
  PROVE  /\ Tail(s) \in Seq(S) /\ Head(s) \in S
         /\ \A y : In(s, y) <=> y = Head(s) \/ In(Tail(s), y)
         /\ \A y : OnlyFirst(s, y) => OnlyFirst(Tail(s), y) /\ ~In(Tail(s), y)
<1>1. /\ Len(s) \in Nat \ {0} /\ Head(s) = s[1] /\ Head(s) \in S
      /\ Tail(s) \in Seq(S) /\ Len(Tail(s)) = Len(s) - 1
      /\ \A i \in 1..(Len(s) - 1) : Tail(s)[i] = s[i + 1]
  OBVIOUS
<1> DEFINE a == Tail(s)
<1> HIDE DEF a
<1>2. ASSUME NEW y, In(s, y) PROVE y = Head(s) \/ In(a, y)
  <2>1. PICK i \in 1..Len(s) : s[i] = y
    BY <1>2 DEF In
  <2>2. CASE i # 1
    <3>1. i - 1 \in 1..(Len(s) - 1) /\ (i - 1) + 1 = i
      BY <1>1, <2>2
    <3> QED BY <1>1, <2>1, <3>1 DEF In, a
  <2> QED BY <1>1, <2>1, <2>2
<1>3. ASSUME NEW y, y = Head(s) \/ In(a, y) PROVE In(s, y)
  BY <1>1, <1>3 DEF In, a
<1>4. ASSUME NEW y, OnlyFirst(s, y) PROVE ~In(a, y)
  BY <1>1, <1>4 DEF In, OnlyFirst, a
<1>5. \A y : ~In(a, y) => OnlyFirst(a, y)
  BY DEF In, OnlyFirst
<1> QED BY <1>1, <1>2, <1>3, <1>4, <1>5 DEF a

(* An empty sequence contains nothing.                                         *)
LEMMA EmptyIn == \A y : ~In(<<>>, y) /\ OnlyFirst(<<>>, y)
  BY DEF In, OnlyFirst

(* The functors are different things.                                          *)
LEMMA FunctorsDiffer ==
  /\ Established \in Holding /\ Destroyed \in Holding /\ ForceClosing \in Holding
  /\ Established # Destroyed /\ Established # ForceClosing /\ Destroyed # ForceClosing
  /\ <<"callback">> \in Holding \ {Established, Destroyed, ForceClosing}
  /\ <<"shutdownInLoop">> \in Functors \ {Established, Destroyed, ForceClosing}
  /\ \A m \in Message : <<"sendInLoop", m>> \in Functors \ {Established, Destroyed, ForceClosing}
  /\ Holding \subseteq Functors
<1>1. /\ <<"connectEstablished">>[1] = "connectEstablished" /\ <<"connectDestroyed">>[1] = "connectDestroyed"
      /\ <<"forceCloseInLoop">>[1] = "forceCloseInLoop" /\ <<"callback">>[1] = "callback"
      /\ <<"shutdownInLoop">>[1] = "shutdownInLoop" /\ \A m \in Message : <<"sendInLoop", m>>[1] = "sendInLoop"
  OBVIOUS
<1> QED BY <1>1 DEF Established, Destroyed, ForceClosing, Functors, Holding, Raw

(* What the operations do to a channel's place in the poller.                  *)
LEMMA ChannelPlace ==
  ASSUME NEW ch \in Channels, ch.epoll => ch.m_index = "kAdded"
  PROVE  /\ LET c == enableWriting(ch)
            IN  /\ c \in Channels /\ c.m_index = "kAdded" /\ (ch.epoll => c.epoll)
                /\ c.m_events = ch.m_events \union {"write"}
         /\ LET c == disableWriting(ch)
            IN  /\ c \in Channels /\ c.m_events = ch.m_events \ {"write"}
                /\ c.epoll => c.m_index = "kAdded"
                /\ c.m_index = "kAdded" \/ c.m_events = {}
                /\ ch.epoll /\ "read" \in ch.m_events => c.epoll
                /\ ch.m_index = "kAdded" /\ c.epoll => ch.epoll
         /\ LET c == disableAll(ch)
            IN  /\ c \in Channels /\ c.m_events = {} /\ (c.epoll => c.m_index = "kAdded")
                /\ ch.m_index = "kAdded" => ~c.epoll
         /\ LET c == removeChannel(ch) IN c \in Channels /\ ~c.epoll /\ c.m_events = ch.m_events
         /\ LET c == enableReading(ch)
            IN  c \in Channels /\ c.m_index = "kAdded" /\ "read" \in c.m_events /\ (ch = NewChannel => c.epoll)
<1>1. ASSUME NEW E \in SUBSET Events
      PROVE  LET c == updateChannel([ch EXCEPT !.m_events = E])
             IN  /\ c \in Channels /\ c.m_events = E
                 /\ c.epoll => c.m_index = "kAdded"
                 /\ ch.m_index # "kAdded" => c.epoll /\ c.m_index = "kAdded"
                 /\ ch.m_index = "kAdded" /\ E # {} => c.m_index = "kAdded" /\ c.epoll = ch.epoll
                 /\ ch.m_index = "kAdded" /\ E = {} => ~c.epoll
  <2>1. PICK c \in Channels : c = [ch EXCEPT !.m_events = E]
    BY DEF Channels
  <2>2. c.m_events = E /\ c.m_index = ch.m_index /\ c.epoll = ch.epoll
    BY <2>1 DEF Channels
  <2> QED BY <2>1, <2>2 DEF Channels, updateChannel
<1>2. /\ ch.m_events \union {"read"} \in SUBSET Events /\ ch.m_events \union {"write"} \in SUBSET Events
      /\ ch.m_events \ {"write"} \in SUBSET Events /\ {} \in SUBSET Events
  BY DEF Channels, Events
<1>3. LET c == removeChannel(ch) IN c \in Channels /\ ~c.epoll /\ c.m_events = ch.m_events
  BY DEF Channels, removeChannel
<1>4. NewChannel.m_index = "kNew"
  BY DEF NewChannel
<1>5. LET c == enableWriting(ch)
      IN  /\ c \in Channels /\ c.m_index = "kAdded" /\ (ch.epoll => c.epoll)
          /\ c.m_events = ch.m_events \union {"write"}
  BY <1>1, <1>2 DEF enableWriting
<1>6. LET c == disableWriting(ch)
      IN  /\ c \in Channels /\ c.m_events = ch.m_events \ {"write"}
          /\ c.epoll => c.m_index = "kAdded"
          /\ c.m_index = "kAdded" \/ c.m_events = {}
          /\ ch.epoll /\ "read" \in ch.m_events => c.epoll
          /\ ch.m_index = "kAdded" /\ c.epoll => ch.epoll
  <2> DEFINE E == ch.m_events \ {"write"}
  <2>1. E \in SUBSET Events /\ ("read" \in ch.m_events => E # {})
    BY <1>2
  <2>2. disableWriting(ch) = updateChannel([ch EXCEPT !.m_events = E])
    BY DEF disableWriting
  <2> HIDE DEF E
  <2>3. LET c == updateChannel([ch EXCEPT !.m_events = E])
        IN  /\ c \in Channels /\ c.m_events = E
            /\ c.epoll => c.m_index = "kAdded"
            /\ c.m_index = "kAdded" \/ c.m_events = {}
            /\ ch.epoll /\ "read" \in ch.m_events => c.epoll
            /\ ch.m_index = "kAdded" /\ c.epoll => ch.epoll
    BY <1>1, <2>1
  <2> QED BY <2>2, <2>3 DEF E
<1>7. LET c == disableAll(ch)
      IN  /\ c \in Channels /\ c.m_events = {} /\ (c.epoll => c.m_index = "kAdded")
          /\ ch.m_index = "kAdded" => ~c.epoll
  BY <1>1, <1>2 DEF disableAll
<1>8. LET c == enableReading(ch)
      IN  c \in Channels /\ c.m_index = "kAdded" /\ "read" \in c.m_events /\ (ch = NewChannel => c.epoll)
  BY <1>1, <1>2, <1>4 DEF enableReading
<1> QED BY <1>3, <1>5, <1>6, <1>7, <1>8

(* What the queues hold after a step that leaves them alone, queues a functor  *)
(* or takes one.                                                               *)
QueueSame == \A y : /\ In(m_pending, y)' <=> In(m_pending, y)
                    /\ OnlyFirst(m_pending, y)' <=> OnlyFirst(m_pending, y)
QueueAdds(x) == \A y : /\ In(m_pending, y)' <=> In(m_pending, y) \/ y = x
                       /\ OnlyFirst(m_pending, y) /\ (y # x \/ m_pending = <<>>) => OnlyFirst(m_pending, y)'
BatchSame == \A y : /\ In(batch, y)' <=> In(batch, y)
                    /\ OnlyFirst(batch, y)' <=> OnlyFirst(batch, y)
BatchDrops(x) == \A y : /\ In(batch, y) <=> y = x \/ In(batch, y)'
                        /\ OnlyFirst(batch, y) => OnlyFirst(batch, y)' /\ ~In(batch, y)'

(* The queues are left alone by a step that does not name them.                *)
LEMMA SameIn ==
  /\ m_pending' = m_pending => QueueSame
  /\ batch' = batch => BatchSame
BY DEF QueueSame, BatchSame, In, OnlyFirst

(* Queueing a functor adds it at the end.                                      *)
LEMMA QueueIn ==
  ASSUME m_pending \in Seq(Functors), NEW x \in Functors, Queue(x)
  PROVE  m_pending' \in Seq(Functors) /\ m_pending' # <<>> /\ QueueAdds(x)
<1>1. m_pending' = Append(m_pending, x)
  BY DEF Queue
<1>2. /\ m_pending' \in Seq(Functors)
      /\ \A y : In(m_pending', y) <=> In(m_pending, y) \/ y = x
      /\ \A y : OnlyFirst(m_pending, y) /\ (y # x \/ m_pending = <<>>) => OnlyFirst(m_pending', y)
  BY <1>1, AppendIn
<1>3. In(m_pending', x)
  BY <1>2
<1>4. \A y : (In(m_pending, y)' <=> In(m_pending', y)) /\ (OnlyFirst(m_pending, y)' <=> OnlyFirst(m_pending', y))
  BY DEF In, OnlyFirst
<1> QED BY <1>2, <1>3, <1>4, EmptyIn DEF QueueAdds

(* Running a functor takes it from the front of the batch.                     *)
LEMMA RunIn ==
  ASSUME batch \in Seq(Functors), NEW x, Run(x)
  PROVE  batch' \in Seq(Functors) /\ x \in Functors /\ In(batch, x) /\ BatchDrops(x)
<1>1. batch # <<>> /\ Head(batch) = x /\ batch' = Tail(batch)
  BY DEF Run
<1>2. /\ batch' \in Seq(Functors) /\ x \in Functors
      /\ \A y : In(batch, y) <=> y = x \/ In(batch', y)
      /\ \A y : OnlyFirst(batch, y) => OnlyFirst(batch', y) /\ ~In(batch', y)
  BY <1>1, TailIn
<1>3. \A y : (In(batch, y)' <=> In(batch', y)) /\ (OnlyFirst(batch, y)' <=> OnlyFirst(batch', y))
  BY DEF In, OnlyFirst
<1> QED BY <1>2, <1>3 DEF BatchDrops

(* What sendInLoop does to the channel and the queue.                          *)
SendEffect ==
  /\ m_channel' \in {m_channel, enableWriting(m_channel)}
  /\ m_state = "kDisconnected" => UNCHANGED m_channel
  /\ m_pending' = m_pending \/ Queue(<<"callback">>)

(* sendInLoop does that and no more.                                           *)
LEMMA SendIs == ASSUME NEW m, sendInLoop(m) PROVE SendEffect
BY DEF sendInLoop, SendEffect

(* The loop's own steps keep the life of the connection.                       *)
LEMMA LoopLife ==
  ASSUME LifeInv, UNCHANGED serverVars,
         StartBatch \/ EndBatch \/ CallbackReturns \/ RemoveChannel
         \/ \E evs \in SUBSET {"close", "read", "write"} : Poll(evs)
  PROVE  LifeInv'
<1> USE DEF LifeInv, LifeTypes, UpOnce, Unborn, LoopInv, BeforeDown, AfterDown, DownOnce, Closing, Pending,
            serverVars, conn, users, history
<1>1. CASE StartBatch
  <2>1. /\ \A y : In(batch, y)' <=> In(m_pending, y)
        /\ \A y : OnlyFirst(batch, y)' <=> OnlyFirst(m_pending, y)
        /\ \A y : ~In(m_pending, y)' /\ OnlyFirst(m_pending, y)'
        /\ \A y : ~In(batch, y)
    BY <1>1, EmptyIn DEF StartBatch, In, OnlyFirst
  <2>2. m_pending' \in Seq(Functors) /\ batch' \in Seq(Functors) /\ phase' = "functors"
    BY <1>1 DEF StartBatch
  <2>3. \A x \in Holding : In(batch, x)' => batchHolds'
    BY <1>1, <2>1 DEF StartBatch, Holds
  <2> QED BY <1>1, <2>1, <2>2, <2>3 DEF StartBatch
<1>2. CASE EndBatch
  BY <1>2, SameIn, EmptyIn DEF EndBatch, QueueSame, BatchSame
<1>3. CASE CallbackReturns
  BY <1>3, SameIn DEF CallbackReturns, QueueSame, BatchSame
<1>4. CASE RemoveChannel
  <2>1. m_channel' \in Channels /\ ~m_channel'.epoll /\ m_channel'.m_events = m_channel.m_events
    BY <1>4, ChannelPlace DEF RemoveChannel
  <2> QED BY <1>4, <2>1, SameIn DEF RemoveChannel, QueueSame, BatchSame
<1>5. ASSUME NEW evs \in SUBSET {"close", "read", "write"}, Poll(evs) PROVE LifeInv'
  <2>1. phase = "events" /\ batch = <<>> /\ ~NewChannel.epoll
    BY <1>5 DEF Poll, NewChannel
  <2>2. m_pending' = m_pending /\ batch' = batch /\ revents' = evs /\ ipc' = "next"
    BY <1>5 DEF Poll
  <2>3. revents' # {} => m_channel.epoll
    BY <1>5 DEF Poll
  <2>4. ~({"close", "read"} \subseteq evs) /\ evs \subseteq {"close", "read", "write"}
    BY <1>5 DEF Poll
  <2> QED BY <1>5, <2>1, <2>2, <2>3, <2>4, SameIn DEF Poll, QueueSame, BatchSame
<1> QED BY <1>1, <1>2, <1>3, <1>4, <1>5

(* The handlers of events keep it.                                             *)
LEMMA EventLife ==
  ASSUME LifeInv, UNCHANGED serverVars, OnClose \/ OnRead \/ OnWrite \/ Destroy
  PROVE  LifeInv'
<1>1. /\ disableAll(m_channel) \in Channels /\ disableAll(m_channel).m_events = {}
      /\ disableAll(m_channel).epoll => disableAll(m_channel).m_index = "kAdded"
      /\ m_channel.m_index = "kAdded" => ~disableAll(m_channel).epoll
  <2>1. m_channel \in Channels /\ (m_channel.epoll => m_channel.m_index = "kAdded")
    BY DEF LifeInv, LifeTypes, LoopInv
  <2> QED BY <2>1, ChannelPlace
<1> USE DEF LifeInv, LifeTypes, UpOnce, Unborn, LoopInv, BeforeDown, AfterDown, DownOnce, Closing, Pending,
            serverVars, conn, users, history
<1>2. ASSUME OnClose \/ OnRead \/ Destroy, handleClose \/ Destroy PROVE LifeInv'
  <2>1. m_channel' = disableAll(m_channel) /\ m_state' = "kDisconnected" /\ downs' = downs + 1 /\ ipc' = "callback"
    BY <1>2 DEF handleClose, Destroy, Callback
  <2>2. downs \in Nat /\ downs' \in Nat /\ downs' > 0 /\ (downs = 0 => downs' = 1)
    BY <2>1
  <2>3. server # "gone" => ups # 0
    BY <1>2 DEF OnClose, OnRead, Destroy, Dispatch
  <2>4. UNCHANGED <<m_pending, batch, ups, revived, server, removals, ownerRef, upc, held, batchHolds, phase>>
    BY <1>2 DEF OnClose, OnRead, Destroy, Dispatch, handleClose, Callback
  <2>5. revents' \subseteq revents \cap {"write"} /\ ret' \in {"close", "remove"} /\ (phase = "events" => ret' = "close")
    BY <1>2 DEF OnClose, OnRead, Destroy, Dispatch, handleClose, Callback
  <2>6. server = "open" /\ downs > 0 => revived
    BY <1>2 DEF OnClose, OnRead, Destroy, Dispatch
  <2>7. server = "open" => m_channel.m_index = "kAdded" \/ downs > 0
    BY <2>3
  <2>8. QueueSame /\ BatchSame
    BY <2>4, SameIn
  <2>9. LifeTypes' /\ UpOnce' /\ LoopInv'
    BY <1>1, <2>1, <2>2, <2>4, <2>5, <2>8 DEF QueueSame, BatchSame
  <2>10. Unborn'
    BY <2>3, <2>4
  <2>11. BeforeDown' /\ AfterDown'
    BY <1>1, <2>1, <2>2, <2>4, <2>5, <2>8 DEF QueueSame, BatchSame
  <2>12. DownOnce'
    BY <1>1, <2>1, <2>2, <2>4, <2>5, <2>6, <2>7
  <2> QED BY <2>9, <2>10, <2>11, <2>12
<1>3. ASSUME OnRead, ~handleClose PROVE LifeInv'
  BY <1>3, SameIn DEF OnRead, Dispatch, Callback, QueueSame, BatchSame
<1>4. ASSUME OnWrite PROVE LifeInv'
  <2>1. /\ disableWriting(m_channel) \in Channels
        /\ disableWriting(m_channel).m_events = m_channel.m_events \ {"write"}
        /\ disableWriting(m_channel).epoll => disableWriting(m_channel).m_index = "kAdded"
        /\ disableWriting(m_channel).m_index = "kAdded" \/ disableWriting(m_channel).m_events = {}
        /\ m_channel.epoll /\ "read" \in m_channel.m_events => disableWriting(m_channel).epoll
        /\ m_channel.m_index = "kAdded" /\ disableWriting(m_channel).epoll => m_channel.epoll
    BY ChannelPlace
  <2>2. /\ m_channel' = m_channel \/ (m_channel' = disableWriting(m_channel) /\ isWriting(m_channel))
        /\ m_pending' = m_pending \/ Queue(<<"callback">>)
    BY <1>4 DEF OnWrite
  <2>3. /\ revents = {"write"} /\ revents' = {} /\ UNCHANGED <<m_state, batch, batchHolds, phase, ipc, ret, users, ownerRef, history>>
    BY <1>4 DEF OnWrite, Dispatch
  <2>4. server # "gone" => ups # 0
    BY <2>3
  <2>5. CASE m_pending' = m_pending
    BY <2>1, <2>2, <2>3, <2>4, <2>5, SameIn DEF QueueSame, BatchSame, isWriting
  <2>6. CASE Queue(<<"callback">>)
    BY <2>1, <2>2, <2>3, <2>4, <2>6, SameIn, QueueIn, FunctorsDiffer DEF QueueAdds, BatchSame, isWriting
  <2> QED BY <2>2, <2>5, <2>6
<1> QED BY <1>2, <1>3, <1>4 DEF OnClose

(* Functors keep it.                                                           *)
LEMMA FunctorLife ==
  ASSUME LifeInv, UNCHANGED serverVars,
         \/ RunEstablished \/ RunShutdown \/ RunForceClose \/ RunCallback \/ RunDestroyed
         \/ \E m \in Message : RunSend(m)
  PROVE  LifeInv'
<1>0. m_channel \in Channels /\ (m_channel.epoll => m_channel.m_index = "kAdded") /\ batch \in Seq(Functors)
  BY DEF LifeInv, LifeTypes, LoopInv
<1>1. /\ disableAll(m_channel) \in Channels /\ disableAll(m_channel).m_events = {}
      /\ disableAll(m_channel).epoll => disableAll(m_channel).m_index = "kAdded"
      /\ m_channel.m_index = "kAdded" => ~disableAll(m_channel).epoll
  BY <1>0, ChannelPlace
<1>2. ASSUME NEW x, Run(x)
      PROVE  /\ batch' \in Seq(Functors) /\ In(batch, x) /\ x \in Functors /\ BatchDrops(x)
             /\ phase = "functors" /\ ipc = "next" /\ UNCHANGED <<batchHolds, phase, revents>>
  BY <1>0, <1>2, RunIn DEF Run
<1> USE DEF LifeInv, LifeTypes, UpOnce, Unborn, LoopInv, BeforeDown, AfterDown, DownOnce, Closing, Pending,
            serverVars, conn, users, history
<1>3. CASE RunShutdown \/ RunCallback
  <2>1. PICK x \in Functors \ {Established, Destroyed, ForceClosing} :
          Run(x) /\ UNCHANGED <<m_state, m_channel, m_pending, upc, held, ownerRef, ups, downs, revived>>
    BY <1>3, FunctorsDiffer DEF RunShutdown, RunCallback
  <2>2. ipc' \in {"next", "callback"} /\ ret' \in {ret, "next"} /\ (ipc' = "callback" => ret' = "next")
    BY <1>2, <1>3, <2>1 DEF RunShutdown, RunCallback, Callback
  <2> QED BY <1>2, <2>1, <2>2, SameIn DEF QueueSame, BatchDrops
<1>4. CASE RunDestroyed
  <2>1. Run(Destroyed)
    BY <1>4 DEF RunDestroyed, Destroyed
  <2> QED BY <1>2, <1>4, <2>1, SameIn, FunctorsDiffer DEF RunDestroyed, QueueSame, BatchDrops
<1>5. CASE RunForceClose
  <2>1. Run(ForceClosing)
    BY <1>5 DEF RunForceClose, ForceClosing
  <2>2. CASE m_state \in {"kConnected", "kDisconnecting"}
    <3>1. m_channel' = disableAll(m_channel) /\ m_state' = "kDisconnected" /\ downs' = downs + 1
          /\ ipc' = "callback" /\ ret' = "close"
          /\ UNCHANGED <<m_pending, ups, revived, ownerRef, upc, held>>
      BY <1>5, <2>2 DEF RunForceClose, handleClose, Callback
    <3>2. downs \in Nat /\ downs' \in Nat /\ downs' > 0 /\ (downs = 0 => downs' = 1)
      BY <3>1
    <3>3. server # "gone" => ups # 0
      BY <1>2, <2>1, <2>2
    <3>4. server = "open" => (m_channel.m_index = "kAdded" /\ downs = 0) \/ (downs > 0 /\ revived)
      BY <2>2, <3>3
    <3>5. QueueSame
      BY <3>1, SameIn
    <3>6. LifeTypes' /\ UpOnce' /\ LoopInv'
      BY <1>1, <1>2, <2>1, <3>1, <3>2, <3>3, <3>4, <3>5, FunctorsDiffer DEF QueueSame, BatchDrops
    <3>7. Unborn' /\ BeforeDown'
      BY <1>1, <1>2, <2>1, <3>1, <3>2, <3>3, <3>4, <3>5, FunctorsDiffer DEF QueueSame, BatchDrops
    <3>8. AfterDown' /\ DownOnce'
      BY <1>1, <1>2, <2>1, <3>1, <3>2, <3>3, <3>4, <3>5, FunctorsDiffer DEF QueueSame, BatchDrops
    <3> QED BY <3>6, <3>7, <3>8
  <2>3. CASE m_state \notin {"kConnected", "kDisconnecting"}
    <3>1. UNCHANGED <<m_state, m_channel, m_pending, ipc, ret, upc, held, ownerRef, ups, downs, revived>>
      BY <1>5, <2>3 DEF RunForceClose, handleClose
    <3>2. QueueSame
      BY <3>1, SameIn
    <3>3. LifeTypes' /\ UpOnce' /\ LoopInv'
      BY <1>2, <2>1, <2>3, <3>1, <3>2, FunctorsDiffer DEF QueueSame, BatchDrops
    <3>4. Unborn' /\ BeforeDown'
      BY <1>2, <2>1, <2>3, <3>1, <3>2, FunctorsDiffer DEF QueueSame, BatchDrops
    <3>5. AfterDown' /\ DownOnce'
      BY <1>2, <2>1, <2>3, <3>1, <3>2, FunctorsDiffer DEF QueueSame, BatchDrops
    <3> QED BY <3>3, <3>4, <3>5
  <2> QED BY <2>2, <2>3
<1>6. CASE RunEstablished
  <2>1. Run(Established)
    BY <1>6 DEF RunEstablished, Established
  <2>2. enableReading(m_channel) \in Channels /\ enableReading(m_channel).m_index = "kAdded"
        /\ "read" \in enableReading(m_channel).m_events
        /\ (m_channel = NewChannel => enableReading(m_channel).epoll)
    BY <1>0, ChannelPlace
  <2>3. ups = 0 /\ ups' = 1 /\ m_channel' = enableReading(m_channel) /\ ipc' = "callback" /\ ret' = "next"
        /\ UNCHANGED <<m_pending, upc, downs, revived, ownerRef>>
    BY <1>2, <1>6, <2>1 DEF RunEstablished, connectEstablished, Callback
  <2>4. QueueSame
    BY <2>3, SameIn
  <2>5. ~In(batch, Established)' /\ ~In(m_pending, Established) /\ server # "new"
    BY <1>2, <2>1, EmptyIn DEF BatchDrops
  <2>6. LifeTypes'
    BY <1>2, <2>1, <2>2, <2>3
  <2>9. UpOnce'
    BY <1>2, <2>1, <2>3, <2>4, <2>5 DEF QueueSame, BatchDrops
  <2>10. LoopInv'
    BY <1>2, <2>1, <2>2, <2>3 DEF BatchDrops
  <2>7. Unborn' /\ BeforeDown'
    BY <1>2, <2>1, <2>2, <2>3, <2>4, <2>5 DEF QueueSame, BatchDrops
  <2>8. AfterDown' /\ DownOnce'
    BY <1>2, <2>1, <2>2, <2>3, <2>4, <2>5 DEF QueueSame, BatchDrops
  <2> QED BY <2>6, <2>7, <2>8, <2>9, <2>10
<1>7. ASSUME NEW m \in Message, RunSend(m) PROVE LifeInv'
  <2>1. PICK x \in Functors \ {Established, Destroyed, ForceClosing} : Run(x)
    BY <1>7, FunctorsDiffer DEF RunSend
  <2>2. SendEffect /\ UNCHANGED <<m_state, ipc, ret, upc, held, ownerRef, ups, downs, revived>>
    BY <1>7, SendIs DEF RunSend
  <2>3. enableWriting(m_channel) \in Channels /\ enableWriting(m_channel).m_index = "kAdded"
        /\ (m_channel.epoll => enableWriting(m_channel).epoll)
        /\ enableWriting(m_channel).m_events = m_channel.m_events \union {"write"}
    BY <1>0, ChannelPlace
  <2>4. server # "gone" => ups # 0
    BY <1>2, <2>1
  <2>5. CASE m_pending' = m_pending
    <3>1. QueueSame
      BY <2>5, SameIn
    <3>2. LifeTypes' /\ UpOnce' /\ LoopInv'
      BY <1>2, <2>1, <2>2, <2>3, <2>4, <2>5, <3>1 DEF SendEffect, QueueSame, BatchDrops
    <3>3. Unborn' /\ BeforeDown'
      BY <1>2, <2>1, <2>2, <2>3, <2>4, <2>5, <3>1 DEF SendEffect, QueueSame, BatchDrops
    <3>4. AfterDown' /\ DownOnce'
      BY <1>2, <2>1, <2>2, <2>3, <2>4, <2>5, <3>1 DEF SendEffect, QueueSame, BatchDrops
    <3> QED BY <3>2, <3>3, <3>4
  <2>6. CASE Queue(<<"callback">>)
    <3>1. QueueAdds(<<"callback">>) /\ m_pending' \in Seq(Functors)
      BY <2>6, QueueIn, FunctorsDiffer
    <3>2. LifeTypes' /\ UpOnce' /\ LoopInv'
      BY <1>2, <2>1, <2>2, <2>3, <2>4, <3>1, FunctorsDiffer DEF SendEffect, QueueAdds, BatchDrops
    <3>3. Unborn' /\ BeforeDown'
      BY <1>2, <2>1, <2>2, <2>3, <2>4, <3>1, FunctorsDiffer DEF SendEffect, QueueAdds, BatchDrops
    <3>4. AfterDown' /\ DownOnce'
      BY <1>2, <2>1, <2>2, <2>3, <2>4, <3>1, FunctorsDiffer DEF SendEffect, QueueAdds, BatchDrops
    <3> QED BY <3>2, <3>3, <3>4
  <2> QED BY <2>2, <2>5, <2>6 DEF SendEffect
<1> QED BY <1>3, <1>4, <1>5, <1>6, <1>7

(* What a user callback calls on the loop's thread keeps it.                   *)
LEMMA CallbackLife == ASSUME LifeInv, UNCHANGED serverVars, CallbackStep PROVE LifeInv'
<1>0. m_channel \in Channels /\ (m_channel.epoll => m_channel.m_index = "kAdded")
  BY DEF LifeInv, LifeTypes, LoopInv
<1>1. enableWriting(m_channel) \in Channels /\ enableWriting(m_channel).m_index = "kAdded"
      /\ (m_channel.epoll => enableWriting(m_channel).epoll)
      /\ enableWriting(m_channel).m_events = m_channel.m_events \union {"write"}
  BY <1>0, ChannelPlace
<1> USE DEF LifeInv, LifeTypes, UpOnce, Unborn, LoopInv, BeforeDown, AfterDown, DownOnce, Closing, Pending,
            serverVars, loop, conn, users, history
<1>2. ipc = "callback"
  BY DEF CallbackStep, ShutdownHere, ForceCloseHere, SendHere
<1>3. server # "gone" => ups # 0
  BY <1>2
<1>4. CASE ShutdownHere
  BY <1>2, <1>3, <1>4, SameIn DEF ShutdownHere, QueueSame, BatchSame
<1>5. CASE ForceCloseHere
  <2>1. /\ m_state' = "kDisconnecting" /\ m_state \in {"kConnected", "kDisconnecting"} /\ Queue(ForceClosing)
        /\ UNCHANGED <<m_channel, batch, batchHolds, phase, revents, ipc, ret, upc, held, ownerRef, ups, downs, revived>>
    BY <1>5 DEF ForceCloseHere, ForceClosing
  <2>2. m_pending' \in Seq(Functors) /\ QueueAdds(ForceClosing) /\ BatchSame
    BY <2>1, QueueIn, SameIn, FunctorsDiffer
  <2>3. LifeTypes' /\ UpOnce' /\ LoopInv'
    BY <1>2, <1>3, <2>1, <2>2, FunctorsDiffer DEF QueueAdds, BatchSame
  <2>4. Unborn' /\ BeforeDown'
    BY <1>2, <1>3, <2>1, <2>2, FunctorsDiffer DEF QueueAdds, BatchSame
  <2>5. AfterDown' /\ DownOnce'
    BY <1>2, <1>3, <2>1, <2>2, FunctorsDiffer DEF QueueAdds, BatchSame
  <2> QED BY <2>3, <2>4, <2>5
<1>6. ASSUME NEW m \in Message, SendHere(m) PROVE LifeInv'
  <2>1. /\ SendEffect /\ m_state = "kConnected"
        /\ UNCHANGED <<m_state, batch, batchHolds, phase, revents, ipc, ret, upc, held, ownerRef, ups, downs, revived>>
    BY <1>6, SendIs DEF SendHere
  <2>2. BatchSame
    BY <2>1, SameIn
  <2>3. CASE m_pending' = m_pending
    <3>1. QueueSame
      BY <2>3, SameIn
    <3>2. LifeTypes' /\ UpOnce' /\ LoopInv'
      BY <1>1, <1>2, <1>3, <2>1, <2>2, <2>3, <3>1 DEF SendEffect, QueueSame, BatchSame
    <3>3. Unborn' /\ BeforeDown'
      BY <1>1, <1>2, <1>3, <2>1, <2>2, <2>3, <3>1 DEF SendEffect, QueueSame, BatchSame
    <3>4. AfterDown' /\ DownOnce'
      BY <1>1, <1>2, <1>3, <2>1, <2>2, <2>3, <3>1 DEF SendEffect, QueueSame, BatchSame
    <3> QED BY <3>2, <3>3, <3>4
  <2>4. CASE Queue(<<"callback">>)
    <3>1. QueueAdds(<<"callback">>) /\ m_pending' \in Seq(Functors)
      BY <2>4, QueueIn, FunctorsDiffer
    <3>2. LifeTypes' /\ UpOnce' /\ LoopInv'
      BY <1>1, <1>2, <1>3, <2>1, <2>2, <3>1, FunctorsDiffer DEF SendEffect, QueueAdds, BatchSame
    <3>3. Unborn' /\ BeforeDown'
      BY <1>1, <1>2, <1>3, <2>1, <2>2, <3>1, FunctorsDiffer DEF SendEffect, QueueAdds, BatchSame
    <3>4. AfterDown' /\ DownOnce'
      BY <1>1, <1>2, <1>3, <2>1, <2>2, <3>1, FunctorsDiffer DEF SendEffect, QueueAdds, BatchSame
    <3> QED BY <3>2, <3>3, <3>4
  <2> QED BY <2>1, <2>3, <2>4 DEF SendEffect
<1> QED BY <1>4, <1>5, <1>6 DEF CallbackStep

(* What users on other threads do keeps it.                                    *)
LEMMA UserLife ==
  ASSUME LifeInv, UNCHANGED serverVars, NEW u \in Users, UserFinishes(u) \/ UserStep(u) \/ Drop(u)
  PROVE  LifeInv'
<1> USE DEF LifeInv, LifeTypes, UpOnce, Unborn, LoopInv, BeforeDown, AfterDown, DownOnce, Closing, Pending,
            serverVars, loop, conn, users, history
<1>1. /\ UNCHANGED <<m_channel, batch, batchHolds, phase, revents, ipc, ret, ownerRef, ups, downs>> /\ BatchSame
      /\ upc' \in [Users -> UserLabels]
  <2>1. <<"out">> \in UserLabels /\ <<"shutdown">> \in UserLabels /\ <<"forceClose">> \in UserLabels
        /\ \A m \in Message : <<"send", m>> \in UserLabels
    BY DEF UserLabels
  <2>2. /\ UNCHANGED <<m_channel, batch, batchHolds, phase, revents, ipc, ret, ownerRef, ups, downs>>
        /\ upc' = upc \/ \E l \in UserLabels : upc' = [upc EXCEPT ![u] = l]
    BY <2>1 DEF UserFinishes, UserStep, Send, Shutdown, ForceClose, SendQueue, ShutdownQueue, ForceCloseQueue, Drop
  <2> QED BY <2>2, SameIn
<1>2. server # "gone" => ups # 0
  <2>1. <<"out">>[1] # "send" /\ <<"out">> # <<"shutdown">> /\ <<"out">> # <<"forceClose">>
    OBVIOUS
  <2>2. u \in held \/ upc[u] # <<"out">>
    BY <2>1 DEF UserFinishes, UserStep, Send, Shutdown, ForceClose, SendQueue, ShutdownQueue, ForceCloseQueue, Drop
  <2> QED BY <2>2
<1>3. CASE UserStep(u) \/ Drop(u)
  <2>1. /\ UNCHANGED <<m_pending, revived>> /\ QueueSame
        /\ m_state' = m_state \/ (m_state = "kConnected" /\ m_state' = "kDisconnecting")
    BY <1>3, SameIn DEF UserStep, Send, Shutdown, ForceClose, Drop
  <2>2. LifeTypes' /\ UpOnce' /\ LoopInv'
    BY <1>1, <1>2, <2>1 DEF QueueSame, BatchSame
  <2>3. Unborn' /\ BeforeDown'
    BY <1>1, <1>2, <2>1 DEF QueueSame, BatchSame
  <2>4. AfterDown' /\ DownOnce'
    BY <1>1, <1>2, <2>1 DEF QueueSame, BatchSame
  <2> QED BY <2>2, <2>3, <2>4
<1>4. CASE SendQueue(u) \/ ShutdownQueue(u)
  <2>1. PICK x \in Functors \ {Established, Destroyed, ForceClosing} : Queue(x)
    <3>1. CASE SendQueue(u)
      <4>1. upc[u] \in UserLabels /\ upc[u][1] = "send"
        BY <3>1 DEF SendQueue
      <4>2. upc[u][2] \in Message
        BY <4>1 DEF UserLabels
      <4> QED BY <3>1, <4>2, FunctorsDiffer DEF SendQueue
    <3>2. CASE ShutdownQueue(u)
      BY <3>2, FunctorsDiffer DEF ShutdownQueue
    <3> QED BY <1>4, <3>1, <3>2
  <2>2. UNCHANGED <<m_state, revived>> /\ m_pending' \in Seq(Functors) /\ QueueAdds(x)
    BY <1>4, <2>1, QueueIn DEF SendQueue, ShutdownQueue
  <2>3. LifeTypes' /\ UpOnce' /\ LoopInv'
    BY <1>1, <1>2, <2>1, <2>2 DEF QueueAdds, BatchSame
  <2>4. Unborn' /\ BeforeDown'
    BY <1>1, <1>2, <2>1, <2>2 DEF QueueAdds, BatchSame
  <2>5. AfterDown' /\ DownOnce'
    BY <1>1, <1>2, <2>1, <2>2 DEF QueueAdds, BatchSame
  <2> QED BY <2>3, <2>4, <2>5
<1>5. CASE ForceCloseQueue(u)
  <2>1. /\ m_state' = "kDisconnecting" /\ revived' = (revived \/ m_state = "kDisconnected") /\ Queue(ForceClosing)
    BY <1>5 DEF ForceCloseQueue, ForceClosing
  <2>2. m_pending' \in Seq(Functors) /\ QueueAdds(ForceClosing)
    BY <2>1, QueueIn, FunctorsDiffer
  <2>3. LifeTypes' /\ UpOnce' /\ LoopInv'
    BY <1>1, <1>2, <2>1, <2>2, FunctorsDiffer DEF QueueAdds, BatchSame
  <2>4. Unborn' /\ BeforeDown'
    BY <1>1, <1>2, <2>1, <2>2, FunctorsDiffer DEF QueueAdds, BatchSame
  <2>5. AfterDown' /\ DownOnce'
    BY <1>1, <1>2, <2>1, <2>2, FunctorsDiffer DEF QueueAdds, BatchSame
  <2> QED BY <2>3, <2>4, <2>5
<1> QED BY <1>3, <1>4, <1>5 DEF UserFinishes

(* What the server does with the connection keeps it.                          *)
LEMMA ServerLife ==
  ASSUME LifeInv, NewConnection \/ ServerStep \/ Destructor \/ IoLoopEnds
  PROVE  LifeInv'
<1>0. m_channel \in Channels /\ (m_channel.epoll => m_channel.m_index = "kAdded")
  BY DEF LifeInv, LifeTypes, LoopInv
<1>1. enableReading(m_channel) \in Channels /\ enableReading(m_channel).m_index = "kAdded"
      /\ "read" \in enableReading(m_channel).m_events
      /\ (m_channel = NewChannel => enableReading(m_channel).epoll)
  BY <1>0, ChannelPlace
<1> USE DEF LifeInv, LifeTypes, UpOnce, Unborn, LoopInv, BeforeDown, AfterDown, DownOnce, Closing, Pending,
            serverVars, conn, users, history
<1>2. CASE NewConnection
  <2>1. /\ server = "new" /\ server' = "open" /\ ownerRef' /\ m_pending = <<>> /\ batch = <<>> /\ ups = 0
        /\ UNCHANGED <<batch, batchHolds, phase, revents, removals>> /\ BatchSame
        /\ \A y : ~In(m_pending, y) /\ ~In(batch, y) /\ OnlyFirst(m_pending, y)
    BY <1>2, SameIn, EmptyIn DEF NewConnection
  <2>2. CASE oneLoop
    <3>1. /\ ipc = "poll" /\ ups' = 1 /\ m_channel' = enableReading(m_channel) /\ ipc' = "callback" /\ ret' = "next"
          /\ UNCHANGED <<m_pending, upc, downs, revived>> /\ QueueSame
      BY <1>2, <2>1, <2>2, SameIn DEF NewConnection, connectEstablished, Callback
    <3>2. LifeTypes' /\ UpOnce' /\ LoopInv'
      BY <1>1, <2>1, <3>1 DEF QueueSame, BatchSame
    <3>3. Unborn' /\ BeforeDown'
      BY <1>1, <2>1, <3>1 DEF QueueSame, BatchSame
    <3>4. AfterDown' /\ DownOnce'
      BY <1>1, <2>1, <3>1 DEF QueueSame, BatchSame
    <3> QED BY <3>2, <3>3, <3>4
  <2>3. CASE ~oneLoop
    <3>1. /\ Queue(Established)
          /\ UNCHANGED <<m_state, m_channel, ipc, ret, upc, held, ups, downs, revived>>
      BY <1>2, <2>3 DEF NewConnection, Established
    <3>2. m_pending' \in Seq(Functors) /\ QueueAdds(Established)
      BY <3>1, QueueIn, FunctorsDiffer
    <3>3. LifeTypes' /\ UpOnce' /\ LoopInv'
      BY <2>1, <3>1, <3>2, FunctorsDiffer DEF QueueAdds, BatchSame
    <3>4. Unborn' /\ BeforeDown'
      BY <2>1, <3>1, <3>2, FunctorsDiffer DEF QueueAdds, BatchSame
    <3>5. AfterDown' /\ DownOnce'
      BY <2>1, <3>1, <3>2, FunctorsDiffer DEF QueueAdds, BatchSame
    <3> QED BY <3>3, <3>4, <3>5
  <2> QED BY <2>2, <2>3
<1>3. CASE CloseCallback
  <2>1. /\ ipc = "close" /\ ipc' = "next" /\ server # "new" /\ BatchSame
        /\ UNCHANGED <<m_state, m_channel, batch, batchHolds, phase, revents, ret, upc, held, ups, downs, revived, server>>
    BY <1>3, SameIn DEF CloseCallback
  <2>2. server = "open" => ups # 0 /\ downs > 0
    BY <2>1
  <2>3. CASE oneLoop
    <3>1. removals' = removals /\ ownerRef' = (removals' > 0) /\ Queue(Destroyed)
      BY <1>3, <2>3 DEF CloseCallback, Erase, Destroyed
    <3>2. m_pending' \in Seq(Functors) /\ QueueAdds(Destroyed)
      BY <3>1, QueueIn, FunctorsDiffer
    <3>3. LifeTypes' /\ UpOnce' /\ LoopInv'
      BY <2>1, <2>2, <3>1, <3>2, FunctorsDiffer DEF QueueAdds, BatchSame
    <3>4. Unborn' /\ BeforeDown'
      BY <2>1, <2>2, <3>1, <3>2, FunctorsDiffer DEF QueueAdds, BatchSame
    <3>5. AfterDown' /\ DownOnce'
      BY <2>1, <2>2, <3>1, <3>2, FunctorsDiffer DEF QueueAdds, BatchSame
    <3> QED BY <3>3, <3>4, <3>5
  <2>4. CASE ~oneLoop
    <3>1. removals' = removals + 1 /\ ownerRef' = (server = "open") /\ m_pending' = m_pending /\ QueueSame
      BY <1>3, <2>4, SameIn DEF CloseCallback
    <3>2. removals' \in Nat /\ removals' > 0
      BY <3>1
    <3>3. LifeTypes' /\ UpOnce' /\ LoopInv'
      BY <2>1, <2>2, <3>1, <3>2 DEF QueueSame, BatchSame
    <3>4. Unborn' /\ BeforeDown'
      BY <2>1, <2>2, <3>1, <3>2 DEF QueueSame, BatchSame
    <3>5. AfterDown' /\ DownOnce'
      BY <2>1, <2>2, <3>1, <3>2 DEF QueueSame, BatchSame
    <3> QED BY <3>3, <3>4, <3>5
  <2> QED BY <2>3, <2>4
<1>4. CASE RemoveConnectionInLoop
  <2>1. /\ server = "open" /\ removals > 0 /\ BatchSame /\ removals' = removals - 1
        /\ ownerRef' = (removals' > 0) /\ Queue(Destroyed)
        /\ UNCHANGED <<m_state, m_channel, batch, batchHolds, phase, revents, ipc, ret, upc, held, ups, downs, revived, server>>
    BY <1>4, SameIn DEF RemoveConnectionInLoop, Erase, Destroyed
  <2>2. removals' \in Nat /\ downs > 0 /\ ups # 0
    BY <2>1
  <2>3. m_pending' \in Seq(Functors) /\ QueueAdds(Destroyed)
    BY <2>1, QueueIn, FunctorsDiffer
  <2>4. LifeTypes' /\ UpOnce' /\ LoopInv'
    BY <2>1, <2>2, <2>3, FunctorsDiffer DEF QueueAdds, BatchSame
  <2>5. Unborn' /\ BeforeDown'
    BY <2>1, <2>2, <2>3, FunctorsDiffer DEF QueueAdds, BatchSame
  <2>6. AfterDown' /\ DownOnce'
    BY <2>1, <2>2, <2>3, FunctorsDiffer DEF QueueAdds, BatchSame
  <2> QED BY <2>4, <2>5, <2>6
<1>5. CASE Destructor
  <2>1. /\ server' = "gone" /\ BatchSame /\ (m_pending' = m_pending \/ Queue(Destroyed))
        /\ UNCHANGED <<m_channel, batch, batchHolds, phase, revents, ipc, ret, upc, ups, downs, removals>>
    BY <1>5, SameIn DEF Destructor, Destroyed
  <2>2. CASE m_pending' = m_pending
    BY <2>1, <2>2, SameIn DEF QueueSame, BatchSame
  <2>3. CASE Queue(Destroyed)
    BY <2>1, <2>3, QueueIn, FunctorsDiffer DEF QueueAdds, BatchSame
  <2> QED BY <2>1, <2>2, <2>3
<1>6. CASE IoLoopEnds
  <2>1. /\ server = "gone" /\ m_pending' = <<>> /\ BatchSame /\ ipc' = "ended"
        /\ UNCHANGED <<m_channel, batch, batchHolds, phase, revents, ret, upc, ups, downs, removals, server>>
    BY <1>6, SameIn DEF IoLoopEnds
  <2>2. m_pending' \in Seq(Functors) /\ \A y : ~In(m_pending, y)' /\ OnlyFirst(m_pending, y)'
    BY <2>1 DEF In, OnlyFirst
  <2> QED BY <2>1, <2>2 DEF BatchSame
<1> QED BY <1>2, <1>3, <1>4, <1>5, <1>6 DEF ServerStep

(* LifeInv is inductive.                                                       *)
LEMMA LifeInvHolds == Spec => []LifeInv
<1>1. Init => LifeInv
  <2> SUFFICES ASSUME Init PROVE LifeInv
    OBVIOUS
  <2>1. NewChannel \in Channels /\ ~NewChannel.epoll /\ NewChannel.m_events = {}
    BY DEF NewChannel, Channels, Events
  <2>2. upc \in [Users -> UserLabels] /\ <<>> \in Seq(Functors)
    BY DEF Init, ConnectionInit, UserLabels
  <2> QED BY <2>1, <2>2, EmptyIn
          DEF Init, ConnectionInit, LifeInv, LifeTypes, UpOnce, Unborn, LoopInv, BeforeDown, AfterDown, DownOnce,
              Closing, Pending
<1>2. LifeInv /\ [Next]_vars => LifeInv'
  <2> SUFFICES ASSUME LifeInv, [Next]_vars PROVE LifeInv'
    OBVIOUS
  <2>1. CASE UNCHANGED vars
    BY <2>1, SameIn DEF vars, connVars, conn, loop, users, history, serverVars, QueueSame, BatchSame,
       LifeInv, LifeTypes, UpOnce, Unborn, LoopInv, BeforeDown, AfterDown, DownOnce, Closing, Pending
  <2>2. CASE ConnectionNext /\ UNCHANGED serverVars
    <3>1. {} \in SUBSET {"close", "read", "write"}
      OBVIOUS
    <3>2. CASE IoStep
      BY <2>2, <3>1, <3>2, LoopLife, EventLife, FunctorLife DEF IoStep
    <3>3. ASSUME NEW evs \in SUBSET {"close", "read", "write"} \ {{}}, Poll(evs) PROVE LifeInv'
      BY <2>2, <3>3, LoopLife
    <3> QED BY <2>2, <3>2, <3>3, CallbackLife, UserLife DEF ConnectionNext
  <2> QED BY <2>1, <2>2, ServerLife DEF Next
<1> QED BY <1>1, <1>2, PTL DEF Spec

(***************************************************************************)
(* A connection goes up once, and down at most once and only after that    *)
(* (TcpConnection.cc:105-128, 189-200, 315-322), as long as no forceClose  *)
(* has overwritten kDisconnected.                                          *)
(***************************************************************************)
THEOREM UpThenDown == Spec => []UpThenDownOnce
<1>1. LifeInv => UpThenDownOnce
  BY DEF LifeInv, LifeTypes, UpOnce, Unborn, DownOnce, UpThenDownOnce
<1> QED BY <1>1, LifeInvHolds, PTL

(***************************************************************************)
(* While the server exists, the poller never keeps the channel of a freed  *)
(* connection (TcpConnection.cc:117-128, TcpServer.cc:94-105): what still  *)
(* has to take the channel out holds the connection.                       *)
(***************************************************************************)
THEOREM NoDanglingChannel == Spec => []ChannelNotDangling
<1>1. LifeInv => ChannelNotDangling
  <2> SUFFICES ASSUME LifeInv, server = "open", m_channel.epoll PROVE Alive
    BY DEF ChannelNotDangling
  <2>1. CASE downs = 0
    BY <2>1 DEF LifeInv, BeforeDown, Alive
  <2>2. CASE downs > 0
    <3>1. \A x \in Holding : Pending(x) => Alive
      BY DEF LifeInv, LoopInv, Pending, Alive, Holds
    <3>2. removals > 0 \/ Pending(Destroyed) \/ Closing \/ Pending(ForceClosing)
      BY <2>2 DEF LifeInv, AfterDown
    <3> QED BY <2>2, <3>1, <3>2, FunctorsDiffer DEF LifeInv, AfterDown, Closing, Alive
  <2> QED BY <2>1, <2>2 DEF LifeInv, LifeTypes
<1> QED BY <1>1, LifeInvHolds, PTL

-----------------------------------------------------------------------------
(***************************************************************************)
(* The state of an event loop keeps its types (EventLoop.h:88-101).        *)
(***************************************************************************)
THEOREM LoopTypeCorrect == LoopSpec => []LoopTypeOK
<1>1. LoopInit => LoopTypeOK
  <2> SUFFICES ASSUME LoopInit PROVE LoopTypeOK
    OBVIOUS
  <2>1. <<>> \in Seq(Functor)
    OBVIOUS
  <2>2. m_quit \in BOOLEAN /\ m_callingPendingFunctors \in BOOLEAN /\ wakeupFd \in BOOLEAN /\ active \in BOOLEAN
    BY DEF LoopInit
  <2>3. lpc \in LoopLabels /\ cpc \in [Callers -> {"out", "wakeup"}]
    BY DEF LoopInit, LoopLabels
  <2> QED BY <2>1, <2>2, <2>3 DEF LoopInit, LoopTypeOK
<1>2. LoopTypeOK /\ [LoopNext]_loopVars => LoopTypeOK'
  <2> SUFFICES ASSUME LoopTypeOK, [LoopNext]_loopVars PROVE LoopTypeOK'
    OBVIOUS
  <2> USE DEF LoopTypeOK, LoopLabels
  <2>1. CASE UNCHANGED loopVars
    BY <2>1 DEF loopVars
  <2>2. CASE LoopStart \/ QuitHere
    BY <2>2 DEF LoopStart, QuitHere
  <2>3. CASE LoopTest
    BY <2>3 DEF LoopTest
  <2>4. CASE PollWoken \/ PollOther \/ HandleRead
    BY <2>4 DEF PollWoken, PollOther, HandleRead
  <2>5. CASE DoPendingFunctors \/ Swap
    <3>1. <<>> \in Seq(Functor)
      OBVIOUS
    <3> QED BY <2>5, <3>1 DEF DoPendingFunctors, Swap
  <2>6. CASE RunFunctor
    <3>1. Head(functors) \in Functor /\ Tail(functors) \in Seq(Functor)
      BY <2>6 DEF RunFunctor
    <3>2. executed' \in Seq(Functor) /\ functors' \in Seq(Functor)
      BY <2>6, <3>1 DEF RunFunctor
    <3> QED BY <2>6, <3>2 DEF RunFunctor
  <2>7. CASE FunctorReturns \/ FunctorsDone
    BY <2>7 DEF FunctorReturns, FunctorsDone
  <2>8. ASSUME NEW f \in Functor, QueueInLoopHere(f) PROVE LoopTypeOK'
    <3>1. (wakeupFd \/ m_callingPendingFunctors) \in BOOLEAN
      OBVIOUS
    <3>2. wakeupFd' \in BOOLEAN
      BY <2>8, <3>1 DEF QueueInLoopHere
    <3>3. m_pendingFunctors' \in Seq(Functor) /\ queued' \in Seq(Functor)
      BY <2>8 DEF QueueInLoopHere
    <3>4. UNCHANGED <<m_quit, m_callingPendingFunctors, active, functors, lpc, cpc, executed>>
      BY <2>8 DEF QueueInLoopHere
    <3>5. m_quit' \in BOOLEAN /\ m_callingPendingFunctors' \in BOOLEAN /\ active' \in BOOLEAN
      BY <3>4
    <3>6. functors' \in Seq(Functor) /\ executed' \in Seq(Functor)
      BY <3>4
    <3>7. lpc' \in LoopLabels /\ cpc' \in [Callers -> {"out", "wakeup"}]
      BY <3>4
    <3> QED BY <3>2, <3>3, <3>5, <3>6, <3>7
  <2>9. ASSUME NEW c \in Callers, Wakeup(c) \/ Quit(c) \/ (\E f \in Functor : QueueInLoop(c, f))
        PROVE  LoopTypeOK'
    <3>1. cpc' \in [Callers -> {"out", "wakeup"}]
      BY <2>9 DEF Wakeup, Quit, QueueInLoop
    <3>2. CASE Wakeup(c)
      BY <3>1, <3>2 DEF Wakeup
    <3>3. CASE Quit(c)
      BY <3>1, <3>3 DEF Quit
    <3>4. ASSUME NEW f \in Functor, QueueInLoop(c, f) PROVE LoopTypeOK'
      <4>1. m_pendingFunctors' \in Seq(Functor) /\ queued' \in Seq(Functor)
        BY <3>4 DEF QueueInLoop
      <4> QED BY <3>1, <3>4, <4>1 DEF QueueInLoop
    <3> QED BY <2>9, <3>2, <3>3, <3>4
  <2> QED BY <2>1, <2>2, <2>3, <2>4, <2>5, <2>6, <2>7, <2>8, <2>9 DEF LoopNext, LoopStep
<1> QED BY <1>1, <1>2, PTL DEF LoopSpec

-----------------------------------------------------------------------------
(* A queued functor is on its way to be seen: a wake-up is coming, or the loop *)
(* will reach the swap before its next poll.                                   *)
FunctorsCovered == m_pendingFunctors # <<>> => WakeupComing \/ lpc \in {"events", "swap"}

QuitCovered == lpc = "poll" /\ m_quit => WakeupComing

(* The flag is up while the batch is taken and its functors run. *)
CallingIsKnown == lpc \in {"swap", "run", "functor"} => m_callingPendingFunctors

(***************************************************************************)
(* No wake-up of an event loop is lost (EventLoop.cc:46-111, 135-192), if  *)
(* the loop's own thread queues functors only from its callbacks.          *)
(***************************************************************************)
THEOREM NoWakeupLost == ASSUME EarlyQueue = FALSE PROVE LoopSpec => []WakeupNotLost
<1>1. LoopInit => FunctorsCovered /\ QuitCovered /\ CallingIsKnown
  BY DEF LoopInit, FunctorsCovered, QuitCovered, CallingIsKnown
<1>2. /\ LoopTypeOK /\ FunctorsCovered /\ QuitCovered /\ CallingIsKnown
      /\ [LoopNext]_loopVars
      => (FunctorsCovered /\ QuitCovered /\ CallingIsKnown)'
  <2> SUFFICES ASSUME LoopTypeOK, FunctorsCovered, QuitCovered, CallingIsKnown, [LoopNext]_loopVars
               PROVE  (FunctorsCovered /\ QuitCovered /\ CallingIsKnown)'
    OBVIOUS
  <2> USE DEF LoopTypeOK, FunctorsCovered, QuitCovered, CallingIsKnown, WakeupComing
  <2>1. CASE UNCHANGED loopVars
    BY <2>1 DEF loopVars
  <2>2. CASE LoopStart \/ QuitHere
    BY <2>2 DEF LoopStart, QuitHere
  <2>3. CASE LoopTest
    BY <2>3 DEF LoopTest
  <2>4. CASE PollWoken \/ PollOther \/ HandleRead
    BY <2>4 DEF PollWoken, PollOther, HandleRead
  <2>5. CASE DoPendingFunctors \/ Swap
    BY <2>5 DEF DoPendingFunctors, Swap
  <2>6. CASE RunFunctor \/ FunctorReturns \/ FunctorsDone
    BY <2>6 DEF RunFunctor, FunctorReturns, FunctorsDone
  <2>7. ASSUME NEW f \in Functor, QueueInLoopHere(f)
        PROVE  (FunctorsCovered /\ QuitCovered /\ CallingIsKnown)'
    <3>1. lpc \in {"events", "functor"} /\ UNCHANGED <<m_quit, m_callingPendingFunctors, lpc, cpc>>
      BY <2>7, EarlyQueue = FALSE DEF QueueInLoopHere
    <3>2. lpc = "functor" => wakeupFd'
      BY <2>7, <3>1 DEF QueueInLoopHere
    <3>3. FunctorsCovered'
      BY <3>1, <3>2
    <3>4. QuitCovered' /\ CallingIsKnown'
      BY <3>1
    <3> QED BY <3>3, <3>4
  <2>8. ASSUME NEW c \in Callers, Wakeup(c)
        PROVE  (FunctorsCovered /\ QuitCovered /\ CallingIsKnown)'
    BY <2>8 DEF Wakeup
  <2>9. ASSUME NEW c \in Callers, Quit(c) \/ (\E f \in Functor : QueueInLoop(c, f))
        PROVE  (FunctorsCovered /\ QuitCovered /\ CallingIsKnown)'
    <3>1. cpc'[c] = "wakeup"
      BY <2>9 DEF Quit, QueueInLoop
    <3> QED BY <2>9, <3>1 DEF Quit, QueueInLoop
  <2> QED BY <2>1, <2>2, <2>3, <2>4, <2>5, <2>6, <2>7, <2>8, <2>9 DEF LoopNext, LoopStep
<1>3. FunctorsCovered /\ QuitCovered => WakeupNotLost
  BY DEF FunctorsCovered, QuitCovered, WakeupNotLost
<1> QED BY <1>1, <1>2, <1>3, LoopTypeCorrect, PTL DEF LoopSpec

-----------------------------------------------------------------------------
(* Outside doPendingFunctors there is no batch. *)
BatchIsKnown == lpc \notin {"run", "functor"} => functors = <<>>

(* Appending commutes with concatenation. *)
LEMMA ConcatAppend ==
  ASSUME NEW S, NEW s \in Seq(S), NEW t \in Seq(S), NEW x \in S
  PROVE  s \o Append(t, x) = Append(s \o t, x)
  OBVIOUS

(* Moving the head of the second sequence to the end of the first. *)
LEMMA ConcatShift ==
  ASSUME NEW S, NEW s \in Seq(S), NEW t \in Seq(S), t # <<>>
  PROVE  Append(s, Head(t)) \o Tail(t) = s \o t
  OBVIOUS

(***************************************************************************)
(* Functors are executed once each and in the order of queueInLoop, for    *)
(* any number of callers and batches (EventLoop.cc:98-111, 176-192).       *)
(***************************************************************************)
THEOREM FunctorsExecutedInOrder == LoopSpec => []FunctorsInOrder
<1> DEFINE Inv == FunctorsInOrder /\ BatchIsKnown
<1>1. LoopInit => Inv
  BY DEF LoopInit, FunctorsInOrder, BatchIsKnown
<1>2. LoopTypeOK /\ Inv /\ [LoopNext]_loopVars => Inv'
  <2> SUFFICES ASSUME LoopTypeOK, Inv, [LoopNext]_loopVars PROVE Inv'
    OBVIOUS
  <2> USE DEF FunctorsInOrder, BatchIsKnown
  <2>0. /\ m_pendingFunctors \in Seq(Functor) /\ functors \in Seq(Functor) /\ executed \in Seq(Functor)
        /\ executed \o functors \in Seq(Functor)
    BY DEF LoopTypeOK
  <2>1. CASE UNCHANGED loopVars
    BY <2>1 DEF loopVars
  <2>2. CASE \/ LoopStart \/ QuitHere \/ LoopTest \/ PollWoken \/ PollOther \/ HandleRead
             \/ DoPendingFunctors \/ FunctorReturns \/ FunctorsDone
    BY <2>2 DEF LoopStart, QuitHere, LoopTest, PollWoken, PollOther, HandleRead, DoPendingFunctors,
       FunctorReturns, FunctorsDone
  <2>3. CASE Swap
    <3>1. functors = <<>> /\ functors' = m_pendingFunctors /\ m_pendingFunctors' = <<>>
          /\ UNCHANGED <<executed, queued>> /\ lpc' = "run"
      BY <2>3 DEF Swap
    <3>2. executed \o m_pendingFunctors \o <<>> = executed \o <<>> \o m_pendingFunctors
      BY <2>0
    <3> QED BY <3>1, <3>2
  <2>4. CASE RunFunctor
    <3>1. /\ functors # <<>> /\ executed' = Append(executed, Head(functors)) /\ functors' = Tail(functors)
          /\ UNCHANGED <<m_pendingFunctors, queued>> /\ lpc' = "functor"
      BY <2>4 DEF RunFunctor
    <3>2. executed' \o functors' = executed \o functors
      BY <2>0, <3>1, ConcatShift
    <3> QED BY <3>1, <3>2
  <2>5. ASSUME NEW f \in Functor, QueueInLoopHere(f) \/ (\E c \in Callers : QueueInLoop(c, f))
        PROVE  Inv'
    <3>1. /\ m_pendingFunctors' = Append(m_pendingFunctors, f) /\ queued' = Append(queued, f)
          /\ UNCHANGED <<executed, functors, lpc>>
      BY <2>5 DEF QueueInLoopHere, QueueInLoop
    <3>2. executed \o functors \o Append(m_pendingFunctors, f)
            = Append(executed \o functors \o m_pendingFunctors, f)
      <4> DEFINE e == executed \o functors
      <4>1. e \in Seq(Functor)
        BY <2>0
      <4> HIDE DEF e
      <4>2. e \o Append(m_pendingFunctors, f) = Append(e \o m_pendingFunctors, f)
        BY <2>0, <4>1, ConcatAppend
      <4> QED BY <4>2 DEF e
    <3> QED BY <3>1, <3>2
  <2>6. ASSUME NEW c \in Callers, Wakeup(c) \/ Quit(c) PROVE Inv'
    BY <2>6 DEF Wakeup, Quit
  <2> QED BY <2>1, <2>2, <2>3, <2>4, <2>5, <2>6 DEF LoopNext, LoopStep
<1> QED BY <1>1, <1>2, LoopTypeCorrect, PTL DEF LoopSpec

-----------------------------------------------------------------------------
(* A thread with an event loop only does to it what any loop allows. *)
LEMMA ThreadStepIsLoopStep ==
  ASSUME [ThreadNext]_loopThreadVars
  PROVE  [LoopNext]_loopVars
<1>1. CASE UNCHANGED loopThreadVars \/ StartLoop \/ StartLoopReturn \/ DestructorTest \/ DestructorJoin
  BY <1>1 DEF loopThreadVars, StartLoop, StartLoopReturn, DestructorTest, DestructorJoin
<1>2. CASE ThreadPromise \/ ThreadClear \/ ThreadExit
  BY <1>2 DEF ThreadPromise, ThreadClear, ThreadExit
<1>3. CASE ThreadLoop \/ LoopRuns
  BY <1>3 DEF ThreadLoop, LoopRuns, LoopNext
<1>4. CASE LoopCallback
  BY <1>4 DEF LoopCallback, LoopNext
<1>5. CASE DestructorQuit \/ DestructorWakeup
  BY <1>5, OwnerAssumption DEF DestructorQuit, DestructorWakeup, LoopNext
<1>6. ASSUME NEW c \in Callers, UseLoop(c) PROVE LoopNext
  BY <1>6 DEF UseLoop, LoopNext
<1> QED BY <1>1, <1>2, <1>3, <1>4, <1>5, <1>6 DEF ThreadNext, ThreadStep, OwnerStep

(***************************************************************************)
(* The loop of an EventLoopThread, started, used and stopped by its owner, *)
(* is an event loop: what holds of every loop holds of it                  *)
(* (EventLoopThread.cc:15-63).                                             *)
(***************************************************************************)
THEOREM LoopThreadRunsALoop == ThreadSpec => LoopSpec
<1>1. ThreadInit => LoopInit
  BY DEF ThreadInit
<1>2. [ThreadNext]_loopThreadVars => [LoopNext]_loopVars
  BY ThreadStepIsLoopStep
<1> QED BY <1>1, <1>2, PTL DEF ThreadSpec, LoopSpec

(***************************************************************************)
(* No wake-up of the loop of an EventLoopThread is lost, the ones of its   *)
(* destructor included (EventLoopThread.cc:15-63, EventLoop.cc:46-111),    *)
(* if the thread init callback queues no functor.                          *)
(***************************************************************************)
THEOREM NoWakeupOfThreadLost == ASSUME EarlyQueue = FALSE PROVE ThreadSpec => []WakeupNotLost
  BY LoopThreadRunsALoop, NoWakeupLost, PTL

(***************************************************************************)
(* Functors queued to an EventLoopThread run once each and in order        *)
(* (EventLoopThread.cc:15-63, EventLoop.cc:98-111, 176-192).               *)
(***************************************************************************)
THEOREM ThreadRunsFunctorsInOrder == ThreadSpec => []FunctorsInOrder
  BY LoopThreadRunsALoop, FunctorsExecutedInOrder, PTL
=============================================================================
