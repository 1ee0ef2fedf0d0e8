--------------------------- MODULE TcpClientProofs ---------------------------
(***************************************************************************)
(* Proofs about TcpClient, for any number of descriptors, calls and delays *)
(* and a careful owner (see Careful in TcpClient).                         *)
(***************************************************************************)
EXTENDS TcpClient, TLAPS

(* The functors still to run, in their order.                              *)
Work == batch \o pending
Once(s, x) == \A i, j \in 1..Len(s) : s[i] = x /\ s[j] = x => i = j
Follows(s, x, y) == \A i \in 1..Len(s) : s[i] = x => \E j \in 1..Len(s) : j > i /\ s[j] = y

Has(x) == In(Work, x)
New(x) == In(pending, x)
Single(x) == Once(Work, x)

(* Every start still queued is followed by a stop.                         *)
StopsFollow == Follows(Work, "startInLoop", "stopInLoop")

(* x, which is queued, runs before the loop looks at an event again.       *)
Soon(x) ==
  \/ phase = "events" /\ ready = {} /\ due = 0
  \/ phase = "functors" /\ ~New(x)

RoundInv ==
  /\ phase # "functors" => batch = <<>>
  /\ phase # "events" => ready = {} /\ due = 0
  /\ "connection" \in ready => "connector" \notin ready

(* There is one reason at a time for an attempt: a call, a queued start, a *)
(* retry, a start under way, an attempt or a connection.                   *)
OneReason ==
  /\ timers <= 1 /\ Single("startInLoop")
  /\ Has("startInLoop") => timers = 0
  /\ ucall = "start" => timers = 0 /\ ~Has("startInLoop")
  /\ m_state # "kDisconnected" \/ lpc \in {"start", "connect"} =>
       timers = 0 /\ ucall # "start" /\ ~Has("startInLoop")
  /\ lpc \in {"start", "connect"} => m_state = "kDisconnected"

(* The attempt and the connection have their descriptors.                  *)
AttemptInv ==
  /\ polled = (IF m_state = "kConnecting" THEN {m_channel} ELSE {})
  /\ m_state = "kConnecting" => m_channel # None
  /\ conn # "none" => connFd # None
  /\ conn # "none" /\ m_state = "kConnecting" => connFd # m_channel
  /\ NoDescriptorLeak

(* A queued reset finds its own channel.                                   *)
ResetInv ==
  Has("resetChannel") =>
    /\ m_state # "kConnecting" /\ lpc = "idle" /\ ucall # "start" /\ ~Has("startInLoop")
    /\ timers > 0 \/ m_state = "kConnected" => Soon("resetChannel")

(* A connection is destroyed before the next one is made.                  *)
ConnInv ==
  /\ ConnectionOpen => m_state = "kConnected" /\ lpc # "restart" /\ (m_connection <=> closeCallback = "client")
  /\ m_connection => ConnectionOpen /\ client
  /\ closeCallback = "loop" => ~client
  /\ Single("connectDestroyed") /\ (Has("connectDestroyed") <=> conn = "disconnected")
  /\ conn = "disconnected" /\ closeCallback = "client" => Soon("connectDestroyed")
  /\ conn = "disconnected" /\ closeCallback = "loop" => m_state = "kConnected"
  /\ lpc = "restart" => m_state = "kConnected" /\ closeCallback = "client"
  /\ Has("forceClose") => closeCallback = "loop"

(* What the owner wished last.                                             *)
WishInv ==
  /\ stopped => ~clientConnect /\ ~m_connect /\ lpc # "restart"
  /\ Has("stopInLoop") \/ ucall = "stop" =>
       ~m_connect /\ lpc # "restart" /\ (m_connection => ~clientConnect)
  /\ stopped /\ (lpc = "connect" \/ m_state = "kConnecting") => ucall = "stop" \/ Has("stopInLoop")
  /\ ~client => lpc = "idle" /\ ucall = "out" /\ (~m_connect \/ m_state = "kConnected") /\ StopsFollow
  /\ ~client /\ m_state = "kConnecting" => Has("stopInLoop")

ClientInv == TypeOK /\ RoundInv /\ OneReason /\ AttemptInv /\ ResetInv /\ ConnInv /\ WishInv

(* What an append does to a list of functors.                              *)
LEMMA AppendFacts ==
  ASSUME NEW S, NEW s \in Seq(S), NEW x \in S
  PROVE  /\ Append(s, x) \in Seq(S)
         /\ \A y : In(Append(s, x), y) <=> In(s, y) \/ y = x
         /\ \A y : Once(s, y) /\ (y # x \/ ~In(s, y)) => Once(Append(s, x), y)
         /\ \A y, z : Follows(s, y, z) /\ x # y => Follows(Append(s, x), y, z)
         /\ \A y : x # y => Follows(Append(s, x), y, x)
<1> DEFINE a == Append(s, x)
<1>1. /\ Len(s) \in Nat /\ a \in Seq(S) /\ Len(a) = Len(s) + 1 /\ a[Len(s) + 1] = x
      /\ DOMAIN s = 1..Len(s) /\ DOMAIN a = 1..Len(a)
      /\ \A i \in 1..Len(s) : a[i] = s[i]
  OBVIOUS
<1> HIDE DEF a
<1>2. \A i : i \in 1..Len(a) <=> i \in 1..Len(s) \/ i = Len(s) + 1
  BY <1>1
<1>3. /\ \A i \in 1..Len(s) : i \in 1..Len(a) /\ i # Len(s) + 1 /\ Len(s) + 1 > i
      /\ Len(s) + 1 \in 1..Len(a)
  BY <1>1, <1>2
<1>4. \A y : In(a, y) <=> In(s, y) \/ y = x
  BY <1>1, <1>2 DEF In
<1>5. \A y : Once(s, y) /\ (y # x \/ ~In(s, y)) => Once(a, y)
  BY <1>1, <1>2 DEF In, Once
<1>6. \A y, z : Follows(s, y, z) /\ x # y => Follows(a, y, z)
  BY <1>1, <1>2, <1>3 DEF Follows
<1>7. \A y : x # y => Follows(a, y, x)
  BY <1>1, <1>2, <1>3 DEF Follows
<1> QED BY <1>1, <1>4, <1>5, <1>6, <1>7 DEF a

(* What taking the head does to it.                                        *)
LEMMA TailFacts ==
  ASSUME NEW S, NEW s \in Seq(S), s # <<>>
  PROVE  /\ Tail(s) \in Seq(S) /\ Head(s) \in S
         /\ \A y : In(s, y) <=> y = Head(s) \/ In(Tail(s), y)
         /\ \A y : Once(s, y) => Once(Tail(s), y)
         /\ Once(s, Head(s)) => ~In(Tail(s), Head(s))
         /\ \A y, z : Follows(s, y, z) => Follows(Tail(s), y, z)
<1> DEFINE a == Tail(s)
<1>1. /\ Len(s) \in Nat \ {0} /\ Len(a) = Len(s) - 1 /\ Head(s) = s[1] /\ a \in Seq(S) /\ Head(s) \in S
      /\ DOMAIN s = 1..Len(s) /\ DOMAIN a = 1..Len(a)
      /\ \A i \in 1..Len(a) : a[i] = s[i + 1]
  OBVIOUS
<1> HIDE DEF a
<1>2. /\ \A i \in 1..Len(a) : i \in Int /\ i + 1 \in 1..Len(s) /\ i + 1 # 1
      /\ \A i \in 1..Len(s) : i \in Int /\ (i = 1 \/ (i - 1 \in 1..Len(a) /\ (i - 1) + 1 = i))
      /\ 1 \in 1..Len(s)
  BY <1>1
<1>3. \A y : In(a, y) <=> \E i \in 1..Len(a) : s[i + 1] = y
  BY <1>1 DEF In
<1>4. \A y : In(s, y) <=> \E i \in 1..Len(s) : s[i] = y
  BY <1>1 DEF In
<1>5. \A y : In(s, y) <=> y = Head(s) \/ In(a, y)
  <2>1. \A y : y = Head(s) \/ In(a, y) => In(s, y)
    BY <1>1, <1>2, <1>3, <1>4
  <2>2. \A y : In(s, y) => y = Head(s) \/ In(a, y)
    BY <1>1, <1>2, <1>3, <1>4
  <2> QED BY <2>1, <2>2
<1>6. ASSUME NEW y, Once(s, y) PROVE Once(a, y)
  <2> SUFFICES ASSUME NEW i \in 1..Len(a), NEW j \in 1..Len(a), a[i] = y, a[j] = y PROVE i = j
    BY DEF Once
  <2>1. i + 1 = j + 1
    BY <1>1, <1>2, <1>6 DEF Once
  <2> QED BY <1>2, <2>1
<1>7. Once(s, Head(s)) => ~In(a, Head(s))
  BY <1>1, <1>2, <1>3 DEF Once
<1>8. ASSUME NEW y, NEW z, Follows(s, y, z) PROVE Follows(a, y, z)
  <2> SUFFICES ASSUME NEW i \in 1..Len(a), a[i] = y PROVE \E j \in 1..Len(a) : j > i /\ a[j] = z
    BY DEF Follows
  <2>1. i + 1 \in 1..Len(s) /\ s[i + 1] = y
    BY <1>1, <1>2
  <2>2. PICK k \in 1..Len(s) : k > i + 1 /\ s[k] = z
    BY <1>8, <2>1 DEF Follows
  <2>3. k - 1 \in 1..Len(a) /\ (k - 1) + 1 = k /\ k - 1 > i
    BY <1>1, <1>2, <2>2
  <2> QED BY <1>1, <2>2, <2>3
<1> QED BY <1>1, <1>5, <1>6, <1>7, <1>8 DEF a

(* How the list of work follows the two queues.                            *)
LEMMA WorkFacts ==
  ASSUME NEW S, NEW b \in Seq(S), NEW p \in Seq(S)
  PROVE  /\ b \o p \in Seq(S)
         /\ \A x \in S : b \o Append(p, x) = Append(b \o p, x)
         /\ <<>> \o p = p /\ p \o <<>> = p
         /\ b # <<>> => b \o p # <<>> /\ Head(b \o p) = Head(b) /\ Tail(b) \o p = Tail(b \o p)
<1>1. b \o p \in Seq(S) /\ <<>> \o p = p /\ p \o <<>> = p
  OBVIOUS
<1>2. ASSUME NEW x \in S PROVE b \o Append(p, x) = Append(b \o p, x)
  OBVIOUS
<1>3. ASSUME b # <<>> PROVE b \o p # <<>> /\ Head(b \o p) = Head(b) /\ Tail(b) \o p = Tail(b \o p)
  BY <1>3
<1> QED BY <1>1, <1>2, <1>3

(* What a step does to the functors still to run: nothing, queue x, take   *)
(* the first, or take the first and queue x.                               *)
WorkSame ==
  /\ \A y : (Has(y)' <=> Has(y)) /\ (Single(y)' <=> Single(y)) /\ (New(y)' <=> New(y))
  /\ StopsFollow' <=> StopsFollow

WorkAdds(x) ==
  /\ \A y : Has(y)' <=> Has(y) \/ y = x
  /\ \A y : New(y)' <=> New(y) \/ y = x
  /\ \A y : Single(y) /\ (y # x \/ ~Has(y)) => Single(y)'
  /\ StopsFollow /\ x # "startInLoop" => StopsFollow'
  /\ x = "stopInLoop" => StopsFollow'
  /\ ~Has("startInLoop") /\ x # "startInLoop" => StopsFollow'

WorkTakes(x) ==
  /\ Has(x) /\ ~(batch = <<>>)
  /\ \A y : Has(y) <=> y = x \/ Has(y)'
  /\ \A y : New(y)' <=> New(y)
  /\ \A y : Single(y) => Single(y)'
  /\ Single(x) => ~Has(x)'
  /\ StopsFollow => StopsFollow'

WorkTurns(x, z) ==
  /\ Has(x) /\ ~(batch = <<>>)
  /\ \A y : y # z => (Has(y) <=> y = x \/ Has(y)')
  /\ Has(z)'
  /\ \A y : New(y)' <=> New(y) \/ y = z
  /\ \A y : Single(y) /\ (y # z \/ ~Has(y)) => Single(y)'
  /\ x # z /\ Single(x) => ~Has(x)'
  /\ StopsFollow /\ z # "startInLoop" => StopsFollow'

(* The primes of what is said of the functors.                             *)
LEMMA WorkPrimes ==
  /\ Work' = batch' \o pending'
  /\ \A y : /\ Has(y)' <=> In(batch' \o pending', y)
            /\ Single(y)' <=> Once(batch' \o pending', y)
            /\ New(y)' <=> In(pending', y)
  /\ StopsFollow' <=> Follows(batch' \o pending', "startInLoop", "stopInLoop")
BY DEF Work, Has, Single, New, StopsFollow, In, Once, Follows

(* A step that leaves both queues alone.                                  *)
LEMMA WorkStays == UNCHANGED <<batch, pending>> => WorkSame
BY WorkPrimes DEF WorkSame, Work, Has, Single, New, StopsFollow

(* Queueing a functor.                                                     *)
LEMMA QueueFacts ==
  ASSUME TypeOK, NEW x \in Functors, Queue(x), batch' = batch
  PROVE  WorkAdds(x) /\ pending' \in Seq(Functors) /\ pending' # <<>>
<1>1. batch \in Seq(Functors) /\ pending \in Seq(Functors)
  BY DEF TypeOK
<1>2. pending' = Append(pending, x) /\ pending' \in Seq(Functors) /\ pending' # <<>>
  BY <1>1 DEF Queue
<1>3. batch' \o pending' = Append(Work, x) /\ Work \in Seq(Functors)
  BY <1>1, <1>2, WorkFacts DEF Work
<1>4. /\ \A y : In(batch' \o pending', y) <=> In(Work, y) \/ y = x
      /\ \A y : Once(Work, y) /\ (y # x \/ ~In(Work, y)) => Once(batch' \o pending', y)
      /\ \A y, z : Follows(Work, y, z) /\ x # y => Follows(batch' \o pending', y, z)
      /\ \A y : x # y => Follows(batch' \o pending', y, x)
  BY <1>3, AppendFacts
<1>5. \A y : In(pending', y) <=> In(pending, y) \/ y = x
  BY <1>1, <1>2, AppendFacts
<1>6. ~Has("startInLoop") => Follows(Work, "startInLoop", "stopInLoop")
  <2>1. Work \in Seq(Functors) => DOMAIN Work = 1..Len(Work)
    OBVIOUS
  <2> QED BY <1>3, <2>1 DEF Has, In, Follows
<1>7. x = "stopInLoop" => x # "startInLoop"
  OBVIOUS
<1>8. /\ \A y : Has(y)' <=> Has(y) \/ y = x
      /\ \A y : New(y)' <=> New(y) \/ y = x
      /\ \A y : Single(y) /\ (y # x \/ ~Has(y)) => Single(y)'
  BY <1>4, <1>5, WorkPrimes DEF Has, New, Single
<1>9. /\ StopsFollow /\ x # "startInLoop" => StopsFollow'
      /\ x = "stopInLoop" => StopsFollow'
      /\ ~Has("startInLoop") /\ x # "startInLoop" => StopsFollow'
  BY <1>4, <1>6, <1>7, WorkPrimes DEF StopsFollow
<1> QED BY <1>2, <1>8, <1>9 DEF WorkAdds

(* Running the first functor of the batch.                                 *)
LEMMA TakeFacts ==
  ASSUME TypeOK, NEW x, Takes(x), pending' = pending
  PROVE  WorkTakes(x) /\ batch' \in Seq(Functors)
<1>1. batch \in Seq(Functors) /\ pending \in Seq(Functors)
  BY DEF TypeOK
<1>2. batch # <<>> /\ Head(batch) = x /\ batch' = Tail(batch) /\ batch' \in Seq(Functors)
  BY <1>1 DEF Takes
<1>3. batch' \o pending' = Tail(Work) /\ Work \in Seq(Functors) /\ Work # <<>> /\ Head(Work) = x
  BY <1>1, <1>2, WorkFacts DEF Work
<1>4. /\ \A y : In(Work, y) <=> y = x \/ In(batch' \o pending', y)
      /\ \A y : Once(Work, y) => Once(batch' \o pending', y)
      /\ Once(Work, x) => ~In(batch' \o pending', x)
      /\ \A y, z : Follows(Work, y, z) => Follows(batch' \o pending', y, z)
  BY <1>3, TailFacts
<1>5. /\ Has(x) /\ \A y : Has(y) <=> y = x \/ Has(y)'
      /\ \A y : New(y)' <=> New(y)
      /\ \A y : Single(y) => Single(y)'
      /\ Single(x) => ~Has(x)'
      /\ StopsFollow => StopsFollow'
  BY <1>4, WorkPrimes DEF Has, New, Single, StopsFollow
<1> QED BY <1>2, <1>5 DEF WorkTakes

(* Running a functor that queues another.                                  *)
LEMMA TurnFacts ==
  ASSUME TypeOK, NEW x, NEW z \in Functors, Takes(x), Queue(z)
  PROVE  WorkTurns(x, z) /\ batch' \in Seq(Functors) /\ pending' \in Seq(Functors)
<1>1. batch \in Seq(Functors) /\ pending \in Seq(Functors)
  BY DEF TypeOK
<1>2. batch # <<>> /\ Head(batch) = x /\ batch' = Tail(batch) /\ batch' \in Seq(Functors)
  BY <1>1 DEF Takes
<1>3. pending' = Append(pending, z) /\ pending' \in Seq(Functors)
  BY <1>1 DEF Queue
<1>4. PICK s \in Seq(Functors) : s = Tail(Work) /\ s = batch' \o pending
  <2>1. Work \in Seq(Functors) /\ Work # <<>> /\ batch' \o pending = Tail(Work)
    BY <1>1, <1>2, WorkFacts DEF Work
  <2>2. Tail(Work) \in Seq(Functors)
    BY <2>1, TailFacts
  <2> QED BY <2>1, <2>2
<1>5. batch' \o pending' = Append(s, z) /\ Work \in Seq(Functors) /\ Work # <<>> /\ Head(Work) = x
  <2>1. Work \in Seq(Functors) /\ Work # <<>> /\ Head(Work) = x
    BY <1>1, <1>2, WorkFacts DEF Work
  <2>2. batch' \o Append(pending, z) = Append(batch' \o pending, z)
    BY <1>1, <1>2, WorkFacts
  <2> QED BY <1>3, <1>4, <2>1, <2>2
<1>6. /\ \A y : In(Work, y) <=> y = x \/ In(s, y)
      /\ \A y : Once(Work, y) => Once(s, y)
      /\ Once(Work, x) => ~In(s, x)
      /\ \A y, w : Follows(Work, y, w) => Follows(s, y, w)
  BY <1>4, <1>5, TailFacts
<1>7. /\ \A y : In(batch' \o pending', y) <=> In(s, y) \/ y = z
      /\ \A y : Once(s, y) /\ (y # z \/ ~In(s, y)) => Once(batch' \o pending', y)
      /\ \A y, w : Follows(s, y, w) /\ z # y => Follows(batch' \o pending', y, w)
  BY <1>5, AppendFacts
<1>8. \A y : In(pending', y) <=> In(pending, y) \/ y = z
  BY <1>1, <1>3, AppendFacts
<1>9. /\ Has(x) /\ Has(z)'
      /\ \A y : y # z => (Has(y) <=> y = x \/ Has(y)')
      /\ \A y : New(y)' <=> New(y) \/ y = z
      /\ \A y : Single(y) /\ (y # z \/ ~Has(y)) => Single(y)'
  BY <1>6, <1>7, <1>8, WorkPrimes DEF Has, New, Single
<1>10. /\ x # z /\ Single(x) => ~Has(x)'
       /\ StopsFollow /\ z # "startInLoop" => StopsFollow'
  BY <1>6, <1>7, WorkPrimes DEF Has, Single, StopsFollow
<1> QED BY <1>2, <1>3, <1>9, <1>10 DEF WorkTurns

(* A new batch keeps the order; nothing is left behind in pending.         *)
LEMMA BatchFacts ==
  ASSUME TypeOK, batch = <<>>, batch' = pending, pending' = <<>>
  PROVE  /\ batch' \in Seq(Functors) /\ pending' \in Seq(Functors)
         /\ \A y : (Has(y)' <=> Has(y)) /\ (Single(y)' <=> Single(y)) /\ ~New(y)'
         /\ StopsFollow' <=> StopsFollow
<1>1. batch \in Seq(Functors) /\ pending \in Seq(Functors) /\ <<>> \in Seq(Functors)
  BY DEF TypeOK
<1>2. batch' \o pending' = Work
  BY <1>1, WorkFacts DEF Work
<1>3. \A y : ~In(<<>>, y)
  BY DEF In
<1> QED BY <1>1, <1>2, <1>3, WorkPrimes DEF Has, Single, StopsFollow

(* Work is what is queued.                                                 *)
LEMMA QueuedIs ==
  ASSUME TypeOK
  PROVE  \A x : /\ Queued(x) <=> Has(x)
                /\ batch = <<>> => (Has(x) <=> New(x))
                /\ pending = <<>> => ~New(x)
                /\ pending = <<>> /\ batch = <<>> => ~Has(x)
<1>1. batch \in Seq(Functors) /\ pending \in Seq(Functors)
  BY DEF TypeOK
<1>2. /\ Len(batch) \in Nat /\ Len(pending) \in Nat /\ Len(Work) = Len(batch) + Len(pending)
      /\ DOMAIN Work = 1..Len(Work) /\ DOMAIN batch = 1..Len(batch) /\ DOMAIN pending = 1..Len(pending)
      /\ \A i \in 1..Len(batch) : Work[i] = batch[i]
      /\ \A i \in 1..Len(pending) : Work[i + Len(batch)] = pending[i]
  BY <1>1 DEF Work
<1>3. ASSUME NEW x PROVE Queued(x) <=> Has(x)
  <2>1. ASSUME Queued(x) PROVE Has(x)
    <3>1. CASE In(batch, x)
      BY <1>2, <3>1 DEF In, Has
    <3>2. CASE In(pending, x)
      <4>1. PICK i \in 1..Len(pending) : pending[i] = x
        BY <1>2, <3>2 DEF In
      <4>2. i + Len(batch) \in 1..Len(Work)
        BY <1>2
      <4> QED BY <1>2, <4>1, <4>2 DEF In, Has
    <3> QED BY <2>1, <3>1, <3>2 DEF Queued
  <2>2. ASSUME Has(x) PROVE Queued(x)
    <3>1. PICK i \in 1..Len(Work) : Work[i] = x
      BY <1>2, <2>2 DEF In, Has
    <3>2. CASE i <= Len(batch)
      BY <1>2, <3>1, <3>2 DEF In, Queued
    <3>3. CASE i > Len(batch)
      <4>1. i - Len(batch) \in 1..Len(pending) /\ (i - Len(batch)) + Len(batch) = i
        BY <1>2, <3>3
      <4> QED BY <1>2, <3>1, <4>1 DEF In, Queued
    <3> QED BY <1>2, <3>2, <3>3
  <2> QED BY <2>1, <2>2
<1>4. \A x : ~In(<<>>, x)
  BY DEF In
<1> QED BY <1>3, <1>4 DEF Queued, New


(* connect, called by a careful owner, finds no other reason.              *)
LEMMA ConnectKeeps == ASSUME Careful, ClientInv, connect PROVE ClientInv'
<1>1. /\ UNCHANGED <<m_state, m_channel, m_retryDelayMs, polled, open, timers, failed, pending, batch,
                     phase, ready, due, lpc, m_connection, conn, connFd, closeCallback, held, m_retry, client>>
      /\ AtRest /\ ucall = "out" /\ client /\ calls < MaxCalls /\ calls' = calls + 1 /\ ucall' = "start"
      /\ clientConnect' = TRUE /\ m_connect' = TRUE /\ stopped' = FALSE
  BY DEF connect, Call, connVars, queueVars, roundVars
<1>2. WorkSame
  BY <1>1, WorkStays
<1>3. \A x : ~Has(x)
  BY <1>1, QueuedIs DEF AtRest, ClientInv
<1>4. TypeOK'
  <2>1. calls' \in 0..MaxCalls
    BY <1>1, ClientAssumption DEF ClientInv, TypeOK
  <2> QED BY <1>1, <2>1 DEF ClientInv, TypeOK
<1>5. RoundInv'
  BY <1>1 DEF ClientInv, RoundInv
<1>6. OneReason'
  BY <1>1, <1>2, <1>3 DEF ClientInv, OneReason, WorkSame, AtRest
<1>7. AttemptInv'
  BY <1>1 DEF ClientInv, AttemptInv, NoDescriptorLeak
<1>8. ResetInv'
  BY <1>2, <1>3 DEF ResetInv, WorkSame
<1>9. ConnInv'
  BY <1>1, <1>2, <1>3 DEF ClientInv, ConnInv, WorkSame, ConnectionOpen, Soon
<1>10. WishInv'
  BY <1>1, <1>2, <1>3 DEF ClientInv, WishInv, WorkSame, AtRest
<1> QED BY <1>4, <1>5, <1>6, <1>7, <1>8, <1>9, <1>10 DEF ClientInv

(* stop, called by a careful owner, meets no restart.                      *)
LEMMA StopKeeps == ASSUME Careful, ClientInv, stop PROVE ClientInv'
<1>1. /\ UNCHANGED <<m_state, m_channel, m_retryDelayMs, polled, open, timers, failed, pending, batch,
                     phase, ready, due, lpc, m_connection, conn, connFd, closeCallback, held, m_retry, client>>
      /\ lpc # "restart" /\ ucall = "out" /\ client /\ calls < MaxCalls /\ calls' = calls + 1 /\ ucall' = "stop"
      /\ clientConnect' = FALSE /\ m_connect' = FALSE /\ stopped' = TRUE
  BY DEF stop, Call, connVars, queueVars, roundVars
<1>2. WorkSame
  BY <1>1, WorkStays
<1>4. TypeOK'
  <2>1. calls' \in 0..MaxCalls
    BY <1>1, ClientAssumption DEF ClientInv, TypeOK
  <2> QED BY <1>1, <2>1 DEF ClientInv, TypeOK
<1>5. RoundInv'
  BY <1>1 DEF ClientInv, RoundInv
<1>6. OneReason'
  BY <1>1, <1>2 DEF ClientInv, OneReason, WorkSame
<1>7. AttemptInv'
  BY <1>1 DEF ClientInv, AttemptInv, NoDescriptorLeak
<1>8. ResetInv'
  BY <1>1, <1>2 DEF ClientInv, ResetInv, WorkSame, Soon
<1>9. ConnInv'
  BY <1>1, <1>2 DEF ClientInv, ConnInv, WorkSame, ConnectionOpen, Soon
<1>10. WishInv'
  BY <1>1, <1>2 DEF ClientInv, WishInv, WorkSame
<1> QED BY <1>4, <1>5, <1>6, <1>7, <1>8, <1>9, <1>10 DEF ClientInv

(* A call queues its functor.                                              *)
LEMMA CallQueuesKeeps == ASSUME ClientInv, CallQueues PROVE ClientInv'
<1> DEFINE x == IF ucall = "start" THEN "startInLoop" ELSE "stopInLoop"
<1>1. /\ UNCHANGED <<m_connect, m_state, m_channel, m_retryDelayMs, polled, open, timers, failed, batch,
                     phase, ready, due, lpc, m_connection, conn, connFd, closeCallback, held, clientConnect,
                     m_retry, client, calls, stopped>>
      /\ ucall \in {"start", "stop"} /\ Queue(x) /\ ucall' = "out" /\ x \in Functors
  BY DEF CallQueues, connVars, connectorVars, roundVars, ClientInv, TypeOK, Functors
<1>2. WorkAdds(x) /\ pending' \in Seq(Functors)
  BY <1>1, QueueFacts DEF ClientInv
<1>4. TypeOK'
  BY <1>1, <1>2 DEF ClientInv, TypeOK
<1>5. RoundInv'
  BY <1>1 DEF ClientInv, RoundInv
<1>6. OneReason'
  BY <1>1, <1>2 DEF ClientInv, OneReason, WorkAdds
<1>7. AttemptInv'
  BY <1>1 DEF ClientInv, AttemptInv, NoDescriptorLeak
<1>8. ResetInv'
  BY <1>1, <1>2 DEF ClientInv, ResetInv, WorkAdds, Soon
<1>9. ConnInv'
  BY <1>1, <1>2 DEF ClientInv, ConnInv, WorkAdds, ConnectionOpen, Soon
<1>10. WishInv'
  BY <1>1, <1>2 DEF ClientInv, WishInv, WorkAdds
<1> QED BY <1>4, <1>5, <1>6, <1>7, <1>8, <1>9, <1>10 DEF ClientInv

(* disconnect concerns the connection alone.                               *)
LEMMA DisconnectKeeps == ASSUME ClientInv, disconnect PROVE ClientInv'
<1>1. /\ UNCHANGED <<m_connect, m_state, m_channel, m_retryDelayMs, polled, open, timers, failed, pending, batch,
                     phase, ready, due, lpc, m_connection, connFd, closeCallback, held, m_retry, client, stopped>>
      /\ ucall = "out" /\ ucall' = "out" /\ calls < MaxCalls /\ calls' = calls + 1 /\ client
      /\ clientConnect' = FALSE /\ conn' = IF m_connection /\ conn = "connected" THEN "disconnecting" ELSE conn
  BY DEF disconnect, Call, connectorVars, queueVars, roundVars
<1>2. WorkSame
  BY <1>1, WorkStays
<1>3. /\ conn' = "disconnected" <=> conn = "disconnected"
      /\ conn' = "none" <=> conn = "none"
      /\ conn' \in {"connected", "disconnecting"} <=> conn \in {"connected", "disconnecting"}
  BY <1>1
<1>4. TypeOK'
  <2>1. calls' \in 0..MaxCalls
    BY <1>1, ClientAssumption DEF ClientInv, TypeOK
  <2> QED BY <1>1, <2>1 DEF ClientInv, TypeOK
<1>5. RoundInv'
  BY <1>1 DEF ClientInv, RoundInv
<1>6. OneReason'
  BY <1>1, <1>2 DEF ClientInv, OneReason, WorkSame
<1>7. AttemptInv'
  BY <1>1, <1>3 DEF ClientInv, AttemptInv, NoDescriptorLeak
<1>8. ResetInv'
  BY <1>1, <1>2 DEF ClientInv, ResetInv, WorkSame, Soon
<1>9. ConnInv'
  BY <1>1, <1>2, <1>3 DEF ClientInv, ConnInv, WorkSame, ConnectionOpen, Soon
<1>10. WishInv'
  BY <1>1, <1>2 DEF ClientInv, WishInv, WorkSame
<1> QED BY <1>4, <1>5, <1>6, <1>7, <1>8, <1>9, <1>10 DEF ClientInv

(* So does a user's pointer, and a step of something else.                 *)
LEMMA HoldKeeps == ASSUME ClientInv, HoldConnection \/ UNCHANGED vars PROVE ClientInv'
<1>1. /\ UNCHANGED <<m_connect, m_state, m_channel, m_retryDelayMs, polled, open, timers, failed, pending, batch,
                     phase, ready, due, lpc, m_connection, conn, connFd, closeCallback, clientConnect, m_retry,
                     client, ucall, calls, stopped>>
      /\ held' \in BOOLEAN
  BY DEF HoldConnection, connectorVars, queueVars, roundVars, ownerVars, connVars, vars, ClientInv, TypeOK
<1>2. WorkSame
  BY <1>1, WorkStays
<1>4. TypeOK'
  BY <1>1 DEF ClientInv, TypeOK
<1>5. RoundInv' /\ AttemptInv'
  BY <1>1 DEF ClientInv, RoundInv, AttemptInv, NoDescriptorLeak
<1>6. OneReason' /\ ResetInv'
  BY <1>1, <1>2 DEF ClientInv, OneReason, ResetInv, WorkSame, Soon
<1>9. ConnInv'
  BY <1>1, <1>2 DEF ClientInv, ConnInv, WorkSame, ConnectionOpen, Soon
<1>10. WishInv'
  BY <1>1, <1>2 DEF ClientInv, WishInv, WorkSame
<1> QED BY <1>4, <1>5, <1>6, <1>9, <1>10 DEF ClientInv

(* The destructor, with a connection or without one.                       *)
LEMMA DestructorKeeps == ASSUME ClientInv, Destructor PROVE ClientInv'
<1>1. /\ UNCHANGED <<m_state, m_channel, m_retryDelayMs, polled, open, timers, failed, batch, phase, ready, due,
                     lpc, connFd, held, clientConnect, m_retry, ucall, calls, stopped>>
      /\ client /\ ucall = "out" /\ lpc = "idle" /\ client' = FALSE /\ m_connection' = FALSE
  BY DEF Destructor, roundVars
<1>2. CASE m_connection
  <2>1. /\ m_connect' = m_connect /\ closeCallback' = "loop"
        /\ \/ UNCHANGED <<conn, pending>>
           \/ conn' = "disconnecting" /\ Queue("forceClose")
    BY <1>2 DEF Destructor
  <2>2. ConnectionOpen /\ m_state = "kConnected" /\ ~Has("startInLoop") /\ ~Has("connectDestroyed")
    <3>1. ConnectionOpen /\ m_state = "kConnected" /\ conn # "disconnected"
      BY <1>2 DEF ClientInv, ConnInv, ConnectionOpen
    <3>2. ~Has("connectDestroyed")
      BY <3>1 DEF ClientInv, ConnInv
    <3> QED BY <3>1, <3>2 DEF ClientInv, OneReason
  <2>3. conn' \in {"connected", "disconnecting"} /\ conn \in {"connected", "disconnecting"}
    BY <2>1, <2>2 DEF ConnectionOpen
  <2>4. /\ \A y : y # "forceClose" => (Has(y)' <=> Has(y)) /\ (New(y)' <=> New(y)) /\ (Single(y) => Single(y)')
        /\ StopsFollow' /\ pending' \in Seq(Functors)
    <3>1. CASE UNCHANGED <<conn, pending>>
      <4>1. WorkSame
        BY <1>1, <3>1, WorkStays
      <4>2. StopsFollow
        BY <2>2, QueuedIs DEF ClientInv, StopsFollow, Follows, Has, In, TypeOK, Work
      <4> QED BY <3>1, <4>1, <4>2 DEF WorkSame, ClientInv, TypeOK
    <3>2. CASE Queue("forceClose")
      <4>1. "forceClose" \in Functors
        BY DEF Functors
      <4>2. WorkAdds("forceClose") /\ pending' \in Seq(Functors)
        BY <1>1, <3>2, <4>1, QueueFacts DEF ClientInv
      <4> QED BY <2>2, <4>2 DEF WorkAdds
    <3> QED BY <2>1, <3>1, <3>2
  <2>5. TypeOK'
    BY <1>1, <2>1, <2>3, <2>4 DEF ClientInv, TypeOK
  <2>6. RoundInv' /\ AttemptInv'
    BY <1>1, <2>3 DEF ClientInv, RoundInv, AttemptInv, NoDescriptorLeak
  <2>7. OneReason' /\ ResetInv'
    BY <1>1, <2>4 DEF ClientInv, OneReason, ResetInv, Soon
  <2>8. ConnInv'
    BY <1>1, <2>1, <2>2, <2>3, <2>4 DEF ClientInv, ConnInv, ConnectionOpen
  <2>9. WishInv'
    BY <1>1, <2>1, <2>2, <2>4 DEF ClientInv, WishInv
  <2> QED BY <2>5, <2>6, <2>7, <2>8, <2>9 DEF ClientInv
<1>3. CASE ~m_connection
  <2>1. m_connect' = FALSE /\ Queue("stopInLoop") /\ UNCHANGED <<closeCallback, conn>>
    BY <1>3 DEF Destructor
  <2>2. "stopInLoop" \in Functors
    BY DEF Functors
  <2>3. WorkAdds("stopInLoop") /\ pending' \in Seq(Functors)
    BY <1>1, <2>1, <2>2, QueueFacts DEF ClientInv
  <2>5. TypeOK'
    BY <1>1, <2>1, <2>3 DEF ClientInv, TypeOK
  <2>6. RoundInv' /\ AttemptInv'
    BY <1>1, <2>1 DEF ClientInv, RoundInv, AttemptInv, NoDescriptorLeak
  <2>7. OneReason' /\ ResetInv'
    BY <1>1, <2>3 DEF ClientInv, OneReason, ResetInv, Soon, WorkAdds
  <2>8. ConnInv'
    BY <1>1, <1>3, <2>1, <2>3 DEF ClientInv, ConnInv, ConnectionOpen, Soon, WorkAdds
  <2>9. WishInv'
    BY <1>1, <2>1, <2>3 DEF ClientInv, WishInv, WorkAdds
  <2> QED BY <2>5, <2>6, <2>7, <2>8, <2>9 DEF ClientInv
<1> QED BY <1>2, <1>3

(* What was queued soon runs.                                              *)
LEMMA StartBatchKeeps == ASSUME ClientInv, StartBatch, UNCHANGED <<connVars, ownerVars>> PROVE ClientInv'
<1>1. /\ UNCHANGED <<m_connect, m_state, m_channel, m_retryDelayMs, polled, open, timers, failed, ready, due, lpc,
                     m_connection, conn, connFd, closeCallback, held, clientConnect, m_retry, client, ucall,
                     calls, stopped>>
      /\ phase = "events" /\ lpc = "idle" /\ ready = {} /\ due = 0 /\ phase' = "functors"
      /\ batch' = pending /\ pending' = <<>> /\ batch = <<>>
  BY DEF StartBatch, connectorVars, connVars, ownerVars, ClientInv, RoundInv
<1>2. /\ batch' \in Seq(Functors) /\ pending' \in Seq(Functors)
      /\ \A y : (Has(y)' <=> Has(y)) /\ (Single(y)' <=> Single(y)) /\ ~New(y)'
      /\ StopsFollow' <=> StopsFollow
  BY <1>1, BatchFacts DEF ClientInv
<1>3. TypeOK'
  BY <1>1, <1>2 DEF ClientInv, TypeOK
<1>4. RoundInv' /\ AttemptInv'
  BY <1>1 DEF ClientInv, RoundInv, AttemptInv, NoDescriptorLeak
<1>5. OneReason' /\ ResetInv'
  BY <1>1, <1>2 DEF ClientInv, OneReason, ResetInv, Soon
<1>6. ConnInv'
  BY <1>1, <1>2 DEF ClientInv, ConnInv, ConnectionOpen, Soon
<1>7. WishInv'
  BY <1>1, <1>2 DEF ClientInv, WishInv
<1> QED BY <1>3, <1>4, <1>5, <1>6, <1>7 DEF ClientInv

(* A batch that has ended has left nothing that was to run soon.           *)
LEMMA EndBatchKeeps == ASSUME ClientInv, EndBatch, UNCHANGED <<connVars, ownerVars>> PROVE ClientInv'
<1>1. /\ UNCHANGED <<m_connect, m_state, m_channel, m_retryDelayMs, polled, open, timers, failed, ready, due, lpc,
                     pending, batch, m_connection, conn, connFd, closeCallback, held, clientConnect, m_retry,
                     client, ucall, calls, stopped>>
      /\ phase = "functors" /\ lpc = "idle" /\ phase' = "poll" /\ batch = <<>>
  BY DEF EndBatch, connectorVars, connVars, ownerVars, queueVars
<1>2. WorkSame /\ \A x : Soon(x) => ~Has(x)
  BY <1>1, WorkStays, QueuedIs DEF ClientInv, Soon
<1>3. TypeOK'
  BY <1>1 DEF ClientInv, TypeOK
<1>4. RoundInv' /\ AttemptInv'
  BY <1>1 DEF ClientInv, RoundInv, AttemptInv, NoDescriptorLeak
<1>5. OneReason' /\ ResetInv'
  BY <1>1, <1>2 DEF ClientInv, OneReason, ResetInv, WorkSame
<1>6. ConnInv'
  BY <1>1, <1>2 DEF ClientInv, ConnInv, ConnectionOpen, WorkSame
<1>7. WishInv'
  BY <1>1, <1>2 DEF ClientInv, WishInv, WorkSame
<1> QED BY <1>3, <1>4, <1>5, <1>6, <1>7 DEF ClientInv

(* The poll reports the attempt's socket or the connection's, never both.  *)
LEMMA PollKeeps == ASSUME ClientInv, PollStep PROVE ClientInv'
<1>1. /\ UNCHANGED <<m_connect, m_state, m_channel, m_retryDelayMs, polled, open, timers, failed, lpc,
                     pending, batch, m_connection, conn, connFd, closeCallback, held, clientConnect, m_retry,
                     client, ucall, calls, stopped>>
      /\ phase = "poll" /\ lpc = "idle" /\ phase' = "events" /\ due' \in 0..timers
  BY DEF PollStep, Poll, connectorVars, connVars, ownerVars, queueVars
<1>2. /\ ready' \subseteq {"connector", "connection"}
      /\ "connector" \in ready' => m_state = "kConnecting"
      /\ "connection" \in ready' => m_state = "kConnected"
  <2>1. PICK extra \in SUBSET (IF ConnectionOpen THEN {"connection"} ELSE {}) : Poll(extra)
    BY DEF PollStep
  <2>2. PICK socket \in SUBSET (IF polled = {} THEN {} ELSE {"connector"}) : ready' = socket \union extra
    BY <2>1 DEF Poll
  <2>3. polled # {} => m_state = "kConnecting"
    BY DEF ClientInv, AttemptInv
  <2>4. ConnectionOpen => m_state = "kConnected"
    BY DEF ClientInv, ConnInv
  <2> QED BY <2>2, <2>3, <2>4
<1>3. WorkSame /\ \A x : ~Soon(x)
  BY <1>1, WorkStays DEF Soon
<1>4. TypeOK'
  BY <1>1, <1>2 DEF ClientInv, TypeOK
<1>5. RoundInv' /\ AttemptInv'
  BY <1>1, <1>2 DEF ClientInv, RoundInv, AttemptInv, NoDescriptorLeak
<1>6. OneReason' /\ ResetInv'
  BY <1>1, <1>3 DEF ClientInv, OneReason, ResetInv, WorkSame
<1>7. ConnInv'
  BY <1>1, <1>3 DEF ClientInv, ConnInv, ConnectionOpen, WorkSame
<1>8. WishInv'
  BY <1>1, <1>3 DEF ClientInv, WishInv, WorkSame
<1> QED BY <1>4, <1>5, <1>6, <1>7, <1>8 DEF ClientInv

(* A start that is run tests whether it is wanted.                         *)
LEMMA RunStartKeeps == ASSUME ClientInv, RunStart, UNCHANGED <<connVars, ownerVars>> PROVE ClientInv'
<1>1. /\ UNCHANGED <<m_connect, m_state, m_channel, m_retryDelayMs, polled, open, timers, failed, pending, phase,
                     ready, due, m_connection, conn, connFd, closeCallback, held, clientConnect, m_retry, client,
                     ucall, calls, stopped>>
      /\ Takes("startInLoop") /\ phase = "functors" /\ lpc = "idle"
      /\ lpc' = IF m_state = "kDisconnected" /\ m_connect THEN "connect" ELSE "idle"
  BY DEF RunStart, Takes, StartTest, connectorVars, connVars, ownerVars, roundVars
<1>2. WorkTakes("startInLoop") /\ batch' \in Seq(Functors)
  BY <1>1, TakeFacts DEF ClientInv
<1>3. /\ timers = 0 /\ ucall # "start" /\ ~Has("startInLoop")' /\ ~Has("resetChannel") /\ ~(batch = <<>>)
  BY <1>2 DEF ClientInv, OneReason, ResetInv, WorkTakes
<1>4. TypeOK'
  BY <1>1, <1>2 DEF ClientInv, TypeOK
<1>5. RoundInv' /\ AttemptInv'
  BY <1>1 DEF ClientInv, RoundInv, AttemptInv, NoDescriptorLeak
<1>6. OneReason' /\ ResetInv'
  BY <1>1, <1>2, <1>3 DEF ClientInv, OneReason, ResetInv, WorkTakes
<1>7. ConnInv'
  BY <1>1, <1>2 DEF ClientInv, ConnInv, ConnectionOpen, Soon, WorkTakes
<1>8. WishInv'
  BY <1>1, <1>2 DEF ClientInv, WishInv, WorkTakes
<1> QED BY <1>4, <1>5, <1>6, <1>7, <1>8 DEF ClientInv

(* So does one that comes from a retry, the only one there is.             *)
LEMMA RunTimerKeeps == ASSUME ClientInv, RunTimer, UNCHANGED <<connVars, ownerVars>> PROVE ClientInv'
<1>1. /\ UNCHANGED <<m_connect, m_state, m_channel, m_retryDelayMs, polled, open, failed, pending, batch, phase,
                     ready, m_connection, conn, connFd, closeCallback, held, clientConnect, m_retry, client,
                     ucall, calls, stopped>>
      /\ phase = "events" /\ lpc = "idle" /\ due > 0 /\ due' = due - 1 /\ timers' = timers - 1
      /\ lpc' = IF m_state = "kDisconnected" /\ m_connect THEN "connect" ELSE "idle"
  BY DEF RunTimer, StartTest, connVars, ownerVars, queueVars
<1>2. WorkSame
  BY <1>1, WorkStays
<1>3. due \in 0..timers /\ timers \in 0..1 /\ timers = 1 /\ due = 1 /\ timers' = 0 /\ due' = 0
  BY <1>1, ConnectorAssumption DEF ClientInv, TypeOK, OneReason
<1>4. /\ m_state = "kDisconnected" /\ ucall # "start" /\ ~Has("startInLoop") /\ ~Has("resetChannel")
      /\ ~Soon("connectDestroyed")
  BY <1>1, <1>3 DEF ClientInv, OneReason, ResetInv, Soon
<1>5. TypeOK'
  BY <1>1, <1>3, ConnectorAssumption DEF ClientInv, TypeOK
<1>6. RoundInv' /\ AttemptInv'
  BY <1>1, <1>3 DEF ClientInv, RoundInv, AttemptInv, NoDescriptorLeak
<1>7. OneReason' /\ ResetInv'
  BY <1>1, <1>2, <1>3, <1>4 DEF ClientInv, OneReason, ResetInv, WorkSame
<1>8. ConnInv'
  BY <1>1, <1>2, <1>4 DEF ClientInv, ConnInv, ConnectionOpen, WorkSame
<1>9. WishInv'
  BY <1>1, <1>2 DEF ClientInv, WishInv, WorkSame
<1> QED BY <1>5, <1>6, <1>7, <1>8, <1>9 DEF ClientInv

(* So does the one that a restart leads to.                                *)
LEMMA RestartTestKeeps == ASSUME ClientInv, RestartTest, UNCHANGED <<connVars, ownerVars>> PROVE ClientInv'
<1>1. /\ UNCHANGED <<m_connect, m_state, m_channel, m_retryDelayMs, polled, open, timers, failed, pending, batch,
                     phase, ready, due, m_connection, conn, connFd, closeCallback, held, clientConnect, m_retry,
                     client, ucall, calls, stopped>>
      /\ lpc = "start"
      /\ lpc' = IF m_state = "kDisconnected" /\ m_connect THEN "connect" ELSE "idle"
  BY DEF RestartTest, StartTest, connectorVars, queueVars, roundVars, connVars, ownerVars
<1>2. WorkSame
  BY <1>1, WorkStays
<1>3. TypeOK'
  BY <1>1 DEF ClientInv, TypeOK
<1>4. RoundInv' /\ AttemptInv'
  BY <1>1 DEF ClientInv, RoundInv, AttemptInv, NoDescriptorLeak
<1>5. OneReason' /\ ResetInv'
  BY <1>1, <1>2 DEF ClientInv, OneReason, ResetInv, WorkSame
<1>6. ConnInv'
  BY <1>1, <1>2 DEF ClientInv, ConnInv, ConnectionOpen, Soon, WorkSame
<1>7. WishInv'
  BY <1>1, <1>2 DEF ClientInv, WishInv, WorkSame
<1> QED BY <1>3, <1>4, <1>5, <1>6, <1>7 DEF ClientInv

(* A restart takes the place of the connection it follows.                 *)
LEMMA RestartKeeps == ASSUME ClientInv, Restart, UNCHANGED <<connVars, ownerVars>> PROVE ClientInv'
<1>1. /\ UNCHANGED <<m_channel, polled, open, timers, failed, pending, batch, phase, ready, due, m_connection,
                     conn, connFd, closeCallback, held, clientConnect, m_retry, client, ucall, calls, stopped>>
      /\ lpc = "restart" /\ m_state' = "kDisconnected" /\ m_retryDelayMs' = InitDelay /\ m_connect' = TRUE
      /\ lpc' = "start"
  BY DEF Restart, queueVars, roundVars, connVars, ownerVars
<1>2. WorkSame
  BY <1>1, WorkStays
<1>3. InitDelay \in InitDelay..MaxDelay
  BY ConnectorAssumption
<1>4. TypeOK'
  BY <1>1, <1>3 DEF ClientInv, TypeOK
<1>5. RoundInv' /\ AttemptInv'
  BY <1>1 DEF ClientInv, RoundInv, AttemptInv, NoDescriptorLeak, ConnInv
<1>6. OneReason' /\ ResetInv'
  BY <1>1, <1>2 DEF ClientInv, OneReason, ResetInv, ConnInv, WorkSame
<1>7. ConnInv'
  BY <1>1, <1>2 DEF ClientInv, ConnInv, ConnectionOpen, Soon, WorkSame
<1>8. WishInv'
  BY <1>1, <1>2 DEF ClientInv, WishInv, WorkSame
<1> QED BY <1>4, <1>5, <1>6, <1>7, <1>8 DEF ClientInv

(* What a failed attempt does to the retries and the delay.                *)
LEMMA RetryFacts ==
  ASSUME ClientInv, timers = 0, NEW s, retry(s)
  PROVE  /\ open' = open \ {s} /\ m_state' = "kDisconnected"
         /\ timers' \in 0..1 /\ timers' <= MaxTimers /\ (timers' = 1 => m_connect)
         /\ m_retryDelayMs' \in InitDelay..MaxDelay
<1>1. m_retryDelayMs \in InitDelay..MaxDelay /\ InitDelay \in Nat /\ MaxDelay \in Nat /\ MaxTimers \in Nat \ {0}
  BY ConnectorAssumption DEF ClientInv, TypeOK
<1>2. Backoff => m_retryDelayMs' \in InitDelay..MaxDelay
  BY <1>1, ConnectorAssumption DEF Backoff
<1> QED BY <1>1, <1>2 DEF retry

(* An attempt gets a descriptor of its own.                                *)
LEMMA ConnectStepKeeps == ASSUME ClientInv, Connect, UNCHANGED <<connVars, ownerVars>> PROVE ClientInv'
<1>1. /\ UNCHANGED <<m_connect, pending, batch, phase, ready, due, m_connection, conn, connFd, closeCallback,
                     held, clientConnect, m_retry, client, ucall, calls, stopped>>
      /\ lpc = "connect" /\ lpc' = "idle"
  BY DEF Connect, queueVars, roundVars, connVars, ownerVars
<1>2. WorkSame
  BY <1>1, WorkStays
<1>3. /\ timers = 0 /\ m_state = "kDisconnected" /\ ucall # "start" /\ ~Has("startInLoop") /\ ~Has("resetChannel")
      /\ client /\ due = 0
  BY <1>1 DEF ClientInv, OneReason, ResetInv, WishInv, TypeOK
<1>4. CASE \E s \in Fd \ open : /\ open' = open \union {s} /\ m_state' = "kConnecting" /\ m_channel' = s
                                /\ polled' = polled \union {s} /\ UNCHANGED <<m_retryDelayMs, timers, failed>>
  <2>1. PICK s \in Fd \ open : /\ open' = open \union {s} /\ m_state' = "kConnecting" /\ m_channel' = s
                               /\ polled' = polled \union {s} /\ UNCHANGED <<m_retryDelayMs, timers, failed>>
    BY <1>4
  <2>2. s # None
    BY ConnectorAssumption DEF None
  <2>3. TypeOK'
    BY <1>1, <2>1 DEF ClientInv, TypeOK
  <2>4. RoundInv' /\ AttemptInv'
    BY <1>1, <1>3, <2>1, <2>2 DEF ClientInv, RoundInv, AttemptInv, NoDescriptorLeak
  <2>5. OneReason' /\ ResetInv'
    BY <1>1, <1>2, <1>3, <2>1 DEF ClientInv, OneReason, ResetInv, WorkSame
  <2>6. ConnInv'
    BY <1>1, <1>2, <1>3, <2>1 DEF ClientInv, ConnInv, ConnectionOpen, Soon, WorkSame
  <2>7. WishInv'
    BY <1>1, <1>2, <1>3, <2>1 DEF ClientInv, WishInv, WorkSame
  <2> QED BY <2>3, <2>4, <2>5, <2>6, <2>7 DEF ClientInv
<1>5. CASE retry(None) /\ UNCHANGED <<m_channel, polled, failed>>
  <2>1. /\ open' = open \ {None} /\ m_state' = "kDisconnected"
        /\ timers' \in 0..1 /\ timers' <= MaxTimers /\ (timers' = 1 => m_connect)
        /\ m_retryDelayMs' \in InitDelay..MaxDelay
    BY <1>3, <1>5, RetryFacts
  <2>2. open' = open
    BY <2>1, ConnectorAssumption DEF ClientInv, TypeOK, None
  <2>3. TypeOK'
    <3>1. timers' \in 0..MaxTimers /\ due' \in 0..timers'
      BY <1>1, <1>3, <2>1, ConnectorAssumption
    <3> QED BY <1>1, <1>5, <2>1, <2>2, <3>1 DEF ClientInv, TypeOK
  <2>4. RoundInv' /\ AttemptInv'
    BY <1>1, <1>3, <1>5, <2>1, <2>2 DEF ClientInv, RoundInv, AttemptInv, NoDescriptorLeak
  <2>5. OneReason' /\ ResetInv'
    BY <1>1, <1>2, <1>3, <2>1 DEF ClientInv, OneReason, ResetInv, WorkSame
  <2>6. ConnInv'
    BY <1>1, <1>2, <1>3, <2>1 DEF ClientInv, ConnInv, ConnectionOpen, Soon, WorkSame
  <2>7. WishInv'
    BY <1>1, <1>2, <1>3, <2>1 DEF ClientInv, WishInv, WorkSame
  <2> QED BY <2>3, <2>4, <2>5, <2>6, <2>7 DEF ClientInv
<1>6. CASE failed' = TRUE /\ UNCHANGED <<m_state, m_channel, m_retryDelayMs, polled, open, timers>>
  <2>3. TypeOK'
    BY <1>1, <1>6 DEF ClientInv, TypeOK
  <2>4. RoundInv' /\ AttemptInv'
    BY <1>1, <1>6 DEF ClientInv, RoundInv, AttemptInv, NoDescriptorLeak
  <2>5. OneReason' /\ ResetInv'
    BY <1>1, <1>2, <1>3, <1>6 DEF ClientInv, OneReason, ResetInv, WorkSame
  <2>6. ConnInv'
    BY <1>1, <1>2, <1>3, <1>6 DEF ClientInv, ConnInv, ConnectionOpen, Soon, WorkSame
  <2>7. WishInv'
    BY <1>1, <1>2, <1>3, <1>6 DEF ClientInv, WishInv, WorkSame
  <2> QED BY <2>3, <2>4, <2>5, <2>6, <2>7 DEF ClientInv
<1> QED BY <1>4, <1>5, <1>6 DEF Connect

(* The reset finds no attempt that it could take the channel from.         *)
LEMMA RunResetKeeps == ASSUME ClientInv, RunReset, UNCHANGED <<connVars, ownerVars>> PROVE ClientInv'
<1>1. /\ UNCHANGED <<m_connect, m_state, m_retryDelayMs, polled, open, timers, failed, pending, phase, ready, due,
                     lpc, m_connection, conn, connFd, closeCallback, held, clientConnect, m_retry, client,
                     ucall, calls, stopped>>
      /\ Takes("resetChannel") /\ phase = "functors" /\ lpc = "idle" /\ m_channel' = None
  BY DEF RunReset, Takes, roundVars, connVars, ownerVars
<1>2. WorkTakes("resetChannel") /\ batch' \in Seq(Functors)
  BY <1>1, TakeFacts DEF ClientInv
<1>3. m_state # "kConnecting" /\ ~(batch = <<>>)
  BY <1>2 DEF ClientInv, ResetInv, WorkTakes
<1>4. TypeOK'
  BY <1>1, <1>2 DEF ClientInv, TypeOK
<1>5. RoundInv' /\ AttemptInv'
  BY <1>1, <1>3 DEF ClientInv, RoundInv, AttemptInv, NoDescriptorLeak
<1>6. OneReason' /\ ResetInv'
  BY <1>1, <1>2 DEF ClientInv, OneReason, ResetInv, Soon, WorkTakes
<1>7. ConnInv'
  BY <1>1, <1>2 DEF ClientInv, ConnInv, ConnectionOpen, Soon, WorkTakes
<1>8. WishInv'
  BY <1>1, <1>2 DEF ClientInv, WishInv, WorkTakes
<1> QED BY <1>4, <1>5, <1>6, <1>7, <1>8 DEF ClientInv

(* What is left of the poller's set when an attempt is over.               *)
LEMMA RemoveFacts ==
  ASSUME ClientInv, m_state = "kConnecting", removeAndResetChannel
  PROVE  /\ polled' = {} /\ Queue("resetChannel") /\ "resetChannel" \in Functors
         /\ m_channel # None /\ m_channel \in Fd /\ m_channel \in open
         /\ timers = 0 /\ due = 0 /\ lpc \in {"idle", "restart"} /\ ucall # "start" /\ ~Has("startInLoop")
         /\ ~Has("resetChannel") /\ ~ConnectionOpen /\ ~m_connection
         /\ open \ {m_channel} = (IF conn = "none" THEN {} ELSE {connFd})
<1>1. polled = {m_channel} /\ m_channel # None /\ m_channel \in Fd
  BY DEF ClientInv, AttemptInv, TypeOK
<1>2. timers = 0 /\ due = 0 /\ lpc \in {"idle", "restart"} /\ ucall # "start" /\ ~Has("startInLoop")
  BY DEF ClientInv, OneReason, TypeOK
<1>3. ~Has("resetChannel")
  BY DEF ClientInv, ResetInv
<1>4. ~ConnectionOpen /\ ~m_connection
  BY DEF ClientInv, ConnInv
<1>5. open = {m_channel} \union (IF conn = "none" THEN {} ELSE {connFd}) /\ (conn # "none" => connFd # m_channel)
  BY DEF ClientInv, AttemptInv, NoDescriptorLeak
<1> QED BY <1>1, <1>2, <1>3, <1>4, <1>5 DEF removeAndResetChannel, Functors

(* A stopped attempt is closed, and the owner wishes no other.             *)
LEMMA RunStopKeeps == ASSUME ClientInv, RunStop, UNCHANGED <<connVars, ownerVars>> PROVE ClientInv'
<1>1. /\ UNCHANGED <<m_connect, m_channel, failed, phase, ready, due, lpc, m_connection, conn, connFd,
                     closeCallback, held, clientConnect, m_retry, client, ucall, calls, stopped>>
      /\ Takes("stopInLoop") /\ phase = "functors" /\ lpc = "idle"
  BY DEF RunStop, Takes, roundVars, connVars, ownerVars
<1>2. CASE m_state = "kConnecting"
  <2>1. retry(m_channel) /\ removeAndResetChannel
    BY <1>2 DEF RunStop
  <2>2. /\ polled' = {} /\ Queue("resetChannel") /\ "resetChannel" \in Functors /\ m_channel # None
        /\ timers = 0 /\ due = 0 /\ ucall # "start" /\ ~Has("startInLoop") /\ ~Has("resetChannel")
        /\ open \ {m_channel} = (IF conn = "none" THEN {} ELSE {connFd})
    BY <1>2, <2>1, RemoveFacts
  <2>3. WorkTurns("stopInLoop", "resetChannel") /\ batch' \in Seq(Functors) /\ pending' \in Seq(Functors)
    BY <1>1, <2>2, TurnFacts DEF ClientInv
  <2>4. ~m_connect /\ ~(batch = <<>>)
    BY <2>3 DEF ClientInv, WishInv, WorkTurns
  <2>5. /\ open' = open \ {m_channel} /\ m_state' = "kDisconnected" /\ timers' = 0
        /\ m_retryDelayMs' \in InitDelay..MaxDelay
    BY <2>1, <2>2, <2>4, RetryFacts
  <2>6. TypeOK'
    BY <1>1, <2>2, <2>3, <2>5 DEF ClientInv, TypeOK
  <2>7. RoundInv' /\ AttemptInv'
    BY <1>1, <2>2, <2>4, <2>5 DEF ClientInv, RoundInv, AttemptInv, NoDescriptorLeak
  <2>8. OneReason' /\ ResetInv'
    BY <1>1, <2>2, <2>3, <2>5 DEF ClientInv, OneReason, ResetInv, WorkTurns
  <2>9. ConnInv'
    BY <1>1, <1>2, <2>3, <2>5 DEF ClientInv, ConnInv, ConnectionOpen, Soon, WorkTurns
  <2>10. WishInv'
    BY <1>1, <2>3, <2>4, <2>5 DEF ClientInv, WishInv, WorkTurns
  <2> QED BY <2>6, <2>7, <2>8, <2>9, <2>10 DEF ClientInv
<1>3. CASE m_state # "kConnecting"
  <2>1. UNCHANGED <<open, m_state, timers, m_retryDelayMs, polled, pending>>
    BY <1>3 DEF RunStop
  <2>2. WorkTakes("stopInLoop") /\ batch' \in Seq(Functors) /\ ~(batch = <<>>)
    BY <1>1, <2>1, TakeFacts DEF ClientInv, WorkTakes
  <2>3. TypeOK'
    BY <1>1, <2>1, <2>2 DEF ClientInv, TypeOK
  <2>4. RoundInv' /\ AttemptInv'
    BY <1>1, <2>1 DEF ClientInv, RoundInv, AttemptInv, NoDescriptorLeak
  <2>5. OneReason' /\ ResetInv'
    BY <1>1, <2>1, <2>2 DEF ClientInv, OneReason, ResetInv, Soon, WorkTakes
  <2>6. ConnInv'
    BY <1>1, <2>1, <2>2 DEF ClientInv, ConnInv, ConnectionOpen, Soon, WorkTakes
  <2>7. WishInv'
    BY <1>1, <1>3, <2>1, <2>2 DEF ClientInv, WishInv, WorkTakes
  <2> QED BY <2>3, <2>4, <2>5, <2>6, <2>7 DEF ClientInv
<1> QED BY <1>2, <1>3

(* An attempt that fails in an event is closed; its reset runs before the  *)
(* retry does.                                                             *)
LEMMA AttemptFailsKeeps == ASSUME ClientInv, AttemptFails, UNCHANGED <<connVars, ownerVars>> PROVE ClientInv'
<1>1. /\ UNCHANGED <<m_connect, m_channel, failed, batch, phase, due, lpc, m_connection, conn, connFd,
                     closeCallback, held, clientConnect, m_retry, client, ucall, calls, stopped>>
      /\ phase = "events" /\ lpc = "idle" /\ "connector" \in ready /\ ready' = ready \ {"connector"}
      /\ m_state = "kConnecting" /\ retry(m_channel) /\ removeAndResetChannel
  BY DEF AttemptFails, connVars, ownerVars
<1>2. /\ polled' = {} /\ Queue("resetChannel") /\ "resetChannel" \in Functors /\ m_channel # None
      /\ timers = 0 /\ due = 0 /\ ucall # "start" /\ ~Has("startInLoop") /\ ~Has("resetChannel")
      /\ open \ {m_channel} = (IF conn = "none" THEN {} ELSE {connFd})
  BY <1>1, RemoveFacts
<1>3. WorkAdds("resetChannel") /\ pending' \in Seq(Functors)
  BY <1>1, <1>2, QueueFacts DEF ClientInv
<1>4. /\ open' = open \ {m_channel} /\ m_state' = "kDisconnected"
      /\ timers' \in 0..1 /\ timers' <= MaxTimers /\ m_retryDelayMs' \in InitDelay..MaxDelay
  BY <1>1, <1>2, RetryFacts
<1>5. ready' = {}
  BY <1>1 DEF ClientInv, RoundInv, TypeOK
<1>6. TypeOK'
  <2>1. timers' \in 0..MaxTimers /\ due' \in 0..timers'
    BY <1>1, <1>2, <1>4, ConnectorAssumption
  <2> QED BY <1>1, <1>2, <1>3, <1>4, <1>5, <2>1 DEF ClientInv, TypeOK
<1>7. RoundInv' /\ AttemptInv'
  BY <1>1, <1>2, <1>4, <1>5 DEF ClientInv, RoundInv, AttemptInv, NoDescriptorLeak
<1>8. OneReason' /\ ResetInv'
  BY <1>1, <1>2, <1>3, <1>4, <1>5 DEF ClientInv, OneReason, ResetInv, Soon, WorkAdds
<1>9. ConnInv'
  BY <1>1, <1>3, <1>4, <1>5 DEF ClientInv, ConnInv, ConnectionOpen, Soon, WorkAdds
<1>10. WishInv'
  BY <1>1, <1>3, <1>4 DEF ClientInv, WishInv, WorkAdds
<1> QED BY <1>6, <1>7, <1>8, <1>9, <1>10 DEF ClientInv

(* An attempt that succeeds hands its descriptor over, or closes it.       *)
LEMMA ConnectedKeeps == ASSUME ClientInv, Connected PROVE ClientInv'
<1>1. /\ UNCHANGED <<m_connect, m_channel, m_retryDelayMs, timers, failed, batch, phase, due, lpc, held,
                     clientConnect, m_retry, client, ucall, calls, stopped>>
      /\ phase = "events" /\ lpc = "idle" /\ "connector" \in ready /\ ready' = ready \ {"connector"}
      /\ m_state = "kConnecting" /\ m_state' = "kConnected" /\ removeAndResetChannel
      /\ open' = IF m_connect THEN open ELSE open \ {m_channel}
      /\ IF m_connect
         THEN m_connection' = TRUE /\ conn' = "connected" /\ connFd' = m_channel /\ closeCallback' = "client"
         ELSE UNCHANGED <<m_connection, conn, connFd, closeCallback>>
  BY DEF Connected, AttemptSucceeds, newConnection, connVars, ownerVars
<1>2. /\ polled' = {} /\ Queue("resetChannel") /\ "resetChannel" \in Functors
      /\ m_channel # None /\ m_channel \in Fd /\ m_channel \in open
      /\ timers = 0 /\ due = 0 /\ ucall # "start" /\ ~Has("startInLoop") /\ ~Has("resetChannel") /\ ~ConnectionOpen
      /\ ~m_connection
  BY <1>1, RemoveFacts
<1>3. conn = "none"
  BY <1>1, <1>2 DEF ClientInv, ConnInv, ConnectionOpen, Soon, TypeOK
<1>4. WorkAdds("resetChannel") /\ pending' \in Seq(Functors)
  BY <1>1, <1>2, QueueFacts DEF ClientInv
<1>5. ready' = {} /\ open = {m_channel} /\ ~Has("connectDestroyed")
  BY <1>1, <1>3 DEF ClientInv, RoundInv, TypeOK, AttemptInv, NoDescriptorLeak, ConnInv
<1>6. TypeOK'
  BY <1>1, <1>2, <1>4, <1>5 DEF ClientInv, TypeOK
<1>7. RoundInv' /\ AttemptInv'
  BY <1>1, <1>2, <1>3, <1>5 DEF ClientInv, RoundInv, AttemptInv, NoDescriptorLeak
<1>8. OneReason' /\ ResetInv'
  BY <1>1, <1>2, <1>4, <1>5 DEF ClientInv, OneReason, ResetInv, Soon, WorkAdds
<1>9. m_connect => client
  BY <1>1 DEF ClientInv, WishInv
<1>10. Has("forceClose") => ~m_connect
  BY <1>9 DEF ClientInv, ConnInv
<1>11. ConnInv'
  BY <1>1, <1>2, <1>3, <1>4, <1>5, <1>9, <1>10 DEF ClientInv, ConnInv, ConnectionOpen, WorkAdds
<1>12. WishInv'
  BY <1>1, <1>2, <1>4 DEF ClientInv, WishInv, WorkAdds
<1> QED BY <1>6, <1>7, <1>8, <1>11, <1>12 DEF ClientInv

(* A connection that is closed is destroyed by a functor, before the loop  *)
(* looks at another event.                                                 *)
LEMMA PeerClosesKeeps == ASSUME ClientInv, PeerCloses PROVE ClientInv'
<1>1. /\ UNCHANGED <<m_connect, m_state, m_channel, m_retryDelayMs, polled, open, timers, failed, batch, phase,
                     due, clientConnect, m_retry, client, ucall, calls, stopped>>
      /\ phase = "events" /\ lpc = "idle" /\ "connection" \in ready /\ ready' = ready \ {"connection"}
  BY DEF PeerCloses, connectorVars, ownerVars
<1>2. ready' = {}
  BY <1>1 DEF ClientInv, RoundInv, TypeOK
<1>3. CASE ~ConnectionOpen
  <2>1. UNCHANGED <<pending, lpc, m_connection, conn, connFd, closeCallback, held>>
    BY <1>3 DEF PeerCloses, connVars
  <2>2. WorkSame
    BY <1>1, <2>1, WorkStays
  <2>3. TypeOK'
    BY <1>1, <1>2, <2>1 DEF ClientInv, TypeOK
  <2>4. RoundInv' /\ AttemptInv'
    BY <1>1, <1>2, <2>1 DEF ClientInv, RoundInv, AttemptInv, NoDescriptorLeak
  <2>5. OneReason' /\ ResetInv'
    BY <1>1, <1>2, <2>1, <2>2 DEF ClientInv, OneReason, ResetInv, Soon, WorkSame
  <2>6. ConnInv'
    BY <1>1, <1>2, <2>1, <2>2 DEF ClientInv, ConnInv, ConnectionOpen, Soon, WorkSame
  <2>7. WishInv'
    BY <1>1, <2>1, <2>2 DEF ClientInv, WishInv, WorkSame
  <2> QED BY <2>3, <2>4, <2>5, <2>6, <2>7 DEF ClientInv
<1>4. CASE ConnectionOpen
  <2>1. /\ conn' = "disconnected" /\ Queue("connectDestroyed") /\ m_connection' = FALSE
        /\ lpc' = (IF closeCallback = "client" /\ m_retry /\ clientConnect THEN "restart" ELSE "idle")
        /\ UNCHANGED <<connFd, closeCallback, held>>
    BY <1>4 DEF PeerCloses, handleClose
  <2>2. "connectDestroyed" \in Functors
    BY DEF Functors
  <2>3. WorkAdds("connectDestroyed") /\ pending' \in Seq(Functors)
    BY <1>1, <2>1, <2>2, QueueFacts DEF ClientInv
  <2>4. /\ m_state = "kConnected" /\ timers = 0 /\ due = 0 /\ (m_connection <=> closeCallback = "client")
        /\ ~Has("connectDestroyed") /\ conn # "none" /\ ~Has("resetChannel")
    <3>1. m_state = "kConnected" /\ (m_connection <=> closeCallback = "client") /\ conn \notin {"none", "disconnected"}
      BY <1>4 DEF ClientInv, ConnInv, ConnectionOpen
    <3>2. timers = 0 /\ due = 0
      BY <3>1 DEF ClientInv, OneReason, TypeOK
    <3>3. ~Has("resetChannel")
      BY <1>1, <3>1 DEF ClientInv, ResetInv, Soon
    <3> QED BY <3>1, <3>2, <3>3 DEF ClientInv, ConnInv
  <2>5. TypeOK'
    BY <1>1, <1>2, <2>1, <2>3 DEF ClientInv, TypeOK
  <2>6. RoundInv' /\ AttemptInv'
    BY <1>1, <1>2, <2>1, <2>4 DEF ClientInv, RoundInv, AttemptInv, NoDescriptorLeak
  <2>7. OneReason' /\ ResetInv'
    BY <1>1, <1>2, <2>1, <2>3, <2>4 DEF ClientInv, OneReason, ResetInv, WorkAdds
  <2>8. ConnInv'
    BY <1>1, <1>2, <2>1, <2>3, <2>4 DEF ClientInv, ConnInv, ConnectionOpen, Soon, WorkAdds
  <2>9. closeCallback = "client" => m_connection /\ client
    BY <2>4 DEF ClientInv, ConnInv
  <2>10. WishInv'
    BY <1>1, <2>1, <2>3, <2>4, <2>9 DEF ClientInv, WishInv, WorkAdds
  <2> QED BY <2>5, <2>6, <2>7, <2>8, <2>10 DEF ClientInv
<1> QED BY <1>3, <1>4

(* A forced close comes from the destructor: it is followed by no restart. *)
LEMMA RunForceCloseKeeps == ASSUME ClientInv, RunForceClose PROVE ClientInv'
<1>1. /\ UNCHANGED <<m_connect, m_state, m_channel, m_retryDelayMs, polled, open, timers, failed, phase, ready,
                     due, clientConnect, m_retry, client, ucall, calls, stopped>>
      /\ phase = "functors" /\ lpc = "idle" /\ Takes("forceClose")
  BY DEF RunForceClose, Takes, connectorVars, roundVars, ownerVars
<1>2. CASE ~ConnectionOpen
  <2>1. UNCHANGED <<pending, lpc, m_connection, conn, connFd, closeCallback, held>>
    BY <1>2 DEF RunForceClose, connVars
  <2>2. WorkTakes("forceClose") /\ batch' \in Seq(Functors) /\ ~(batch = <<>>)
    BY <1>1, <2>1, TakeFacts DEF ClientInv, WorkTakes
  <2>3. TypeOK'
    BY <1>1, <2>1, <2>2 DEF ClientInv, TypeOK
  <2>4. RoundInv' /\ AttemptInv'
    BY <1>1, <2>1 DEF ClientInv, RoundInv, AttemptInv, NoDescriptorLeak
  <2>5. OneReason' /\ ResetInv'
    BY <1>1, <2>1, <2>2 DEF ClientInv, OneReason, ResetInv, Soon, WorkTakes
  <2>6. ConnInv'
    BY <1>1, <2>1, <2>2 DEF ClientInv, ConnInv, ConnectionOpen, Soon, WorkTakes
  <2>7. WishInv'
    BY <1>1, <2>1, <2>2 DEF ClientInv, WishInv, WorkTakes
  <2> QED BY <2>3, <2>4, <2>5, <2>6, <2>7 DEF ClientInv
<1>3. CASE ConnectionOpen
  <2>1. /\ conn' = "disconnected" /\ Queue("connectDestroyed") /\ m_connection' = FALSE
        /\ lpc' = (IF closeCallback = "client" /\ m_retry /\ clientConnect THEN "restart" ELSE "idle")
        /\ UNCHANGED <<connFd, closeCallback, held>>
    BY <1>3 DEF RunForceClose, handleClose
  <2>2. "connectDestroyed" \in Functors
    BY DEF Functors
  <2>3. /\ WorkTurns("forceClose", "connectDestroyed") /\ batch' \in Seq(Functors) /\ pending' \in Seq(Functors)
        /\ Has("forceClose") /\ ~(batch = <<>>)
    BY <1>1, <2>1, <2>2, TurnFacts DEF ClientInv, WorkTurns
  <2>4. /\ m_state = "kConnected" /\ closeCallback = "loop" /\ lpc' = "idle" /\ ~client
        /\ ~Has("connectDestroyed") /\ conn # "none"
    <3>1. m_state = "kConnected" /\ conn \notin {"none", "disconnected"}
      BY <1>3 DEF ClientInv, ConnInv, ConnectionOpen
    <3>2. closeCallback = "loop" /\ ~client
      BY <2>3 DEF ClientInv, ConnInv
    <3> QED BY <2>1, <3>1, <3>2 DEF ClientInv, ConnInv
  <2>5. TypeOK'
    BY <1>1, <2>1, <2>3, <2>4 DEF ClientInv, TypeOK
  <2>6. RoundInv' /\ AttemptInv'
    BY <1>1, <2>1, <2>3, <2>4 DEF ClientInv, RoundInv, AttemptInv, NoDescriptorLeak
  <2>7. OneReason' /\ ResetInv'
    BY <1>1, <2>3, <2>4 DEF ClientInv, OneReason, ResetInv, Soon, WorkTurns
  <2>8. ConnInv'
    BY <1>1, <2>1, <2>3, <2>4 DEF ClientInv, ConnInv, ConnectionOpen, WorkTurns
  <2>9. WishInv'
    BY <1>1, <2>1, <2>3, <2>4 DEF ClientInv, WishInv, WorkTurns
  <2> QED BY <2>5, <2>6, <2>7, <2>8, <2>9 DEF ClientInv
<1> QED BY <1>2, <1>3

(* The destruction of a connection closes its descriptor.                  *)
LEMMA RunDestroyedKeeps == ASSUME ClientInv, RunDestroyed PROVE ClientInv'
<1>1. /\ UNCHANGED <<m_connect, m_state, m_channel, m_retryDelayMs, polled, timers, failed, pending, phase, ready,
                     due, lpc, m_connection, closeCallback, clientConnect, m_retry, client, ucall, calls, stopped>>
      /\ phase = "functors" /\ lpc = "idle" /\ Takes("connectDestroyed")
      /\ conn' = "none" /\ connFd' = None /\ held' = FALSE /\ open' = open \ {connFd}
  BY DEF RunDestroyed, Takes, roundVars, ownerVars
<1>2. WorkTakes("connectDestroyed") /\ batch' \in Seq(Functors) /\ ~(batch = <<>>) /\ Has("connectDestroyed")
  BY <1>1, TakeFacts DEF ClientInv, WorkTakes
<1>3. conn = "disconnected" /\ ~m_connection /\ ~Has("connectDestroyed")'
  BY <1>2 DEF ClientInv, ConnInv, ConnectionOpen, WorkTakes
<1>4. TypeOK'
  BY <1>1, <1>2 DEF ClientInv, TypeOK
<1>5. RoundInv' /\ AttemptInv'
  BY <1>1, <1>2, <1>3 DEF ClientInv, RoundInv, AttemptInv, NoDescriptorLeak
<1>6. OneReason' /\ ResetInv'
  BY <1>1, <1>2 DEF ClientInv, OneReason, ResetInv, Soon, WorkTakes
<1>7. ConnInv'
  BY <1>1, <1>2, <1>3 DEF ClientInv, ConnInv, ConnectionOpen, WorkTakes
<1>8. WishInv'
  BY <1>1, <1>2 DEF ClientInv, WishInv, WorkTakes
<1> QED BY <1>4, <1>5, <1>6, <1>7, <1>8 DEF ClientInv

(* A new client satisfies the invariant.                                   *)
LEMMA ClientInit == Init => ClientInv
<1> SUFFICES ASSUME Init PROVE ClientInv
  OBVIOUS
<1>1. /\ m_connect = FALSE /\ m_state = "kDisconnected" /\ m_channel = None /\ m_retryDelayMs = InitDelay
      /\ polled = {} /\ open = {} /\ timers = 0 /\ failed = FALSE /\ pending = <<>> /\ batch = <<>>
      /\ phase = "poll" /\ ready = {} /\ due = 0 /\ lpc = "idle"
      /\ clientConnect = TRUE /\ m_retry \in BOOLEAN /\ m_connection = FALSE /\ conn = "none" /\ connFd = None
      /\ closeCallback = "client" /\ held = FALSE /\ client = TRUE /\ ucall = "out" /\ calls = 0 /\ stopped = FALSE
  BY DEF Init, ConnectorInit
<1>2. TypeOK
  <2>1. InitDelay \in InitDelay..MaxDelay /\ 0 \in 0..MaxTimers /\ 0 \in 0..0 /\ 0 \in 0..MaxCalls
    BY ConnectorAssumption, ClientAssumption
  <2>2. <<>> \in Seq(Functors) /\ {} \subseteq Fd
    OBVIOUS
  <2>3. {m_connect, failed, clientConnect, m_retry, m_connection, held, client, stopped} \subseteq BOOLEAN
    BY <1>1
  <2> QED BY <1>1, <2>1, <2>2, <2>3 DEF TypeOK
<1>3. \A x : ~Has(x) /\ ~New(x)
  BY <1>1, <1>2, QueuedIs
<1>4. \A x : Single(x)
  BY <1>1 DEF Single, Once, Work
<1>5. RoundInv /\ AttemptInv
  BY <1>1 DEF RoundInv, AttemptInv, NoDescriptorLeak
<1>6. OneReason /\ ResetInv
  BY <1>1, <1>3, <1>4 DEF OneReason, ResetInv
<1>7. ConnInv /\ WishInv
  BY <1>1, <1>3, <1>4 DEF ConnInv, WishInv, ConnectionOpen
<1> QED BY <1>2, <1>5, <1>6, <1>7 DEF ClientInv

(* Every step keeps it.                                                    *)
LEMMA ClientNext == ASSUME Careful, ClientInv, [Next]_vars PROVE ClientInv'
<1>1. CASE ConnectorStep
  BY <1>1, StartBatchKeeps, EndBatchKeeps, RunStartKeeps, RunTimerKeeps, RestartTestKeeps, ConnectStepKeeps,
     RunResetKeeps, RunStopKeeps, AttemptFailsKeeps, RestartKeeps DEF ConnectorStep
<1>2. CASE PollStep \/ Connected \/ PeerCloses \/ RunForceClose \/ RunDestroyed
  BY <1>2, PollKeeps, ConnectedKeeps, PeerClosesKeeps, RunForceCloseKeeps, RunDestroyedKeeps
<1>3. CASE OwnerCalls \/ CallQueues \/ Destructor
  BY <1>3, ConnectKeeps, StopKeeps, DisconnectKeeps, CallQueuesKeeps, DestructorKeeps DEF OwnerCalls
<1>4. CASE HoldConnection \/ UNCHANGED vars
  BY <1>4, HoldKeeps
<1> QED BY <1>1, <1>2, <1>3, <1>4 DEF Next, LoopStep

(* So it holds throughout.                                                 *)
LEMMA ClientInvHolds == ASSUME Careful PROVE Spec => []ClientInv
<1>1. Init => ClientInv
  BY ClientInit
<1>2. ClientInv /\ [Next]_vars => ClientInv'
  BY ClientNext
<1> QED BY <1>1, <1>2, PTL DEF Spec

(* Nothing in the client's loop points at what is gone, whatever fails, is *)
(* closed or is destroyed, as long as the owner is careful                 *)
(* (Connector.cc:28-32, 69, 136-162, 229, TcpClient.cc:38-68).             *)
THEOREM NoDangling == ASSUME Careful PROVE Spec => []NothingDangles
<1>1. ClientInv => NothingDangles
  <2> SUFFICES ASSUME ClientInv PROVE NothingDangles
    OBVIOUS
  <2>1. ChannelNotDangling
    BY DEF ClientInv, AttemptInv, ChannelNotDangling
  <2>2. ~client /\ Has("startInLoop") => Has("stopInLoop")
    <3>1. Work \in Seq(Functors)
      BY WorkFacts DEF ClientInv, TypeOK, Work
    <3>2. DOMAIN Work = 1..Len(Work)
      BY <3>1
    <3> QED BY <3>2 DEF ClientInv, WishInv, StopsFollow, Follows, Has, In
  <2>3. ~client /\ polled # {} => Has("stopInLoop")
    BY DEF ClientInv, AttemptInv, WishInv
  <2>4. RawCallsFindConnector
    BY <2>2, <2>3, QueuedIs DEF ClientInv, RawCallsFindConnector
  <2> QED BY <2>1, <2>4 DEF NothingDangles
<1> QED BY <1>1, ClientInvHolds, PTL

(* Every open descriptor belongs to the attempt or to the connection, and  *)
(* each of those has its own: no failure, stop or close leaks one          *)
(* (Connector.cc:73-83, 164-239, TcpClient.cc:97-143).                     *)
THEOREM NoLeak == ASSUME Careful PROVE Spec => []NoDescriptorLeak
<1>1. ClientInv => NoDescriptorLeak
  BY DEF ClientInv, AttemptInv
<1> QED BY <1>1, ClientInvHolds, PTL

(* After stop() no attempt stays under way (Connector.cc:49-83, 216-239).  *)
THEOREM StopsForGood == ASSUME Careful PROVE Spec => []StopIsFinal
<1>1. ClientInv => StopIsFinal
  BY QueuedIs DEF ClientInv, WishInv, StopIsFinal
<1> QED BY <1>1, ClientInvHolds, PTL
=============================================================================
