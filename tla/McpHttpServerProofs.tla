------------------------- MODULE McpHttpServerProofs -------------------------
(***************************************************************************)
(* Proofs about McpHttpServer, for any requests, connections and threads,  *)
(* and any capacity of the pool's queue, and about the HTTP server under   *)
(* it, for bodies and reads of any length.                                 *)
(***************************************************************************)
EXTENDS McpHttpServer, HttpServer, TLAPS

Answers == {"json", "accepted", "final"}
Frames == {"header", "data", "keepalive", "refusal"} \union Answers
Labels == {"none", "accepted", "response", "clear", "check", "test", "execute", "notify", "add",
           "close", "done", "remove"}
Functor == ({"send"} \X Req \X {"header", "data", "json", "accepted", "final"})
           \union ({"shutdown"} \X Conn) \union ({"add", "cancel"} \X Req)

TypeOK ==
  /\ m_state \in [Conn -> {"kConnected", "kDisconnecting", "kDisconnected"}] /\ ended \subseteq Conn
  /\ wire \in [Req -> Seq(Frames)] /\ functors \in Seq(Functor)
  /\ loop \in {<<"free">>} \union ({"submit", "keepalive", "destroy"} \X Req) /\ timers \subseteq Req
  /\ conn \in [Req -> Conn \union {None}] /\ msg \in [Req -> Message \union {None}]
  /\ tasks \in Seq(Req) /\ at \in [Req -> Labels]
  /\ state_ \in [Req -> {"Direct", "Streaming", "Closed"}]
  /\ timerId \subseteq Req /\ cleanup \subseteq Req /\ gone \subseteq Req
  /\ subscriptions_ \in [Ids -> Req \union {None}]

(* The positions in the loop's queue q of the functors of kind k of request r. *)
At(q, k, r) == {i \in 1..Len(q) : q[i][1] = k /\ q[i][2] = r}
Over(w) == \E i \in DOMAIN w : w[i] \in FinalFrames

(* The well-formed answers, of which AnswersAreWellFormed speaks.              *)
Formed(w) ==
  \A i \in DOMAIN w :
    /\ w[i] \in FinalFrames \ {"final"} => Len(w) = 1
    /\ w[i] = "header" <=> i = 1 /\ w[i] \notin FinalFrames
    /\ w[i] = "final" => i = Len(w) /\ i > 1

Untouched(r) ==
  /\ At(functors, "send", r) = {} /\ At(functors, "add", r) = {} /\ At(functors, "cancel", r) = {}
  /\ r \notin timers /\ r \notin timerId /\ r \notin cleanup /\ r \notin gone
  /\ loop # <<"keepalive", r>> /\ loop # <<"destroy", r>>
  /\ state_[r] = "Direct"

Queued(r) == loop = <<"submit", r>> \/ \E i \in 1..Len(tasks) : tasks[i] = r
Begun(r) == conn[r] # None /\ msg[r].headers /\ ~Queued(r)
Answering(r) == at[r] \notin {"none", "close", "done", "remove"}
Up(r) == m_state[conn[r]] = "kConnected"
Lost(r) == m_state[conn[r]] = "kDisconnected" \/ conn[r] \in ended

(* A request's writer is untouched until a worker has the request.             *)
PlaceInv(r) ==
  /\ Queued(r) => conn[r] # None /\ msg[r].headers
  /\ ~Begun(r) => at[r] = "none" /\ Untouched(r)
  /\ ~Begun(r) => wire[r] = <<>> \/ (conn[r] # None /\ ~msg[r].headers)

(* Who may destroy the writer.                                                 *)
WriterInv(r) ==
  /\ loop = <<"keepalive", r>> => r \in timers /\ r \notin gone
  /\ loop = <<"destroy", r>> => r \in gone /\ at[r] = "none" /\ At(functors, "add", r) = {}
  /\ r \in gone => at[r] \in {"none", "remove"}

(* Every timer of the loop is known to its writer or about to be cancelled.     *)
TimerInv(r) ==
  /\ r \in timers => At(functors, "add", r) = {}
  /\ \A i, j \in At(functors, "add", r) : i = j
  /\ \A i \in At(functors, "add", r), j \in At(functors, "cancel", r) : i < j
  /\ r \in timers \/ At(functors, "add", r) # {} =>
       At(functors, "cancel", r) # {} \/ (r \in timerId /\ (r \notin gone \/ loop = <<"destroy", r>>))

(* What a worker has queued for the loop to send: the header first, a response *)
(* last, and behind what ends the keepalives.                                  *)
QueueInv(r) ==
  /\ \A i, j \in At(functors, "send", r) :
       i < j => functors[i][3] \notin Answers /\ functors[j][3] \in {"data", "final"}
  /\ \A i \in At(functors, "send", r) :
       /\ ~Over(wire[r])
       /\ functors[i][3] \in {"header", "json", "accepted"} => wire[r] = <<>> /\ r \notin timers
       /\ functors[i][3] \in {"json", "accepted"} => At(functors, "add", r) = {}
       /\ functors[i][3] = "header" => \A k \in At(functors, "add", r) : i < k
       /\ functors[i][3] \in {"data", "final"} =>
            wire[r] # <<>> \/ Lost(r) \/ \E j \in At(functors, "send", r) : j < i /\ functors[j][3] = "header"
       /\ functors[i][3] = "final" =>
            /\ r \in timers => \E j \in At(functors, "cancel", r) : j < i
            /\ \A k \in At(functors, "add", r) : \E j \in At(functors, "cancel", r) : k < j /\ j < i

HeaderSent(r) ==
  wire[r] # <<>> \/ (\E i \in At(functors, "send", r) : functors[i][3] = "header") \/ ~Up(r)

(* What a worker that may still send finds.                                    *)
AnswerInv(r) ==
  Answering(r) =>
    /\ ~Over(wire[r]) /\ At(functors, "cancel", r) = {} /\ r \notin gone /\ state_[r] # "Closed"
    /\ \A i \in At(functors, "send", r) : functors[i][3] \notin Answers
    /\ state_[r] = "Direct" => wire[r] = <<>> /\ Untouched(r)
    /\ state_[r] = "Streaming" => HeaderSent(r)
    /\ at[r] = "accepted" => state_[r] = "Direct"

(* What has been sent.                                                         *)
WireInv(r) ==
  /\ Over(wire[r]) => r \notin timers /\ At(functors, "add", r) = {}
  /\ r \in timers \/ At(functors, "add", r) # {} => HeaderSent(r)
  /\ Formed(wire[r])

RequestInv(r) ==
  PlaceInv(r) /\ WriterInv(r) /\ TimerInv(r) /\ QueueInv(r) /\ AnswerInv(r) /\ WireInv(r)

(* A request is in the pool's queue once.                                      *)
TasksInv ==
  /\ \A i, j \in 1..Len(tasks) : tasks[i] = tasks[j] => i = j
  /\ \A i \in 1..Len(tasks) : loop # <<"submit", tasks[i]>>

(* A connection whose write side is shut, or is about to be, is not connected. *)
ShutInv ==
  /\ \A c \in ended : m_state[c] # "kConnected"
  /\ \A i \in 1..Len(functors) : functors[i][1] = "shutdown" => m_state[functors[i][2]] # "kConnected"

SubscriptionInv ==
  /\ \A i \in Ids : subscriptions_[i] # None =>
       /\ subscriptions_[i] \in cleanup /\ msg[subscriptions_[i]].id = i
  /\ RegistryForgets

ServerInv == TypeOK /\ TasksInv /\ ShutInv /\ SubscriptionInv /\ \A r \in Req : RequestInv(r)

-----------------------------------------------------------------------------
(* a is the queue q with f at its end.                                         *)
Longer(a, q, f) ==
  /\ a \in Seq(Functor) /\ Len(a) = Len(q) + 1 /\ a[Len(q) + 1] = f
  /\ \A i \in 1..Len(q) : a[i] = q[i]

(* An append makes a queue longer.                                           *)
LEMMA AppendIsLonger ==
  ASSUME NEW q \in Seq(Functor), NEW f \in Functor PROVE Longer(Append(q, f), q, f)
BY DEF Longer

(* An append to the loop's queue.                                              *)
LEMMA AppendFacts ==
  ASSUME NEW q \in Seq(Functor), NEW f \in Functor, NEW a, Longer(a, q, f)
  PROVE  /\ a \in Seq(Functor) /\ Len(q) \in Nat /\ Len(a) = Len(q) + 1 /\ a[Len(q) + 1] = f
         /\ \A i \in 1..Len(q) : a[i] = q[i]
         /\ \A k, x, i : i \in At(q, k, x) => i \in 1..Len(q) /\ i \in Nat /\ i < Len(q) + 1 /\ a[i] = q[i]
         /\ \A k, x, i : i \in At(a, k, x) <=> i \in At(q, k, x) \/ (i = Len(q) + 1 /\ f[1] = k /\ f[2] = x)
<1>1. /\ a \in Seq(Functor) /\ Len(q) \in Nat /\ Len(a) = Len(q) + 1
      /\ \A i \in 1..Len(q) : a[i] = q[i]
      /\ a[Len(q) + 1] = f
  BY DEF Longer
<1>2. \A i : i \in 1..Len(a) <=> i \in 1..Len(q) \/ i = Len(q) + 1
  BY <1>1
<1>3. \A i \in 1..Len(q) : i \in Nat /\ i < Len(q) + 1
  BY <1>1
<1>4. \A k, x, i : i \in At(q, k, x) => i \in 1..Len(q) /\ i \in Nat /\ i < Len(q) + 1 /\ a[i] = q[i]
  BY <1>1, <1>3 DEF At
<1>5. ASSUME NEW k, NEW x, NEW i
      PROVE  i \in At(a, k, x) <=> i \in At(q, k, x) \/ (i = Len(q) + 1 /\ f[1] = k /\ f[2] = x)
  BY <1>1, <1>2 DEF At
<1> QED BY <1>1, <1>4, <1>5

(* a is the queue q without its head.                                          *)
Shorter(a, q) ==
  /\ a \in Seq(Functor) /\ Len(q) \in Nat \ {0} /\ Len(a) = Len(q) - 1 /\ q[1] \in Functor
  /\ \A i \in 1..Len(a) : a[i] = q[i + 1]

(* The tail of a queue is shorter.                                           *)
LEMMA TailIsShorter ==
  ASSUME NEW q \in Seq(Functor), q # <<>> PROVE Shorter(Tail(q), q) /\ Head(q) = q[1]
BY DEF Shorter

(* The head of the loop's queue is taken.                                      *)
LEMMA TailFacts ==
  ASSUME functors \in Seq(Functor), Shorter(functors', functors)
  PROVE  /\ \A i \in 1..Len(functors') : i + 1 \in 1..Len(functors) /\ functors'[i] = functors[i + 1]
         /\ \A k, x : 1 \in At(functors, k, x) <=> functors[1][1] = k /\ functors[1][2] = x
         /\ \A k, x, i : i \in At(functors, k, x) =>
              i \in Nat \ {0} /\ (i = 1 \/ (i > 1 /\ i - 1 \in At(functors', k, x) /\ functors'[i - 1] = functors[i]))
         /\ \A k, x, i : i \in At(functors', k, x) => i \in Nat \ {0} /\ i + 1 \in At(functors, k, x) /\ functors'[i] = functors[i + 1]
<1>1. /\ functors' \in Seq(Functor) /\ Len(functors) \in Nat \ {0} /\ Len(functors') = Len(functors) - 1
      /\ \A i \in 1..Len(functors') : functors'[i] = functors[i + 1]
  BY DEF Shorter
<1>2. /\ \A i \in 1..Len(functors') : i \in Nat \ {0} /\ i + 1 \in 1..Len(functors) /\ functors'[i] = functors[i + 1]
      /\ 1 \in 1..Len(functors)
  BY <1>1
<1>3. \A i \in 1..Len(functors) : i \in Nat \ {0} /\ (i = 1 \/ (i > 1 /\ i - 1 \in 1..Len(functors') /\ functors'[i - 1] = functors[i]))
  <2> SUFFICES ASSUME NEW i \in 1..Len(functors), i # 1 PROVE i \in Nat \ {0} /\ i > 1 /\ i - 1 \in 1..Len(functors') /\ functors'[i - 1] = functors[i]
    BY <1>1
  <2>1. i \in Nat \ {0} /\ i > 1 /\ i - 1 \in 1..Len(functors') /\ (i - 1) + 1 = i
    BY <1>1
  <2> QED BY <1>2, <2>1
<1>4. \A k, x : 1 \in At(functors, k, x) <=> functors[1][1] = k /\ functors[1][2] = x
  BY <1>2 DEF At
<1>5. ASSUME NEW k, NEW x, NEW i, i \in At(functors, k, x)
      PROVE  i \in Nat \ {0} /\ (i = 1 \/ (i > 1 /\ i - 1 \in At(functors', k, x) /\ functors'[i - 1] = functors[i]))
  BY <1>3, <1>5 DEF At
<1>6. ASSUME NEW k, NEW x, NEW i, i \in At(functors', k, x)
      PROVE  i \in Nat \ {0} /\ i + 1 \in At(functors, k, x) /\ functors'[i] = functors[i + 1]
  BY <1>2, <1>6 DEF At
<1> QED BY <1>2, <1>4, <1>5, <1>6

(* What one more frame does to an answer.                                      *)
LEMMA FrameFacts ==
  ASSUME NEW w \in Seq(Frames), NEW f \in Frames, NEW a, a = Append(w, f)
  PROVE  /\ a \in Seq(Frames) /\ a # <<>>
         /\ Over(a) <=> Over(w) \/ f \in FinalFrames
         /\ w = <<>> /\ f \in {"header", "json", "accepted", "refusal"} => Formed(a)
         /\ w # <<>> /\ ~Over(w) /\ Formed(w) /\ f \in {"data", "keepalive", "final"} => Formed(a)
         /\ ~Over(<<>>) /\ Formed(<<>>)
<1>1. /\ Len(w) \in Nat /\ Len(a) = Len(w) + 1 /\ a \in Seq(Frames) /\ DOMAIN w = 1..Len(w) /\ DOMAIN a = 1..Len(a)
      /\ \A i \in 1..Len(w) : a[i] = w[i]
      /\ a[Len(w) + 1] = f /\ a # <<>> /\ (w = <<>> <=> Len(w) = 0)
  OBVIOUS
<1>2. \A i : i \in 1..Len(a) <=> i \in 1..Len(w) \/ i = Len(w) + 1
  BY <1>1
<1>3. Over(a) <=> Over(w) \/ f \in FinalFrames
  BY <1>1, <1>2 DEF Over
<1>4. ASSUME w = <<>>, f \in {"header", "json", "accepted", "refusal"} PROVE Formed(a)
  <2>1. Len(a) = 1 /\ a[1] = f /\ \A i \in DOMAIN a : i = 1
    BY <1>1, <1>4
  <2> QED BY <1>4, <2>1 DEF Formed, FinalFrames
<1>5. ASSUME w # <<>>, ~Over(w), Formed(w), f \in {"data", "keepalive", "final"} PROVE Formed(a)
  <2> SUFFICES ASSUME NEW i \in DOMAIN a
               PROVE  /\ a[i] \in FinalFrames \ {"final"} => Len(a) = 1
                      /\ a[i] = "header" <=> i = 1 /\ a[i] \notin FinalFrames
                      /\ a[i] = "final" => i = Len(a) /\ i > 1
    BY DEF Formed
  <2>1. CASE i = Len(w) + 1
    <3>1. i = Len(a) /\ i > 1 /\ a[i] = f
      BY <1>1, <1>5, <2>1
    <3> QED BY <1>5, <3>1 DEF FinalFrames
  <2>2. CASE i \in DOMAIN w
    <3>1. a[i] = w[i] /\ w[i] \notin FinalFrames
      BY <1>1, <1>5, <2>2 DEF Over
    <3>2. w[i] = "header" <=> i = 1 /\ w[i] \notin FinalFrames
      BY <1>5, <2>2 DEF Formed
    <3> QED BY <3>1, <3>2 DEF FinalFrames
  <2> QED BY <1>1, <1>2, <2>1, <2>2
<1>6. ~Over(<<>>) /\ Formed(<<>>)
  BY DEF Over, Formed
<1> QED BY <1>1, <1>3, <1>4, <1>5, <1>6

-----------------------------------------------------------------------------
(* A step that is not about request x: it leaves x alone, but its connection   *)
(* may close.                                                                  *)
Same(x) ==
  /\ conn'[x] = conn[x] /\ msg'[x] = msg[x] /\ wire'[x] = wire[x] /\ at'[x] = at[x] /\ state_'[x] = state_[x]
  /\ (x \in timers' <=> x \in timers) /\ (x \in timerId' <=> x \in timerId)
  /\ (x \in cleanup' <=> x \in cleanup) /\ (x \in gone' <=> x \in gone)
  /\ Queued(x)' <=> Queued(x)
  /\ (loop' = <<"keepalive", x>> <=> loop = <<"keepalive", x>>)
  /\ (loop' = <<"destroy", x>> <=> loop = <<"destroy", x>>)

(* The functors of x are the same, d places nearer to the head.                *)
Shifted(x, d) ==
  /\ \A k \in {"send", "add", "cancel"} : \A i \in At(functors, k, x) :
       i \in Int /\ i - d \in At(functors', k, x) /\ functors'[i - d] = functors[i]
  /\ \A k \in {"send", "add", "cancel"} : \A i \in At(functors', k, x) :
       i \in Int /\ i + d \in At(functors, k, x) /\ functors'[i] = functors[i + d]

(* Connections only go down.                                                   *)
Down(x) == conn[x] # None => (Up(x)' => Up(x)) /\ (Lost(x) => Lost(x)')

(* What is queued, timed and sent for x stays as it is, when its writer does.   *)
LEMMA LineKeeps ==
  ASSUME NEW x \in Req, NEW d \in Int, TimerInv(x), QueueInv(x), WireInv(x), Shifted(x, d),
         wire'[x] = wire[x], x \in timers' <=> x \in timers, x \in timerId' <=> x \in timerId,
         x \in gone' <=> x \in gone, loop' = <<"destroy", x>> <=> loop = <<"destroy", x>>,
         Up(x)' => Up(x), Lost(x) => Lost(x)'
  PROVE  TimerInv(x)' /\ QueueInv(x)' /\ WireInv(x)' /\ (HeaderSent(x) => HeaderSent(x)')
<1>1. \A k \in {"send", "add", "cancel"} : At(functors', k, x) = {} <=> At(functors, k, x) = {}
  BY DEF Shifted
<1>2. HeaderSent(x) => HeaderSent(x)'
  BY DEF HeaderSent, Shifted
<1>3. \A k, l \in {"send", "add", "cancel"} :
        \A i \in At(functors', k, x), j \in At(functors', l, x) :
          (i < j <=> i + d < j + d) /\ (i = j <=> i + d = j + d)
  BY DEF Shifted
<1>4. TimerInv(x)'
  <2>2. x \in timers' => At(functors', "add", x) = {}
    BY <1>1 DEF TimerInv
  <2>3. \A i, j \in At(functors', "add", x) : i = j
    BY <1>3 DEF Shifted, TimerInv
  <2>4. \A i \in At(functors', "add", x), j \in At(functors', "cancel", x) : i < j
    BY <1>3 DEF Shifted, TimerInv
  <2>5. x \in timers' \/ At(functors', "add", x) # {} =>
          At(functors', "cancel", x) # {} \/ (x \in timerId' /\ (x \notin gone' \/ loop' = <<"destroy", x>>))
    BY <1>1 DEF TimerInv
  <2> QED BY <2>2, <2>3, <2>4, <2>5 DEF TimerInv
<1>5. QueueInv(x)'
  <2>2. \A i, j \in At(functors', "send", x) :
          i < j => functors'[i][3] \notin Answers /\ functors'[j][3] \in {"data", "final"}
    <3> SUFFICES ASSUME NEW i \in At(functors', "send", x), NEW j \in At(functors', "send", x), i < j
                 PROVE  functors'[i][3] \notin Answers /\ functors'[j][3] \in {"data", "final"}
      OBVIOUS
    <3>1. /\ i + d \in At(functors, "send", x) /\ j + d \in At(functors, "send", x) /\ i + d < j + d
          /\ functors'[i] = functors[i + d] /\ functors'[j] = functors[j + d]
      BY <1>3 DEF Shifted
    <3> QED BY <3>1 DEF QueueInv
  <2>3. ASSUME NEW i \in At(functors', "send", x)
        PROVE  /\ ~Over(wire'[x])
               /\ functors'[i][3] \in {"header", "json", "accepted"} => wire'[x] = <<>> /\ x \notin timers'
               /\ functors'[i][3] \in {"json", "accepted"} => At(functors', "add", x) = {}
               /\ functors'[i][3] = "header" => \A k \in At(functors', "add", x) : i < k
               /\ functors'[i][3] \in {"data", "final"} =>
                    wire'[x] # <<>> \/ Lost(x)'
                      \/ \E j \in At(functors', "send", x) : j < i /\ functors'[j][3] = "header"
               /\ functors'[i][3] = "final" =>
                    /\ x \in timers' => \E j \in At(functors', "cancel", x) : j < i
                    /\ \A k \in At(functors', "add", x) : \E j \in At(functors', "cancel", x) : k < j /\ j < i
    <3> DEFINE n == i + d
    <3>1. n \in At(functors, "send", x) /\ functors'[i] = functors[n] /\ n \in Int /\ i \in Int /\ i = n - d
      BY DEF Shifted
    <3> HIDE DEF n
    <3>2. \A k \in {"send", "add", "cancel"} : \A j \in At(functors, k, x) :
            j \in Int /\ j - d \in At(functors', k, x) /\ functors'[j - d] = functors[j] /\ (j < n <=> j - d < i)
      BY <3>1 DEF Shifted
    <3>3. \A k \in {"send", "add", "cancel"} : \A j \in At(functors', k, x) :
            j \in Int /\ j + d \in At(functors, k, x) /\ (n < j + d <=> i < j)
              /\ \A m \in Int : j + d < m <=> j < m - d
      BY <3>1 DEF Shifted
    <3>4. ~Over(wire'[x]) /\ (functors'[i][3] \in {"header", "json", "accepted"} => wire'[x] = <<>> /\ x \notin timers')
      BY <3>1 DEF QueueInv
    <3>5. functors'[i][3] \in {"json", "accepted"} => At(functors', "add", x) = {}
      BY <1>1, <3>1 DEF QueueInv
    <3>6. functors'[i][3] = "header" => \A k \in At(functors', "add", x) : i < k
      BY <3>1, <3>3 DEF QueueInv
    <3>7. functors'[i][3] \in {"data", "final"} =>
            wire'[x] # <<>> \/ Lost(x)' \/ \E j \in At(functors', "send", x) : j < i /\ functors'[j][3] = "header"
      BY <3>1, <3>2 DEF QueueInv
    <3>8. functors'[i][3] = "final" /\ x \in timers' => \E j \in At(functors', "cancel", x) : j < i
      BY <3>1, <3>2 DEF QueueInv
    <3>9. ASSUME functors'[i][3] = "final", NEW k \in At(functors', "add", x)
          PROVE  \E j \in At(functors', "cancel", x) : k < j /\ j < i
      <4>1. PICK m \in At(functors, "cancel", x) : k + d < m /\ m < n
        BY <3>1, <3>3, <3>9 DEF QueueInv
      <4>2. m \in Int /\ m - d \in At(functors', "cancel", x) /\ m - d < i /\ k < m - d
        BY <3>2, <3>3, <4>1
      <4> QED BY <4>2
    <3> QED BY <3>4, <3>5, <3>6, <3>7, <3>8, <3>9
  <2> QED BY <2>2, <2>3 DEF QueueInv
<1>6. WireInv(x)'
  BY <1>1, <1>2 DEF WireInv
<1> QED BY <1>2, <1>4, <1>5, <1>6

(* A request that a step is not about keeps its invariant.                      *)
LEMMA OthersKeep ==
  ASSUME NEW x \in Req, NEW d \in Int, RequestInv(x), Same(x), Shifted(x, d), Down(x)
  PROVE  RequestInv(x)'
<1>1. Begun(x)' <=> Begun(x)
  BY DEF Same, Begun
<1>2. \A k \in {"send", "add", "cancel"} : At(functors', k, x) = {} <=> At(functors, k, x) = {}
  BY DEF Shifted
<1>3. Untouched(x)' <=> Untouched(x)
  BY <1>2 DEF Same, Untouched
<1>4. PlaceInv(x)' /\ WriterInv(x)'
  BY <1>1, <1>2, <1>3 DEF Same, RequestInv, PlaceInv, WriterInv
<1>5. CASE ~Begun(x)
  <2>1. Untouched(x) /\ at[x] = "none" /\ WireInv(x)
    BY <1>5 DEF RequestInv, PlaceInv
  <2>2. Untouched(x)' /\ at'[x] = "none" /\ wire'[x] = wire[x]
    BY <1>3, <2>1 DEF Same
  <2>3. TimerInv(x)' /\ QueueInv(x)' /\ AnswerInv(x)' /\ WireInv(x)'
    BY <2>1, <2>2 DEF Untouched, TimerInv, QueueInv, AnswerInv, Answering, WireInv
  <2> QED BY <1>4, <2>3 DEF RequestInv
<1>6. CASE Begun(x)
  <2>1. (Up(x)' => Up(x)) /\ (Lost(x) => Lost(x)')
    BY <1>6 DEF Down, Begun
  <2>2. TimerInv(x)' /\ QueueInv(x)' /\ WireInv(x)' /\ (HeaderSent(x) => HeaderSent(x)')
    BY <2>1, LineKeeps DEF RequestInv, Same
  <2>3. AnswerInv(x)'
    <3>1. \A i \in At(functors', "send", x) : i + d \in At(functors, "send", x) /\ functors'[i][3] = functors[i + d][3]
      BY DEF Shifted
    <3> QED BY <1>2, <1>3, <2>2, <3>1 DEF RequestInv, AnswerInv, Answering, Same
  <2> QED BY <1>4, <2>2, <2>3 DEF RequestInv
<1> QED BY <1>5, <1>6

(* The one a step is about does, when the step only moves its worker.           *)
LEMMA MoveKeeps ==
  ASSUME NEW x \in Req, RequestInv(x), Begun(x), Begun(x)', Shifted(x, 0), Down(x), conn'[x] = conn[x],
         wire'[x] = wire[x], x \in timers' <=> x \in timers, x \in timerId' <=> x \in timerId,
         x \in gone' <=> x \in gone, loop' = loop,
         AnswerInv(x)', x \in gone \/ loop = <<"destroy", x>> => at'[x] = "none"
  PROVE  RequestInv(x)'
<1>1. TimerInv(x)' /\ QueueInv(x)' /\ WireInv(x)'
  BY LineKeeps DEF RequestInv, Down, Begun
<1>2. PlaceInv(x)'
  <2>1. ~Queued(x)'
    BY DEF Begun
  <2> QED BY <2>1 DEF PlaceInv
<1>3. WriterInv(x)'
  <2>1. At(functors', "add", x) = {} <=> At(functors, "add", x) = {}
    BY DEF Shifted
  <2> QED BY <2>1 DEF RequestInv, WriterInv
<1> QED BY <1>1, <1>2, <1>3 DEF RequestInv

(* A queue that stays as it is, or gets functors that are not about x.          *)
NotAbout(f, x) == f[1] = "shutdown" \/ f[2] # x

(* A functor that is not about x leaves the positions of those of x.         *)
LEMMA LongerNotAbout ==
  ASSUME NEW x, NEW q \in Seq(Functor), NEW f \in Functor, NotAbout(f, x), NEW p, Longer(p, q, f)
  PROVE  \A k \in {"send", "add", "cancel"} :
           At(p, k, x) = At(q, k, x) /\ \A i \in At(q, k, x) : p[i] = q[i]
<1> SUFFICES ASSUME NEW k \in {"send", "add", "cancel"}
             PROVE  At(p, k, x) = At(q, k, x) /\ \A i \in At(q, k, x) : p[i] = q[i]
  OBVIOUS
<1>1. ~(f[1] = k /\ f[2] = x)
  BY DEF NotAbout
<1>2. /\ \A i : i \in At(p, k, x) <=> i \in At(q, k, x) \/ (i = Len(q) + 1 /\ f[1] = k /\ f[2] = x)
      /\ \A i : i \in At(q, k, x) => p[i] = q[i]
  BY AppendFacts
<1> QED BY <1>1, <1>2

(* So do one or two of them in a step.                                       *)
LEMMA NotAboutKeeps ==
  ASSUME NEW x, functors \in Seq(Functor),
         \/ functors' = functors
         \/ \E f \in Functor : NotAbout(f, x) /\ Longer(functors', functors, f)
         \/ \E f, g \in Functor : NotAbout(f, x) /\ NotAbout(g, x)
               /\ \E q \in Seq(Functor) : Longer(q, functors, f) /\ Longer(functors', q, g)
  PROVE  Shifted(x, 0)
<1> DEFINE Kept(q) == \A k \in {"send", "add", "cancel"} :
             At(q, k, x) = At(functors, k, x) /\ \A i \in At(functors, k, x) : q[i] = functors[i]
<1>1. \A k : \A i \in At(functors, k, x) : i \in Int /\ i - 0 = i /\ i + 0 = i
  BY DEF At
<1>2. Kept(functors') => Shifted(x, 0)
  BY <1>1 DEF Shifted
<1>3. ASSUME NEW f \in Functor, NotAbout(f, x), Longer(functors', functors, f) PROVE Kept(functors')
  BY <1>3, LongerNotAbout
<1>4. ASSUME NEW f \in Functor, NEW g \in Functor, NotAbout(f, x), NotAbout(g, x),
             NEW q \in Seq(Functor), Longer(q, functors, f), Longer(functors', q, g)
      PROVE  Kept(functors')
  <2>1. Kept(q)
    BY <1>4, LongerNotAbout
  <2>2. \A k \in {"send", "add", "cancel"} :
          At(functors', k, x) = At(q, k, x) /\ \A i \in At(q, k, x) : functors'[i] = q[i]
    BY <1>4, LongerNotAbout
  <2> QED BY <2>1, <2>2
<1> QED BY <1>2, <1>3, <1>4

-----------------------------------------------------------------------------
(* The functors a worker queues are functors.                                  *)
LEMMA SentFacts ==
  ASSUME NEW r \in Req, NEW q \in Seq(Functor)
  PROVE  /\ \A f \in {"header", "data", "json", "accepted", "final"} :
              <<"send", r, f>> \in Functor /\ Sent(q, r, f) \in Seq(Functor)
         /\ <<"add", r>> \in Functor /\ <<"cancel", r>> \in Functor /\ Cancelled(q, r) \in Seq(Functor)
         /\ \A c \in Conn : <<"shutdown", c>> \in Functor
<1>1. /\ \A f \in {"header", "data", "json", "accepted", "final"} : <<"send", r, f>> \in Functor
      /\ <<"add", r>> \in Functor /\ <<"cancel", r>> \in Functor
      /\ \A c \in Conn : <<"shutdown", c>> \in Functor
  BY DEF Functor
<1>2. \A f \in Functor : Append(q, f) \in Seq(Functor)
  OBVIOUS
<1> QED BY <1>1, <1>2 DEF Sent, Cancelled

(* Each variable keeps its type.                                               *)
LEMMA TypeStep ==
  ASSUME TypeOK, Next, \A r \in Req : at[r] # "none" => conn[r] # None
  PROVE  TypeOK'
<1> USE DEF TypeOK
<1>0. /\ functors \in Seq(Functor) /\ (functors # <<>> => Tail(functors) \in Seq(Functor) /\ Head(functors) \in Functor)
      /\ tasks \in Seq(Req) /\ (tasks # <<>> => Tail(tasks) \in Seq(Req))
      /\ \A r \in Req : Append(tasks, r) \in Seq(Req)
      /\ \A f \in Functor : Append(functors, f) \in Seq(Functor)
  <2>1. functors # <<>> => Tail(functors) \in Seq(Functor) /\ Head(functors) \in Functor
    BY DEF TypeOK
  <2> QED BY <2>1
<1>a. \A r \in Req : \A l \in Labels : [at EXCEPT ![r] = l] \in [Req -> Labels]
  OBVIOUS
<1>w. ASSUME NEW r \in Req, NEW f \in Frames, wire' = [wire EXCEPT ![r] = Append(@, f)]
      PROVE  wire' \in [Req -> Seq(Frames)]
  <2>1. wire[r] \in Seq(Frames) /\ wire \in [Req -> Seq(Frames)]
    OBVIOUS
  <2> HIDE DEF TypeOK
  <2>2. Append(wire[r], f) \in Seq(Frames)
    BY <2>1
  <2> QED BY <1>w, <2>1, <2>2
<1>l. /\ \A l \in {"none", "accepted", "response", "clear", "check", "test", "execute", "notify", "add",
                  "close", "done", "remove"} : l \in Labels
      /\ \A f \in {"header", "data", "keepalive", "refusal", "json", "accepted", "final"} : f \in Frames
  BY DEF Labels, Frames, Answers
<1> HIDE DEF TypeOK
<1>1. ASSUME NEW c \in Conn, NEW r \in Req, NEW m \in Message, onRequest(c, r, m) PROVE TypeOK'
  <2>1. wire' \in [Req -> Seq(Frames)] /\ m_state' \in [Conn -> {"kConnected", "kDisconnecting", "kDisconnected"}]
        /\ ended' \subseteq Conn /\ loop' \in {<<"free">>} \union ({"submit", "keepalive", "destroy"} \X Req)
    <3>1. wire' \in [Req -> Seq(Frames)]
      <4>1. wire' = wire \/ wire' = [wire EXCEPT ![r] = Append(@, "refusal")]
        BY <1>1 DEF onRequest, connVars
      <4> QED BY <1>w, <1>l, <4>1 DEF TypeOK
    <3>2. m_state' \in [Conn -> {"kConnected", "kDisconnecting", "kDisconnected"}] /\ ended' \subseteq Conn
      BY <1>1 DEF onRequest, connVars, TypeOK
    <3>3. loop' \in {<<"free">>} \union ({"submit", "keepalive", "destroy"} \X Req)
      BY <1>1 DEF onRequest, TypeOK
    <3> QED BY <3>1, <3>2, <3>3
  <2>2. conn' \in [Req -> Conn \union {None}] /\ msg' \in [Req -> Message \union {None}]
    BY <1>1 DEF onRequest, TypeOK
  <2> QED BY <1>1, <2>1, <2>2 DEF TypeOK, onRequest, writers
<1>2. ASSUME execute PROVE TypeOK'
  <2>1. loop[2] \in Req
    BY <1>2 DEF execute, TypeOK
  <2> QED BY <1>0, <1>2, <2>1 DEF TypeOK, execute, connVars, writers
<1>3. ASSUME NEW c \in Conn, handleClose(c) PROVE TypeOK'
  BY <1>3 DEF TypeOK, handleClose, loopVars, writers
<1>4. ASSUME RunFunctor PROVE TypeOK'
  <2> DEFINE f == Head(functors)
  <2>1. f \in Functor /\ functors' \in Seq(Functor)
    BY <1>0, <1>4 DEF RunFunctor
  <2>2. /\ f[1] = "send" => f[2] \in Req /\ f[3] \in Frames
        /\ f[1] = "shutdown" => f[2] \in Conn
        /\ f[1] \in {"add", "cancel"} => f[2] \in Req
    BY <2>1 DEF Functor, Frames, Answers
  <2> HIDE DEF f
  <2>a. wire' \in [Req -> Seq(Frames)]
    <3>1. wire' = wire \/ (f[1] = "send" /\ wire' = [wire EXCEPT ![f[2]] = Append(@, f[3])])
      BY <1>4 DEF RunFunctor, Out, f
    <3>2. CASE f[1] = "send" /\ wire' = [wire EXCEPT ![f[2]] = Append(@, f[3])]
      BY <1>w, <2>2, <3>2
    <3> QED BY <3>1, <3>2 DEF TypeOK
  <2>b. timers' \subseteq Req
    <3>1. timers' = timers \/ (f[1] = "add" /\ timers' = timers \union {f[2]}) \/ timers' = timers \ {f[2]}
      BY <1>4 DEF RunFunctor, f
    <3> QED BY <2>2, <3>1 DEF TypeOK
  <2>c. ended' \subseteq Conn
    <3>1. ended' = ended \/ (f[1] = "shutdown" /\ ended' = ended \union {f[2]})
      BY <1>4 DEF RunFunctor, f
    <3> QED BY <2>2, <3>1 DEF TypeOK
  <2>3. wire' \in [Req -> Seq(Frames)] /\ timers' \subseteq Req /\ ended' \subseteq Conn
    BY <2>a, <2>b, <2>c
  <2> QED BY <1>4, <2>1, <2>3 DEF TypeOK, RunFunctor, writers
<1>5. ASSUME NEW r \in Req, Take(r) PROVE TypeOK'
  <2>1. at' \in [Req -> Labels]
    BY <1>5, <1>a, <1>l DEF Take, Goto
  <2> QED BY <1>0, <1>5, <2>1 DEF TypeOK, Take, connVars, loopVars, writers
<1>6. ASSUME NEW r \in Req, validate(r) PROVE TypeOK'
  <2>1. at' \in [Req -> Labels]
    BY <1>6, <1>a, <1>l DEF validate, Goto
  <2> QED BY <1>6, <2>1 DEF TypeOK, validate, connVars, loopVars, writers
<1>7. ASSUME NEW r \in Req, executor(r) PROVE TypeOK'
  <2>1. at' \in [Req -> Labels]
    BY <1>7, <1>a, <1>l DEF executor, Goto
  <2> QED BY <1>7, <2>1 DEF TypeOK, executor, connVars, loopVars, writers
<1>8. ASSUME NEW r \in Req, upgrade_to_sse(r) PROVE TypeOK'
  <2>1. functors' \in Seq(Functor)
    <3>1. Sent(functors, r, "header") \in Seq(Functor) /\ <<"add", r>> \in Functor
      BY <1>0, SentFacts
    <3> QED BY <1>8, <3>1 DEF upgrade_to_sse
  <2> QED BY <1>8, <2>1 DEF TypeOK, upgrade_to_sse, connVars, loopVars
<1>9. ASSUME NEW r \in Req, write_notification(r) PROVE TypeOK'
  <2>1. functors' \in Seq(Functor)
    BY <1>9, <1>0, SentFacts DEF write_notification
  <2>2. at' \in [Req -> Labels]
    BY <1>9, <1>a, <1>l DEF write_notification, Goto, AfterNotification
  <2> QED BY <1>9, <2>1, <2>2 DEF TypeOK, write_notification, connVars, loopVars, writers
<1>10. ASSUME NEW r \in Req, write_response(r) PROVE TypeOK'
  <2>1. functors' \in Seq(Functor)
    <3>1. Cancelled(functors, r) \in Seq(Functor)
      BY <1>0, SentFacts
    <3>2. \/ functors' = Sent(Cancelled(functors, r), r, "json") \/ functors' = Sent(Cancelled(functors, r), r, "final")
          \/ functors' = Sent(functors, r, "accepted")
      BY <1>10 DEF write_response
    <3> QED BY <1>0, <3>1, <3>2, SentFacts
  <2>2. at' \in [Req -> Labels]
    BY <1>10, <1>a, <1>l DEF write_response, Goto
  <2> QED BY <1>10, <2>1, <2>2 DEF TypeOK, write_response, connVars, loopVars
<1>11. ASSUME NEW r \in Req, shutdown(r) PROVE TypeOK'
  <2>1. at' \in [Req -> Labels]
    BY <1>11, <1>a, <1>l DEF shutdown, Goto
  <2>2. m_state' \in [Conn -> {"kConnected", "kDisconnecting", "kDisconnected"}]
    <3>1. m_state' = m_state \/ m_state' = [m_state EXCEPT ![conn[r]] = "kDisconnecting"]
      BY <1>11 DEF shutdown, Shutdown
    <3> QED BY <3>1 DEF TypeOK
  <2>3. functors' \in Seq(Functor)
    <3>1. functors' = functors \/ functors' = Append(functors, <<"shutdown", conn[r]>>)
      BY <1>11 DEF shutdown, Shutdown, TypeOK
    <3>2. CASE functors' = Append(functors, <<"shutdown", conn[r]>>)
      <4>1. conn[r] \in Conn
        BY <1>11 DEF shutdown, TypeOK
      <4>2. <<"shutdown", conn[r]>> \in Functor
        BY <4>1 DEF Functor
      <4> QED BY <1>0, <3>2, <4>2
    <3> QED BY <1>0, <3>1, <3>2
  <2> QED BY <1>11, <2>1, <2>2, <2>3 DEF TypeOK, shutdown, loopVars
<1>12. ASSUME NEW r \in Req, add(r) PROVE TypeOK'
  <2>1. at' \in [Req -> Labels]
    BY <1>12, <1>a, <1>l DEF add, Goto
  <2>2. subscriptions_' \in [Ids -> Req \union {None}]
    BY <1>12 DEF add, TypeOK
  <2> QED BY <1>12, <2>1, <2>2 DEF TypeOK, add, connVars, loopVars
<1>13. ASSUME NEW r \in Req, Release(r) PROVE TypeOK'
  <2>1. at' \in [Req -> Labels]
    BY <1>13, <1>a, <1>l DEF Release, Goto
  <2>2. functors' \in Seq(Functor)
    BY <1>13, <1>0, SentFacts DEF Release
  <2> QED BY <1>13, <2>1, <2>2 DEF TypeOK, Release, connVars, loopVars
<1>14. ASSUME NEW r \in Req, remove(r) PROVE TypeOK'
  <2>1. at' \in [Req -> Labels]
    BY <1>14, <1>a, <1>l DEF remove, Goto
  <2>2. subscriptions_' \in [Ids -> Req \union {None}]
    BY <1>14 DEF remove, Unregister, TypeOK
  <2> QED BY <1>14, <2>1, <2>2 DEF TypeOK, remove, connVars, loopVars, writers
<1>15. ASSUME NEW r \in Req, Keepalive(r) PROVE TypeOK'
  BY <1>15 DEF TypeOK, Keepalive, connVars, writers
<1>16. ASSUME NEW r \in Req, KeepaliveSend(r) PROVE TypeOK'
  <2>1. wire' \in [Req -> Seq(Frames)]
    <3>1. wire' = wire \/ wire' = [wire EXCEPT ![r] = Append(@, "keepalive")]
      BY <1>16 DEF KeepaliveSend, Out
    <3> QED BY <1>w, <1>l, <3>1 DEF TypeOK
  <2>2. timers' \subseteq Req /\ timerId' \subseteq Req
    BY <1>16 DEF KeepaliveSend, TypeOK
  <2>3. gone' \subseteq Req /\ loop' \in {<<"free">>} \union ({"submit", "keepalive", "destroy"} \X Req)
    BY <1>16 DEF KeepaliveSend, TypeOK
  <2> QED BY <1>16, <2>1, <2>2, <2>3 DEF TypeOK, KeepaliveSend
<1>17. ASSUME NEW r \in Req, DestructorInLoop(r) PROVE TypeOK'
  <2>1. subscriptions_' \in [Ids -> Req \union {None}]
    BY <1>17 DEF DestructorInLoop, Unregister, TypeOK
  <2> QED BY <1>17, <2>1 DEF TypeOK, DestructorInLoop, connVars, writers
<1> QED
  BY <1>1, <1>2, <1>3, <1>4, <1>5, <1>6, <1>7, <1>8, <1>9, <1>10, <1>11, <1>12, <1>13, <1>14, <1>15, <1>16, <1>17
  DEF Next, LoopStep, WorkerStep

-----------------------------------------------------------------------------
(* Connections only go down, whatever the step.                                *)
GoingDown ==
  /\ \A c \in Conn : /\ m_state'[c] = "kConnected" => m_state[c] = "kConnected"
                     /\ m_state[c] = "kDisconnected" => m_state'[c] = "kDisconnected"
  /\ ended \subseteq ended'

(* No step brings a connection up or reopens a write side.                   *)
LEMMA StepGoesDown ==
  ASSUME TypeOK, Next PROVE GoingDown
<1>1. CASE UNCHANGED <<m_state, ended>>
  BY <1>1 DEF GoingDown
<1>2. ASSUME NEW c \in Conn, NEW r \in Req, NEW m \in Message, onRequest(c, r, m) PROVE GoingDown
  BY <1>2 DEF onRequest, GoingDown, connVars, TypeOK
<1>3. ASSUME NEW c \in Conn, handleClose(c) PROVE GoingDown
  BY <1>3 DEF handleClose, GoingDown, TypeOK
<1>4. ASSUME RunFunctor PROVE GoingDown
  BY <1>4 DEF RunFunctor, GoingDown
<1>5. ASSUME NEW r \in Req, shutdown(r) PROVE GoingDown
  BY <1>5 DEF shutdown, Shutdown, GoingDown, TypeOK
<1>6. ASSUME NEW r \in Req, execute \/ (WorkerStep(r) /\ ~shutdown(r)) \/ Keepalive(r) \/ KeepaliveSend(r) \/ DestructorInLoop(r)
      PROVE  UNCHANGED <<m_state, ended>>
  BY <1>6 DEF WorkerStep, execute, Take, validate, executor, upgrade_to_sse, write_notification, write_response, add,
              Release, remove, Keepalive, KeepaliveSend, DestructorInLoop, connVars
<1>7. execute => UNCHANGED <<m_state, ended>>
  BY DEF execute, connVars
<1> QED BY <1>1, <1>2, <1>3, <1>4, <1>5, <1>6, <1>7 DEF Next, LoopStep

(* What GoingDown says of the connection of x.                               *)
LEMMA DownKeeps ==
  ASSUME TypeOK, GoingDown, NEW x \in Req, conn'[x] = conn[x] PROVE Down(x)
BY DEF TypeOK, GoingDown, Down, Up, Lost

(* A step about nothing, and one about the request r.                          *)
LEMMA AboutNothing ==
  ASSUME TypeOK, GoingDown, functors' = functors, \A x \in Req : RequestInv(x) /\ Same(x)
  PROVE  \A x \in Req : RequestInv(x)'
<1> SUFFICES ASSUME NEW x \in Req PROVE RequestInv(x)'
  OBVIOUS
<1>1. Shifted(x, 0) /\ Down(x)
  BY NotAboutKeeps, DownKeeps DEF TypeOK, Same
<1> QED BY <1>1, OthersKeep

(* A step about request r, of which r keeps its invariant.                   *)
LEMMA AboutOne ==
  ASSUME TypeOK, GoingDown, NEW r \in Req, RequestInv(r)', \A x \in Req : RequestInv(x),
         \A x \in Req \ {r} : Same(x) /\ Shifted(x, 0)
  PROVE  \A x \in Req : RequestInv(x)'
<1> SUFFICES ASSUME NEW x \in Req \ {r} PROVE RequestInv(x)'
  OBVIOUS
<1>1. Down(x)
  BY DownKeeps DEF Same
<1> QED BY <1>1, OthersKeep

(* The client closes a connection (handleClose).                             *)
LEMMA CloseKeeps ==
  ASSUME TypeOK, \A x \in Req : RequestInv(x), Next, NEW c \in Conn, handleClose(c)
  PROVE  \A x \in Req : RequestInv(x)'
<1>1. \A x \in Req : Same(x)
  BY DEF handleClose, loopVars, writers, Same, Queued
<1> QED BY <1>1, AboutNothing, StepGoesDown DEF handleClose

(* A request arrives (onRequest): its writer is fresh.                       *)
LEMMA RequestKeeps ==
  ASSUME TypeOK, \A x \in Req : RequestInv(x), Next, NEW c \in Conn, NEW r \in Req, NEW m \in Message,
         onRequest(c, r, m)
  PROVE  \A x \in Req : RequestInv(x)'
<1>1. /\ conn[r] = None /\ loop = <<"free">> /\ functors' = functors /\ conn'[r] = c /\ msg'[r] = m
      /\ timers' = timers /\ timerId' = timerId /\ cleanup' = cleanup /\ gone' = gone /\ state_' = state_ /\ at' = at /\ tasks' = tasks
      /\ \A x \in Req \ {r} : conn'[x] = conn[x] /\ msg'[x] = msg[x] /\ wire'[x] = wire[x]
  BY DEF onRequest, TypeOK, connVars, writers
<1>2. \/ m.headers /\ loop' = <<"submit", r>> /\ wire' = wire
      \/ ~m.headers /\ loop' = loop /\ (wire'[r] = wire[r] \/ wire'[r] = Append(wire[r], "refusal"))
  BY DEF onRequest, TypeOK, connVars
<1>3. ~Begun(r) /\ at[r] = "none" /\ Untouched(r) /\ wire[r] = <<>> /\ ~Queued(r)
  BY <1>1 DEF RequestInv, PlaceInv, Begun
<1>4. \A x \in Req \ {r} : Same(x)
  BY <1>1, <1>2 DEF Same, Queued
<1>5. \A x \in Req \ {r} : Shifted(x, 0)
  BY <1>1, NotAboutKeeps DEF TypeOK
<1>6. c # None
  BY McpAssumption
<1>7. (Queued(r)' <=> m.headers) /\ ~Begun(r)'
  BY <1>1, <1>2, <1>3 DEF Queued, Begun
<1>8. Untouched(r)'
  BY <1>1, <1>2, <1>3 DEF Untouched
<1>9. Formed(wire'[r])
  <2>1. wire[r] \in Seq(Frames) /\ "refusal" \in Frames
    BY DEF TypeOK, Frames
  <2>2. Formed(<<>>) /\ Formed(Append(wire[r], "refusal"))
    BY <1>3, <2>1, FrameFacts
  <2> QED BY <1>2, <1>3, <2>2
<1>10. PlaceInv(r)'
  BY <1>1, <1>2, <1>3, <1>6, <1>7, <1>8 DEF PlaceInv
<1>11. RequestInv(r)'
  <2>1. Untouched(r)' /\ at'[r] = "none"
    BY <1>1, <1>3, <1>8
  <2> QED BY <1>9, <1>10, <2>1 DEF Untouched, RequestInv, WriterInv, TimerInv, QueueInv, AnswerInv, Answering, WireInv
<1> QED BY <1>4, <1>5, <1>11, AboutOne, StepGoesDown

(* The pool's queue: a request is put into it by the loop, and taken.           *)
LEMMA ExecuteKeeps ==
  ASSUME TypeOK, TasksInv, \A x \in Req : RequestInv(x), Next, execute
  PROVE  (\A x \in Req : RequestInv(x)') /\ TasksInv'
<1>1. PICK r \in Req : loop = <<"submit", r>>
  BY DEF execute, TypeOK
<1>2. /\ tasks' = Append(tasks, r) /\ loop' = <<"free">> /\ functors' = functors
      /\ UNCHANGED <<wire, timers, conn, msg, at, state_, timerId, cleanup, gone>>
  BY <1>1 DEF execute, connVars, writers
<1>3. /\ Len(tasks) \in Nat /\ Len(tasks') = Len(tasks) + 1 /\ tasks'[Len(tasks) + 1] = r
      /\ \A i \in 1..Len(tasks) : tasks'[i] = tasks[i]
  BY <1>2 DEF TypeOK
<1>4. \A i : i \in 1..Len(tasks') <=> i \in 1..Len(tasks) \/ i = Len(tasks) + 1
  BY <1>3
<1>5. \A x \in Req : Queued(x)' <=> Queued(x)
  BY <1>1, <1>2, <1>3, <1>4 DEF Queued
<1>6. \A x \in Req : Same(x)
  BY <1>1, <1>2, <1>5 DEF Same
<1>7. \A i \in 1..Len(tasks) : tasks[i] # r
  BY <1>1 DEF TasksInv
<1>8. TasksInv'
  BY <1>2, <1>3, <1>4, <1>7 DEF TasksInv
<1> QED BY <1>2, <1>6, <1>8, AboutNothing, StepGoesDown

(* A worker takes the oldest task (Take).                                    *)
LEMMA TakeKeeps ==
  ASSUME TypeOK, TasksInv, \A x \in Req : RequestInv(x), Next, NEW r \in Req, Take(r)
  PROVE  (\A x \in Req : RequestInv(x)') /\ TasksInv'
<1>1. /\ tasks # <<>> /\ r = Head(tasks) /\ tasks' = Tail(tasks) /\ functors' = functors
      /\ UNCHANGED <<wire, loop, timers, conn, msg, state_, timerId, cleanup, gone>>
      /\ \A x \in Req \ {r} : at'[x] = at[x]
      /\ at'[r] \in {"accepted", "response", "clear", "notify"}
  BY DEF Take, Goto, connVars, loopVars, writers, TypeOK
<1>2. /\ Len(tasks) \in Nat \ {0} /\ Len(tasks') = Len(tasks) - 1 /\ tasks[1] = r
      /\ \A i \in 1..Len(tasks') : tasks'[i] = tasks[i + 1]
  BY <1>1 DEF TypeOK
<1>3. /\ \A i \in 1..Len(tasks') : i \in Int /\ i + 1 \in 1..Len(tasks) /\ i + 1 # 1
      /\ \A i \in 1..Len(tasks) : i \in Int /\ (i = 1 \/ (i - 1 \in 1..Len(tasks') /\ (i - 1) + 1 = i))
      /\ 1 \in 1..Len(tasks)
  BY <1>2
<1>4. \A x \in Req \ {r} : Queued(x)' <=> Queued(x)
  BY <1>1, <1>2, <1>3 DEF Queued
<1>5. \A i \in 1..Len(tasks') : tasks'[i] # r
  BY <1>2, <1>3 DEF TasksInv
<1>6. Queued(r) /\ ~Queued(r)'
  BY <1>1, <1>2, <1>3, <1>5 DEF Queued, TasksInv
<1>7. \A x \in Req \ {r} : Same(x) /\ Shifted(x, 0)
  BY <1>1, <1>4, NotAboutKeeps DEF Same, TypeOK
<1>8. conn[r] # None /\ msg[r].headers /\ at[r] = "none" /\ Untouched(r) /\ wire[r] = <<>> /\ Formed(wire[r])
  BY <1>6 DEF RequestInv, PlaceInv, Begun, WireInv
<1>9. Begun(r)' /\ Untouched(r)' /\ wire'[r] = <<>> /\ Formed(wire'[r])
  BY <1>1, <1>6, <1>8 DEF Begun, Untouched
<1>10. ~Over(wire'[r])
  BY <1>9 DEF Over
<1>11. RequestInv(r)'
  BY <1>1, <1>6, <1>9, <1>10 DEF Untouched, RequestInv, PlaceInv, WriterInv, TimerInv, QueueInv, AnswerInv, WireInv
<1>12. TasksInv'
  <2>1. \A i, j \in 1..Len(tasks') : tasks'[i] = tasks'[j] => i = j
    <3> SUFFICES ASSUME NEW i \in 1..Len(tasks'), NEW j \in 1..Len(tasks'), tasks'[i] = tasks'[j] PROVE i = j
      OBVIOUS
    <3>1. i + 1 = j + 1
      BY <1>2, <1>3 DEF TasksInv
    <3> QED BY <1>3, <3>1
  <2>2. \A i \in 1..Len(tasks') : loop' # <<"submit", tasks'[i]>>
    BY <1>1, <1>2, <1>3 DEF TasksInv
  <2> QED BY <2>1, <2>2 DEF TasksInv
<1> QED BY <1>7, <1>11, <1>12, AboutOne, StepGoesDown

(* A request that a worker has.                                                *)
LEMMA RunningIsBegun ==
  ASSUME NEW r \in Req, RequestInv(r), at[r] # "none" PROVE Begun(r)
BY DEF RequestInv, PlaceInv

(* The steps of a worker that only move it.                                     *)
LEMMA MovesKeep ==
  ASSUME TypeOK, \A x \in Req : RequestInv(x), Next, NEW r \in Req,
         validate(r) \/ executor(r) \/ add(r) \/ remove(r)
  PROVE  \A x \in Req : RequestInv(x)'
<1>1. /\ functors' = functors /\ UNCHANGED <<wire, loop, timers, conn, msg, tasks, state_, timerId, gone>>
      /\ \A x \in Req \ {r} : at'[x] = at[x] /\ (x \in cleanup' <=> x \in cleanup)
  BY DEF validate, executor, add, remove, Goto, connVars, loopVars, writers, TypeOK
<1>2. at[r] # "none" /\ Begun(r) /\ RequestInv(r)
  BY RunningIsBegun DEF validate, executor, add, remove
<1>3. Begun(r)'
  BY <1>1, <1>2 DEF Begun, Queued
<1>4. \A x \in Req \ {r} : Same(x)
  BY <1>1 DEF Same, Queued
<1>5. \A x \in Req : Shifted(x, 0)
  BY <1>1, NotAboutKeeps DEF TypeOK
<1>6. Down(r)
  BY <1>1, DownKeeps, StepGoesDown
<1>7. HeaderSent(r)' <=> HeaderSent(r)
  BY <1>1 DEF validate, executor, add, remove, HeaderSent, Up, connVars
<1>8. /\ r \in gone \/ loop = <<"destroy", r>> => at[r] = "remove"
      /\ r \in gone \/ loop = <<"destroy", r>> => at'[r] = "none"
  <2>1. r \in gone \/ loop = <<"destroy", r>> => at[r] = "remove"
    BY <1>2 DEF RequestInv, WriterInv
  <2>2. at[r] = "remove" => at'[r] = "none"
    BY DEF validate, executor, add, remove, Goto, TypeOK
  <2> QED BY <2>1, <2>2
<1>9. AnswerInv(r)'
  <2>1. CASE validate(r) \/ executor(r)
    <3>1. Answering(r) /\ cleanup' = cleanup /\ at'[r] # "accepted"
      BY <2>1 DEF validate, executor, Answering, writers, Goto, TypeOK
    <3>2. Untouched(r)' <=> Untouched(r)
      BY <1>1, <3>1 DEF Untouched
    <3> QED BY <1>1, <1>2, <1>7, <3>1, <3>2 DEF RequestInv, AnswerInv
  <2>2. CASE add(r) \/ remove(r)
    <3>1. at'[r] \in {"none", "done"}
      BY <2>2 DEF add, remove, Goto, TypeOK
    <3> QED BY <3>1 DEF AnswerInv, Answering
  <2> QED BY <2>1, <2>2
<1>10. RequestInv(r)'
  BY <1>1, <1>2, <1>3, <1>5, <1>6, <1>8, <1>9, MoveKeeps DEF Begun
<1> QED BY <1>4, <1>5, <1>10, AboutOne, StepGoesDown

-----------------------------------------------------------------------------
(* The functors of r grow at the end: by cancels at C, then by a frame f at S,   *)
(* each of which has at most one member.                                       *)
Grows(r, C, S, f) ==
  /\ \A i : i \in At(functors', "send", r) <=> i \in At(functors, "send", r) \/ i \in S
  /\ \A i : i \in At(functors', "add", r) <=> i \in At(functors, "add", r)
  /\ \A i : i \in At(functors', "cancel", r) <=> i \in At(functors, "cancel", r) \/ i \in C
  /\ \A k \in {"send", "add", "cancel"} : \A i \in At(functors, k, r) :
       i \in Nat /\ functors'[i] = functors[i] /\ \A j \in C \union S : i < j
  /\ C \union S \subseteq Nat /\ \A i, j \in S : i = j
  /\ \A i \in C, j \in S : i < j
  /\ \A i \in S : functors'[i][3] = f

(* What a worker may queue for the loop without breaking r's invariant.      *)
LEMMA GrowthKeeps ==
  ASSUME TypeOK, NEW r \in Req, NEW C, NEW S, NEW f, Grows(r, C, S, f),
         TimerInv(r), QueueInv(r), WireInv(r),
         UNCHANGED <<m_state, ended, wire, timers, conn>>,
         r \in timers \/ At(functors, "add", r) # {} =>
           C # {} \/ At(functors, "cancel", r) # {} \/ (r \in timerId' /\ (r \notin gone' \/ loop' = <<"destroy", r>>)),
         S # {} => /\ f \in {"data", "final", "json", "accepted"} /\ ~Over(wire[r]) /\ Up(r)
                   /\ \A i \in At(functors, "send", r) : functors[i][3] \notin Answers,
         S # {} /\ f \in {"data", "final"} => HeaderSent(r),
         S # {} /\ f \in {"json", "accepted"} =>
           wire[r] = <<>> /\ r \notin timers /\ At(functors, "send", r) = {} /\ At(functors, "add", r) = {},
         S # {} /\ f = "final" => (r \in timers \/ At(functors, "add", r) # {} => C # {})
  PROVE  TimerInv(r)' /\ QueueInv(r)' /\ WireInv(r)' /\ (HeaderSent(r) => HeaderSent(r)')
<1>1. (Up(r)' <=> Up(r)) /\ (Lost(r)' <=> Lost(r))
  BY DEF Up, Lost
<1>2. HeaderSent(r) => HeaderSent(r)'
  BY <1>1 DEF HeaderSent, Grows
<1>3. TimerInv(r)'
  BY DEF TimerInv, Grows
<1>4. WireInv(r)'
  BY <1>2 DEF WireInv, Grows
<1>5. \A i, j \in At(functors', "send", r) :
        i < j => functors'[i][3] \notin Answers /\ functors'[j][3] \in {"data", "final"}
  <2> SUFFICES ASSUME NEW i \in At(functors', "send", r), NEW j \in At(functors', "send", r), i < j
               PROVE  functors'[i][3] \notin Answers /\ functors'[j][3] \in {"data", "final"}
    OBVIOUS
  <2>1. i \in At(functors, "send", r)
    BY DEF Grows
  <2>2. CASE j \in At(functors, "send", r)
    BY <2>1, <2>2 DEF Grows, QueueInv
  <2>3. CASE j \in S
    <3>1. functors'[i] = functors[i] /\ functors[i][3] \notin Answers
      BY <2>1, <2>3 DEF Grows
    <3>2. functors'[j][3] = f /\ f \in {"data", "final"}
      BY <2>1, <2>3 DEF Grows
    <3> QED BY <3>1, <3>2
  <2> QED BY <2>2, <2>3 DEF Grows
<1>6. ASSUME NEW i \in At(functors', "send", r)
      PROVE  /\ ~Over(wire'[r])
             /\ functors'[i][3] \in {"header", "json", "accepted"} => wire'[r] = <<>> /\ r \notin timers'
             /\ functors'[i][3] \in {"json", "accepted"} => At(functors', "add", r) = {}
             /\ functors'[i][3] = "header" => \A k \in At(functors', "add", r) : i < k
             /\ functors'[i][3] \in {"data", "final"} =>
                  wire'[r] # <<>> \/ Lost(r)'
                    \/ \E j \in At(functors', "send", r) : j < i /\ functors'[j][3] = "header"
             /\ functors'[i][3] = "final" =>
                  /\ r \in timers' => \E j \in At(functors', "cancel", r) : j < i
                  /\ \A k \in At(functors', "add", r) : \E j \in At(functors', "cancel", r) : k < j /\ j < i
  <2>1. CASE i \in At(functors, "send", r)
    <3>1. functors'[i] = functors[i]
      BY <2>1 DEF Grows
    <3>2. \A k \in {"send", "cancel"} : \A j \in At(functors, k, r) : j \in At(functors', k, r) /\ functors'[j] = functors[j]
      BY DEF Grows
    <3>3. At(functors', "add", r) = At(functors, "add", r)
      BY DEF Grows
    <3> QED BY <1>1, <2>1, <3>1, <3>2, <3>3 DEF QueueInv
  <2>2. CASE i \in S
    <3>1. functors'[i][3] = f /\ f \in {"data", "final", "json", "accepted"} /\ ~Over(wire[r])
      BY <2>2 DEF Grows
    <3>2. At(functors', "add", r) = At(functors, "add", r)
      BY DEF Grows
    <3>3. ASSUME f \in {"data", "final"}
          PROVE  wire'[r] # <<>> \/ \E j \in At(functors', "send", r) : j < i /\ functors'[j][3] = "header"
      <4>1. wire[r] # <<>> \/ \E j \in At(functors, "send", r) : functors[j][3] = "header"
        BY <2>2, <3>3 DEF HeaderSent
      <4> QED BY <2>2, <4>1 DEF Grows
    <3>4. ASSUME f = "final"
          PROVE  /\ r \in timers' => \E j \in At(functors', "cancel", r) : j < i
                 /\ \A k \in At(functors', "add", r) : \E j \in At(functors', "cancel", r) : k < j /\ j < i
      BY <2>2, <3>2, <3>4 DEF Grows
    <3> QED BY <2>2, <3>1, <3>2, <3>3, <3>4
  <2> QED BY <2>1, <2>2 DEF Grows
<1> QED BY <1>2, <1>3, <1>4, <1>5, <1>6 DEF QueueInv

(* How the queue grows by what a worker queues.                                *)
LEMMA GrowsBy ==
  ASSUME NEW r \in Req, NEW f, functors \in Seq(Functor)
  PROVE  /\ functors' = functors => Grows(r, {}, {}, f)
         /\ Longer(functors', functors, <<"cancel", r>>) => Grows(r, {Len(functors) + 1}, {}, f)
         /\ <<"send", r, f>> \in Functor /\ Longer(functors', functors, <<"send", r, f>>)
              => Grows(r, {}, {Len(functors) + 1}, f)
         /\ \A q \in Seq(Functor) :
              <<"send", r, f>> \in Functor /\ Longer(q, functors, <<"cancel", r>>) /\ Longer(functors', q, <<"send", r, f>>)
                => Grows(r, {Len(functors) + 1}, {Len(functors) + 2}, f)
<1> DEFINE n == Len(functors) + 1
           c == <<"cancel", r>>
           s == <<"send", r, f>>
<1>1. /\ n \in Nat /\ n < n + 1 /\ n + 1 \in Nat /\ n + 1 = Len(functors) + 2
      /\ \A k, i : i \in At(functors, k, r) => i \in Nat /\ i < n /\ i < n + 1
  BY DEF At
<1>2. c \in Functor /\ c[1] = "cancel" /\ c[2] = r /\ s[1] = "send" /\ s[2] = r /\ s[3] = f
  BY DEF Functor
<1> HIDE DEF n, c, s
<1>3. functors' = functors => Grows(r, {}, {}, f)
  BY <1>1 DEF Grows
<1>4. ASSUME NEW q, Longer(q, functors, c)
      PROVE  /\ Len(q) + 1 = n + 1 /\ q[n] = c
             /\ \A k, i : i \in At(q, k, r) <=> i \in At(functors, k, r) \/ (i = n /\ k = "cancel")
             /\ \A k, i : i \in At(functors, k, r) => q[i] = functors[i]
  <2>1. /\ Len(functors) \in Nat /\ Len(q) = Len(functors) + 1 /\ q[Len(functors) + 1] = c
        /\ \A k, i : i \in At(functors, k, r) => q[i] = functors[i]
        /\ \A k, i : i \in At(q, k, r) <=> i \in At(functors, k, r) \/ (i = Len(functors) + 1 /\ c[1] = k /\ c[2] = r)
    BY <1>2, <1>4, AppendFacts
  <2> QED BY <1>2, <2>1 DEF n
<1>5. ASSUME NEW q \in Seq(Functor), s \in Functor, Longer(functors', q, s)
      PROVE  /\ functors'[Len(q) + 1] = s
             /\ \A k, i : i \in At(functors', k, r) <=> i \in At(q, k, r) \/ (i = Len(q) + 1 /\ k = "send")
             /\ \A k, i : i \in At(q, k, r) => functors'[i] = q[i]
  <2>1. /\ functors'[Len(q) + 1] = s
        /\ \A k, i : i \in At(q, k, r) => functors'[i] = q[i]
        /\ \A k, i : i \in At(functors', k, r) <=> i \in At(q, k, r) \/ (i = Len(q) + 1 /\ s[1] = k /\ s[2] = r)
    BY <1>5, AppendFacts
  <2> QED BY <1>2, <2>1
<1>6. Longer(functors', functors, c) => Grows(r, {n}, {}, f)
  BY <1>1, <1>4 DEF Grows
<1>7. s \in Functor /\ Longer(functors', functors, s) => Grows(r, {}, {n}, f)
  <2> SUFFICES ASSUME s \in Functor, Longer(functors', functors, s) PROVE Grows(r, {}, {n}, f)
    OBVIOUS
  <2>1. /\ functors'[n][3] = f
        /\ \A k, i : i \in At(functors', k, r) <=> i \in At(functors, k, r) \/ (i = n /\ k = "send")
        /\ \A k, i : i \in At(functors, k, r) => functors'[i] = functors[i]
    BY <1>2, <1>5 DEF n
  <2> QED BY <1>1, <2>1 DEF Grows
<1>8. ASSUME NEW q \in Seq(Functor), s \in Functor, Longer(q, functors, c), Longer(functors', q, s)
      PROVE  Grows(r, {n}, {n + 1}, f)
  <2>1. /\ Len(q) + 1 = n + 1
        /\ \A k, i : i \in At(q, k, r) <=> i \in At(functors, k, r) \/ (i = n /\ k = "cancel")
        /\ \A k, i : i \in At(functors, k, r) => q[i] = functors[i]
    BY <1>4, <1>8
  <2>2. /\ functors'[n + 1][3] = f
        /\ \A k, i : i \in At(functors', k, r) <=> i \in At(q, k, r) \/ (i = n + 1 /\ k = "send")
        /\ \A k, i : i \in At(q, k, r) => functors'[i] = q[i]
    BY <1>2, <1>5, <1>8, <2>1
  <2>3. \A k, i : i \in At(functors, k, r) => i \in At(q, k, r) /\ functors'[i] = functors[i]
    BY <2>1, <2>2
  <2> QED BY <1>1, <2>1, <2>2, <2>3 DEF Grows
<1> QED BY <1>1, <1>3, <1>6, <1>7, <1>8 DEF n, c, s

(* write_notification queues data behind the header.                         *)
LEMMA NotificationKeeps ==
  ASSUME TypeOK, \A x \in Req : RequestInv(x), Next, NEW r \in Req, write_notification(r)
  PROVE  \A x \in Req : RequestInv(x)'
<1>1. /\ UNCHANGED <<m_state, ended, wire, loop, timers, conn, msg, tasks, state_, timerId, cleanup, gone>>
      /\ \A x \in Req \ {r} : at'[x] = at[x]
      /\ at[r] = "notify" /\ state_[r] = "Streaming" /\ at'[r] \in {"execute", "add"}
  BY DEF write_notification, AfterNotification, Goto, connVars, loopVars, writers, TypeOK
<1>2. Begun(r) /\ Begun(r)' /\ RequestInv(r)
  BY <1>1, RunningIsBegun DEF Begun, Queued
<1>3. <<"send", r, "data">> \in Functor /\ functors \in Seq(Functor)
  BY DEF Functor, TypeOK
<1>4. functors' = functors \/ (Up(r) /\ Longer(functors', functors, <<"send", r, "data">>))
  BY <1>3, AppendIsLonger DEF write_notification, Sent, Up
<1>5. PICK S : Grows(r, {}, S, "data") /\ (S # {} => Up(r))
  BY <1>3, <1>4, GrowsBy
<1>6. \A x \in Req \ {r} : Same(x) /\ Shifted(x, 0)
  <2>1. \A x \in Req \ {r} : NotAbout(<<"send", r, "data">>, x)
    BY DEF NotAbout
  <2>2. \A x \in Req \ {r} : Shifted(x, 0)
    BY <1>3, <1>4, <2>1, NotAboutKeeps
  <2> QED BY <1>1, <2>2 DEF Same, Queued
<1>7. Answering(r) /\ HeaderSent(r) /\ ~Over(wire[r]) /\ \A i \in At(functors, "send", r) : functors[i][3] \notin Answers
  BY <1>1, <1>2 DEF RequestInv, AnswerInv, Answering
<1>8. TimerInv(r)' /\ QueueInv(r)' /\ WireInv(r)' /\ (HeaderSent(r) => HeaderSent(r)')
  <2>1. r \in timers \/ At(functors, "add", r) # {} =>
          At(functors, "cancel", r) # {} \/ (r \in timerId' /\ (r \notin gone' \/ loop' = <<"destroy", r>>))
    BY <1>1, <1>2 DEF RequestInv, TimerInv
  <2> QED BY <1>1, <1>2, <1>5, <1>7, <2>1, GrowthKeeps DEF RequestInv
<1>9. AnswerInv(r)'
  <2>1. \A i \in At(functors', "send", r) : functors'[i][3] \notin Answers
    BY <1>5, <1>7 DEF Grows, Answers
  <2>2. At(functors', "cancel", r) = {} /\ r \notin gone'
    BY <1>1, <1>2, <1>5, <1>7 DEF Grows, RequestInv, AnswerInv
  <2> QED BY <1>1, <1>7, <1>8, <2>1, <2>2 DEF AnswerInv
<1>10. RequestInv(r)'
  BY <1>1, <1>2, <1>8, <1>9 DEF RequestInv, PlaceInv, WriterInv, Begun
<1> QED BY <1>6, <1>10, AboutOne, StepGoesDown

(* write_response queues the last frame behind the end of the keepalive.     *)
LEMMA ResponseKeeps ==
  ASSUME TypeOK, \A x \in Req : RequestInv(x), Next, NEW r \in Req, write_response(r)
  PROVE  \A x \in Req : RequestInv(x)'
<1>1. /\ UNCHANGED <<m_state, ended, wire, loop, timers, conn, msg, tasks, state_, cleanup, gone>>
      /\ timerId' = timerId \ {r}
      /\ \A x \in Req \ {r} : at'[x] = at[x]
      /\ at[r] \in {"response", "accepted"} /\ at'[r] = "close"
  BY DEF write_response, Goto, connVars, loopVars, writers, TypeOK
<1>2. Begun(r) /\ Begun(r)' /\ RequestInv(r) /\ Answering(r) /\ ~Answering(r)'
  BY <1>1, RunningIsBegun DEF Begun, Queued, Answering
<1>3. /\ ~Over(wire[r]) /\ At(functors, "cancel", r) = {} /\ r \notin gone
      /\ \A i \in At(functors, "send", r) : functors[i][3] \notin Answers
      /\ state_[r] = "Direct" => wire[r] = <<>> /\ Untouched(r)
      /\ state_[r] = "Streaming" => HeaderSent(r)
      /\ state_[r] \in {"Direct", "Streaming"}
      /\ at[r] = "accepted" => state_[r] = "Direct"
  BY <1>2 DEF RequestInv, AnswerInv, TypeOK
<1> DEFINE f == IF at[r] = "accepted" THEN "accepted" ELSE IF state_[r] = "Direct" THEN "json" ELSE "final"
           c == <<"cancel", r>>
           s == <<"send", r, f>>
<1>4. /\ f \in {"accepted", "json", "final"} /\ (f = "final" => state_[r] = "Streaming")
      /\ f \in {"json", "accepted"} => state_[r] = "Direct"
  BY <1>3
<1>5. c \in Functor /\ s \in Functor /\ functors \in Seq(Functor)
  BY <1>4 DEF Functor, TypeOK
<1>6. r \in timerId => state_[r] = "Streaming" /\ at[r] = "response"
  BY <1>1, <1>3 DEF Untouched
<1>7. \/ r \in timerId /\ ~Up(r) /\ Longer(functors', functors, c)
      \/ r \in timerId /\ Up(r) /\ \E q \in Seq(Functor) : Longer(q, functors, c) /\ Longer(functors', q, s)
      \/ r \notin timerId /\ ~Up(r) /\ functors' = functors
      \/ r \notin timerId /\ Up(r) /\ Longer(functors', functors, s)
  <2>1. functors' = Sent(IF r \in timerId THEN Append(functors, c) ELSE functors, r, f)
    BY <1>1, <1>6 DEF write_response, Cancelled
  <2>2. CASE r \in timerId
    <3>1. PICK q : q = Append(functors, c)
      OBVIOUS
    <3>2. q \in Seq(Functor) /\ Longer(q, functors, c)
      BY <1>5, <3>1, AppendIsLonger, AppendFacts
    <3>3. functors' = Sent(q, r, f)
      BY <2>1, <2>2, <3>1
    <3>4. Longer(Append(q, s), q, s)
      BY <1>5, <3>2, AppendIsLonger
    <3> QED BY <2>2, <3>2, <3>3, <3>4 DEF Sent, Up
  <2>3. CASE r \notin timerId
    <3>1. functors' = Sent(functors, r, f)
      BY <2>1, <2>3
    <3>2. Longer(Append(functors, s), functors, s)
      BY <1>5, AppendIsLonger
    <3> QED BY <2>3, <3>1, <3>2 DEF Sent, Up
  <2> QED BY <2>2, <2>3
<1> HIDE DEF f
<1>8. PICK C, S : Grows(r, C, S, f) /\ (S # {} => Up(r)) /\ (r \in timerId => C # {})
  <2>1. /\ functors' = functors => Grows(r, {}, {}, f)
        /\ Longer(functors', functors, c) => Grows(r, {Len(functors) + 1}, {}, f)
        /\ Longer(functors', functors, s) => Grows(r, {}, {Len(functors) + 1}, f)
        /\ \A q \in Seq(Functor) : Longer(q, functors, c) /\ Longer(functors', q, s)
             => Grows(r, {Len(functors) + 1}, {Len(functors) + 2}, f)
    BY <1>5, GrowsBy
  <2> HIDE DEF c, s
  <2> QED BY <1>7, <2>1
<1>9. \A x \in Req \ {r} : Same(x) /\ Shifted(x, 0)
  <2>1. \A x \in Req \ {r} : NotAbout(c, x) /\ NotAbout(s, x)
    BY DEF NotAbout
  <2> HIDE DEF c, s
  <2>2. \A x \in Req \ {r} : Shifted(x, 0)
    BY <1>5, <1>7, <2>1, NotAboutKeeps
  <2> QED BY <1>1, <2>2 DEF Same, Queued
<1>10. TimerInv(r)' /\ QueueInv(r)' /\ WireInv(r)'
  <2>1. r \in timers \/ At(functors, "add", r) # {} => C # {}
    BY <1>2, <1>3, <1>8 DEF RequestInv, TimerInv
  <2>2. /\ f \in {"data", "final"} => HeaderSent(r)
        /\ f \in {"json", "accepted"} =>
             wire[r] = <<>> /\ r \notin timers /\ At(functors, "send", r) = {} /\ At(functors, "add", r) = {}
    BY <1>3, <1>4 DEF Untouched
  <2> QED BY <1>1, <1>2, <1>3, <1>4, <1>8, <2>1, <2>2, GrowthKeeps DEF RequestInv
<1>11. RequestInv(r)'
  BY <1>1, <1>2, <1>10 DEF RequestInv, PlaceInv, WriterInv, AnswerInv, Begun
<1> QED BY <1>9, <1>11, AboutOne, StepGoesDown

(* The end of the connection after a response (shutdown).                    *)
LEMMA ShutdownKeeps ==
  ASSUME TypeOK, \A x \in Req : RequestInv(x), Next, NEW r \in Req, shutdown(r)
  PROVE  \A x \in Req : RequestInv(x)'
<1>1. /\ UNCHANGED <<wire, loop, timers, conn, msg, tasks, timerId, cleanup, gone>>
      /\ \A x \in Req \ {r} : at'[x] = at[x] /\ state_'[x] = state_[x]
      /\ at[r] = "close" /\ at'[r] = "done"
  BY DEF shutdown, Goto, loopVars, TypeOK
<1>2. Begun(r) /\ Begun(r)' /\ RequestInv(r) /\ AnswerInv(r)'
  BY <1>1, RunningIsBegun DEF Begun, Queued, Answering, AnswerInv
<1>3. functors \in Seq(Functor) /\ conn[r] \in Conn /\ <<"shutdown", conn[r]>> \in Functor
  <2>1. functors \in Seq(Functor) /\ conn[r] \in Conn
    BY <1>2 DEF TypeOK, Begun
  <2> QED BY <2>1 DEF Functor
<1>4. functors' = functors \/ Longer(functors', functors, <<"shutdown", conn[r]>>)
  BY <1>3, AppendIsLonger DEF shutdown, Shutdown
<1>5. \A x \in Req : Shifted(x, 0)
  <2>1. \A x \in Req : NotAbout(<<"shutdown", conn[r]>>, x)
    BY DEF NotAbout
  <2> QED BY <1>3, <1>4, <2>1, NotAboutKeeps
<1>6. \A x \in Req \ {r} : Same(x)
  BY <1>1 DEF Same, Queued
<1>7. r \notin gone /\ loop # <<"destroy", r>>
  BY <1>1, <1>2 DEF RequestInv, WriterInv
<1>8. Down(r)
  BY <1>1, DownKeeps, StepGoesDown
<1>9. RequestInv(r)'
  BY <1>1, <1>2, <1>5, <1>7, <1>8, MoveKeeps
<1> QED BY <1>5, <1>6, <1>9, AboutOne, StepGoesDown

(* The worker gives up its task and maybe the writer (Release).              *)
LEMMA ReleaseKeeps ==
  ASSUME TypeOK, \A x \in Req : RequestInv(x), Next, NEW r \in Req, Release(r)
  PROVE  \A x \in Req : RequestInv(x)'
<1>1. /\ UNCHANGED <<m_state, ended, wire, loop, timers, conn, msg, tasks, state_, timerId, cleanup>>
      /\ \A x \in Req \ {r} : at'[x] = at[x] /\ (x \in gone' <=> x \in gone)
      /\ at[r] = "done" /\ at'[r] \in {"none", "remove"}
  BY DEF Release, Goto, connVars, loopVars, TypeOK
<1>2. Begun(r) /\ Begun(r)' /\ RequestInv(r) /\ AnswerInv(r)'
  BY <1>1, RunningIsBegun DEF Begun, Queued, Answering, AnswerInv
<1>3. r \notin gone /\ loop # <<"destroy", r>>
  BY <1>1, <1>2 DEF RequestInv, WriterInv
<1>4. functors \in Seq(Functor) /\ <<"cancel", r>> \in Functor
  BY DEF TypeOK, Functor
<1>5. functors' = functors \/ Longer(functors', functors, <<"cancel", r>>)
  BY <1>4, AppendIsLonger DEF Release, Cancelled
<1>6. \A x \in Req \ {r} : Same(x) /\ Shifted(x, 0)
  <2>1. \A x \in Req \ {r} : NotAbout(<<"cancel", r>>, x)
    BY DEF NotAbout
  <2>2. \A x \in Req \ {r} : Shifted(x, 0)
    BY <1>4, <1>5, <2>1, NotAboutKeeps
  <2> QED BY <1>1, <2>2 DEF Same, Queued
<1>7. CASE loop = <<"keepalive", r>>
  <2>1. gone' = gone /\ functors' = functors
    BY <1>7 DEF Release
  <2>2. Shifted(r, 0) /\ Down(r)
    BY <1>1, <1>4, <2>1, NotAboutKeeps, DownKeeps, StepGoesDown
  <2>3. RequestInv(r)'
    BY <1>1, <1>2, <1>3, <2>1, <2>2, MoveKeeps
  <2> QED BY <1>6, <2>3, AboutOne, StepGoesDown
<1>8. CASE loop # <<"keepalive", r>>
  <2>1. at'[r] = "remove" /\ (r \in timerId => Longer(functors', functors, <<"cancel", r>>)) /\ (r \notin timerId => functors' = functors)
    <3>1. at' = [at EXCEPT ![r] = "remove"] /\ functors' = Cancelled(functors, r)
      BY <1>8 DEF Release, Goto
    <3>2. at'[r] = "remove"
      BY <3>1 DEF TypeOK
    <3>3. Longer(Append(functors, <<"cancel", r>>), functors, <<"cancel", r>>)
      BY <1>4, AppendIsLonger
    <3> QED BY <3>1, <3>2, <3>3 DEF Cancelled
  <2>2. PICK C : Grows(r, C, {}, "final") /\ (r \in timerId => C # {})
    BY <1>4, <2>1, GrowsBy
  <2>3. TimerInv(r)' /\ QueueInv(r)' /\ WireInv(r)'
    <3>1. r \in timers \/ At(functors, "add", r) # {} => C # {} \/ At(functors, "cancel", r) # {}
      BY <1>2, <2>2 DEF RequestInv, TimerInv
    <3> QED BY <1>1, <1>2, <2>2, <3>1, GrowthKeeps DEF RequestInv
  <2>4. PlaceInv(r)' /\ WriterInv(r)'
    BY <1>1, <1>2, <1>3, <1>8, <2>1 DEF PlaceInv, WriterInv, Begun
  <2>5. RequestInv(r)'
    BY <1>2, <2>3, <2>4 DEF RequestInv
  <2> QED BY <1>6, <2>5, AboutOne, StepGoesDown
<1> QED BY <1>7, <1>8

(* upgrade_to_sse queues the header, then the start of the keepalive.        *)
LEMMA UpgradeKeeps ==
  ASSUME TypeOK, \A x \in Req : RequestInv(x), Next, NEW r \in Req, upgrade_to_sse(r)
  PROVE  \A x \in Req : RequestInv(x)'
<1>1. /\ UNCHANGED <<m_state, ended, wire, loop, timers, conn, msg, tasks, at, cleanup, gone>>
      /\ \A x \in Req \ {r} : state_'[x] = state_[x]
      /\ timerId' = timerId \union {r} /\ at[r] = "notify" /\ state_[r] = "Direct" /\ state_'[r] = "Streaming"
  BY DEF upgrade_to_sse, connVars, loopVars, TypeOK
<1>2. Begun(r) /\ Begun(r)' /\ RequestInv(r) /\ Answering(r)
  BY <1>1, RunningIsBegun DEF Begun, Queued, Answering
<1>3. Untouched(r) /\ wire[r] = <<>> /\ ~Over(wire[r])
  BY <1>1, <1>2 DEF RequestInv, AnswerInv
<1> DEFINE h == <<"send", r, "header">>
           a == <<"add", r>>
<1>4. h \in Functor /\ a \in Functor /\ functors \in Seq(Functor)
  BY DEF Functor, TypeOK
<1>5. \/ ~Up(r) /\ Longer(functors', functors, a)
      \/ Up(r) /\ \E q \in Seq(Functor) : Longer(q, functors, h) /\ Longer(functors', q, a)
  <2>1. functors' = Append(IF Up(r) THEN Append(functors, h) ELSE functors, a)
    BY DEF upgrade_to_sse, Sent, Up
  <2>2. PICK q : q = IF Up(r) THEN Append(functors, h) ELSE functors
    OBVIOUS
  <2>3. q \in Seq(Functor) /\ (Up(r) => Longer(q, functors, h))
    BY <1>4, <2>2, AppendIsLonger, AppendFacts
  <2>4. functors' = Append(q, a)
    BY <2>1, <2>2
  <2>5. Longer(functors', q, a)
    BY <1>4, <2>3, <2>4, AppendIsLonger
  <2> QED BY <2>2, <2>3, <2>5
<1>6. h[1] = "send" /\ h[2] = r /\ h[3] = "header" /\ a[1] = "add" /\ a[2] = r
  OBVIOUS
<1> HIDE DEF h, a
<1>7. \A x \in Req \ {r} : Same(x) /\ Shifted(x, 0)
  <2>1. \A x \in Req \ {r} : NotAbout(h, x) /\ NotAbout(a, x)
    BY <1>6 DEF NotAbout
  <2>2. \A x \in Req \ {r} : Shifted(x, 0)
    BY <1>4, <1>5, <2>1, NotAboutKeeps
  <2> QED BY <1>1, <2>2 DEF Same, Queued
<1>8. PICK m \in Nat :
        /\ \A i : i \in At(functors', "add", r) <=> i = m
        /\ \A i : i \notin At(functors', "cancel", r)
        /\ \/ ~Up(r) /\ \A i : i \notin At(functors', "send", r)
           \/ \E n \in Nat : /\ n < m /\ functors'[n][3] = "header"
                             /\ \A i : i \in At(functors', "send", r) <=> i = n
  <2>1. \A k \in {"send", "add", "cancel"} : \A i : i \notin At(functors, k, r)
    BY <1>3 DEF Untouched
  <2>2. CASE ~Up(r) /\ Longer(functors', functors, a)
    <3>1. /\ Len(functors) + 1 \in Nat
          /\ \A k, i : i \in At(functors', k, r) <=> i \in At(functors, k, r) \/ (i = Len(functors) + 1 /\ a[1] = k /\ a[2] = r)
      BY <1>4, <2>2, AppendFacts
    <3>2. /\ \A i : i \in At(functors', "add", r) <=> i = Len(functors) + 1
          /\ \A i : i \notin At(functors', "cancel", r)
          /\ \A i : i \notin At(functors', "send", r)
      BY <1>6, <2>1, <3>1
    <3> QED BY <2>2, <3>1, <3>2
  <2>3. ASSUME NEW q \in Seq(Functor), Longer(q, functors, h), Longer(functors', q, a)
        PROVE  \E l \in Nat :
                 /\ \A i : i \in At(functors', "add", r) <=> i = l
                 /\ \A i : i \notin At(functors', "cancel", r)
                 /\ \E n \in Nat : /\ n < l /\ functors'[n][3] = "header"
                                   /\ \A i : i \in At(functors', "send", r) <=> i = n
    <3>1. PICK n \in Nat : n = Len(functors) + 1
      BY <1>4, AppendFacts, <2>3
    <3>2. /\ Len(q) = n /\ q[n] = h
          /\ \A k, i : i \in At(q, k, r) <=> i \in At(functors, k, r) \/ (i = n /\ h[1] = k /\ h[2] = r)
      BY <1>4, <2>3, <3>1, AppendFacts
    <3>3. /\ \A k, i : i \in At(functors', k, r) <=> i \in At(q, k, r) \/ (i = n + 1 /\ a[1] = k /\ a[2] = r)
          /\ \A k, i : i \in At(q, k, r) => functors'[i] = q[i]
      BY <1>4, <2>3, <3>2, AppendFacts
    <3>4. /\ \A i : i \in At(q, "send", r) <=> i = n
          /\ \A i : i \notin At(q, "add", r) /\ i \notin At(q, "cancel", r)
      BY <1>6, <2>1, <3>2
    <3>5. /\ \A i : i \in At(functors', "add", r) <=> i = n + 1
          /\ \A i : i \notin At(functors', "cancel", r)
          /\ \A i : i \in At(functors', "send", r) <=> i = n
      BY <1>6, <3>3, <3>4
    <3>6. functors'[n][3] = "header" /\ n < n + 1 /\ n + 1 \in Nat
      BY <1>6, <3>2, <3>3, <3>4
    <3> QED BY <3>5, <3>6
  <2> QED BY <1>5, <2>2, <2>3
<1>9. TimerInv(r)'
  BY <1>1, <1>3, <1>8 DEF TimerInv, Untouched
<1>10. QueueInv(r)'
  <2>1. \A i \in At(functors', "send", r) : functors'[i][3] = "header" /\ i < m /\ \A j \in At(functors', "send", r) : ~(i < j)
    BY <1>8
  <2> QED BY <1>1, <1>3, <1>8, <2>1 DEF QueueInv, Untouched
<1>11. HeaderSent(r)'
  BY <1>1, <1>8 DEF HeaderSent, Up
<1>12. AnswerInv(r)'
  <2>1. \A i \in At(functors', "send", r) : functors'[i][3] \notin Answers
    BY <1>8 DEF Answers
  <2>2. At(functors', "cancel", r) = {}
    BY <1>8
  <2> QED BY <1>1, <1>3, <1>11, <2>1, <2>2 DEF AnswerInv, Untouched
<1>13. WireInv(r)'
  BY <1>1, <1>2, <1>3, <1>11 DEF RequestInv, WireInv
<1>14. PlaceInv(r)' /\ WriterInv(r)'
  BY <1>1, <1>2, <1>3 DEF PlaceInv, WriterInv, Untouched, Begun
<1>15. RequestInv(r)'
  BY <1>9, <1>10, <1>12, <1>13, <1>14 DEF RequestInv
<1> QED BY <1>7, <1>15, AboutOne, StepGoesDown

(* The timer fires and takes the writer (Keepalive).                         *)
LEMMA KeepaliveKeeps ==
  ASSUME TypeOK, \A x \in Req : RequestInv(x), Next, NEW r \in Req, Keepalive(r)
  PROVE  \A x \in Req : RequestInv(x)'
<1>1. /\ UNCHANGED <<m_state, ended, wire, functors, timers, conn, msg, tasks, at, state_, timerId, cleanup, gone>>
      /\ loop = <<"free">> /\ loop' = <<"keepalive", r>> /\ r \in timers /\ r \notin gone
  BY DEF Keepalive, connVars, writers
<1>2. RequestInv(r) /\ Begun(r)
  BY <1>1 DEF RequestInv, PlaceInv, Untouched
<1>3. Begun(r)'
  BY <1>1, <1>2 DEF Begun, Queued
<1>4. \A x \in Req \ {r} : Same(x) /\ Shifted(x, 0)
  BY <1>1, NotAboutKeeps DEF Same, Queued, TypeOK
<1>5. (HeaderSent(r)' <=> HeaderSent(r)) /\ (Lost(r)' <=> Lost(r))
  BY <1>1 DEF HeaderSent, Up, Lost
<1>6. PlaceInv(r)' /\ WriterInv(r)' /\ WireInv(r)'
  BY <1>1, <1>2, <1>3, <1>5 DEF RequestInv, PlaceInv, WriterInv, WireInv, Begun
<1>7. TimerInv(r)' /\ QueueInv(r)'
  BY <1>1, <1>2, <1>5 DEF RequestInv, TimerInv, QueueInv
<1>8. AnswerInv(r)'
  BY <1>1, <1>2, <1>5 DEF RequestInv, AnswerInv, Answering, Untouched
<1> QED BY <1>4, <1>6, <1>7, <1>8, AboutOne, StepGoesDown DEF RequestInv

(* The callback sends or cancels, and gives the writer up (KeepaliveSend).   *)
LEMMA KeepaliveSendKeeps ==
  ASSUME TypeOK, \A x \in Req : RequestInv(x), Next, NEW r \in Req, KeepaliveSend(r)
  PROVE  \A x \in Req : RequestInv(x)'
<1>1. /\ UNCHANGED <<m_state, ended, functors, conn, msg, tasks, at, state_, cleanup>>
      /\ loop = <<"keepalive", r>>
      /\ \A x \in Req \ {r} : /\ wire'[x] = wire[x] /\ (x \in timers' <=> x \in timers)
                              /\ (x \in timerId' <=> x \in timerId) /\ (x \in gone' <=> x \in gone)
      /\ \/ state_[r] = "Streaming" /\ Up(r) /\ timers' = timers /\ timerId' = timerId
              /\ (wire'[r] = wire[r] \/ wire'[r] = Append(wire[r], "keepalive"))
         \/ wire' = wire /\ timerId' = timerId \ {r} /\ (r \in timerId => r \notin timers') /\ (r \notin timerId => timers' = timers)
  BY DEF KeepaliveSend, Out, Up, TypeOK
<1>2. \/ at[r] # "none" /\ loop' = <<"free">> /\ gone' = gone
      \/ at[r] = "none" /\ loop' = <<"destroy", r>> /\ gone' = gone \union {r}
  BY DEF KeepaliveSend, Running
<1>3. RequestInv(r) /\ Begun(r) /\ r \in timers /\ r \notin gone
  BY <1>1 DEF RequestInv, PlaceInv, Untouched, WriterInv
<1>4. Begun(r)'
  BY <1>1, <1>2, <1>3 DEF Begun, Queued
<1>5. \A x \in Req \ {r} : Same(x) /\ Shifted(x, 0)
  BY <1>1, <1>2, NotAboutKeeps DEF Same, Queued, TypeOK
<1>6. /\ At(functors, "add", r) = {} /\ ~Over(wire[r]) /\ HeaderSent(r)
      /\ \A i \in At(functors, "send", r) : functors[i][3] \notin {"header", "json", "accepted"}
  BY <1>3 DEF RequestInv, TimerInv, WireInv, QueueInv
<1>7. (Lost(r)' <=> Lost(r)) /\ (Up(r)' <=> Up(r))
  BY <1>1 DEF Up, Lost
<1>8. wire[r] # <<>> \/ ~Up(r)
  BY <1>6 DEF HeaderSent
<1>9. ~Over(wire'[r]) /\ Formed(wire'[r]) /\ (wire[r] # <<>> => wire'[r] # <<>>)
  <2>1. wire[r] \in Seq(Frames) /\ "keepalive" \in Frames
    BY DEF TypeOK, Frames
  <2>2. Formed(wire[r])
    BY <1>3 DEF RequestInv, WireInv
  <2>3. ASSUME NEW a, a = Append(wire[r], "keepalive"), wire[r] # <<>>
        PROVE  Formed(a) /\ a # <<>> /\ ~Over(a)
    <3>1. "keepalive" \notin FinalFrames
      BY DEF FinalFrames
    <3> QED BY <1>6, <2>1, <2>2, <2>3, <3>1, FrameFacts
  <2> QED BY <1>1, <1>6, <1>8, <2>2, <2>3
<1>10. HeaderSent(r)'
  BY <1>7, <1>8, <1>9 DEF HeaderSent
<1>11. PlaceInv(r)' /\ WriterInv(r)' /\ WireInv(r)'
  <2>1. PlaceInv(r)'
    BY <1>4 DEF PlaceInv, Begun
  <2>2. WriterInv(r)'
    BY <1>1, <1>2, <1>3, <1>6 DEF RequestInv, WriterInv
  <2>3. WireInv(r)'
    BY <1>9, <1>10 DEF WireInv
  <2> QED BY <2>1, <2>2, <2>3
<1>12. TimerInv(r)'
  BY <1>1, <1>2, <1>3, <1>6 DEF RequestInv, TimerInv
<1>13. QueueInv(r)'
  <2>1. r \in timers' => r \in timers
    BY <1>3
  <2> QED BY <1>1, <1>3, <1>6, <1>7, <1>9, <2>1 DEF RequestInv, QueueInv
<1>14. AnswerInv(r)'
  <2>1. Answering(r) => state_[r] = "Streaming"
    BY <1>3 DEF RequestInv, AnswerInv, Untouched, TypeOK
  <2>2. Answering(r) => gone' = gone
    BY <1>2 DEF Answering
  <2>3. Answering(r)' <=> Answering(r)
    BY <1>1 DEF Answering
  <2> QED BY <1>1, <1>3, <1>9, <1>10, <2>1, <2>2, <2>3 DEF RequestInv, AnswerInv
<1> QED BY <1>5, <1>11, <1>12, <1>13, <1>14, AboutOne, StepGoesDown DEF RequestInv

(* The destructor on the loop (DestructorInLoop).                            *)
LEMMA DestructorKeeps ==
  ASSUME TypeOK, \A x \in Req : RequestInv(x), Next, NEW r \in Req, DestructorInLoop(r)
  PROVE  \A x \in Req : RequestInv(x)'
<1>1. /\ UNCHANGED <<m_state, ended, wire, functors, conn, msg, tasks, at, state_, timerId, cleanup, gone>>
      /\ loop = <<"destroy", r>> /\ loop' = <<"free">>
      /\ timers' = IF r \in timerId THEN timers \ {r} ELSE timers
  BY DEF DestructorInLoop, connVars, writers
<1>2. RequestInv(r) /\ Begun(r) /\ r \in gone /\ at[r] = "none" /\ At(functors, "add", r) = {}
  BY <1>1 DEF RequestInv, PlaceInv, Untouched, WriterInv
<1>3. Begun(r)'
  BY <1>1, <1>2 DEF Begun, Queued
<1>4. \A x \in Req \ {r} : Same(x) /\ Shifted(x, 0)
  BY <1>1, NotAboutKeeps DEF Same, Queued, TypeOK
<1>5. (HeaderSent(r)' <=> HeaderSent(r)) /\ (Lost(r)' <=> Lost(r)) /\ (r \in timers' => r \in timers)
  BY <1>1 DEF HeaderSent, Up, Lost
<1>6. PlaceInv(r)' /\ WriterInv(r)' /\ WireInv(r)'
  BY <1>1, <1>2, <1>3, <1>5 DEF RequestInv, PlaceInv, WriterInv, WireInv, Begun
<1>7. TimerInv(r)' /\ QueueInv(r)'
  BY <1>1, <1>2, <1>5 DEF RequestInv, TimerInv, QueueInv
<1>8. AnswerInv(r)'
  BY <1>1, <1>2 DEF AnswerInv, Answering
<1> QED BY <1>4, <1>6, <1>7, <1>8, AboutOne, StepGoesDown DEF RequestInv

(* The loop runs its oldest functor: r's are one place nearer to the head.   *)
LEMMA FunctorKeeps ==
  ASSUME TypeOK, ShutInv, \A x \in Req : RequestInv(x), Next, RunFunctor
  PROVE  \A x \in Req : RequestInv(x)'
<1>1. /\ loop = <<"free">> /\ UNCHANGED <<m_state, loop, conn, msg, tasks, at, state_, timerId, cleanup, gone>>
      /\ functors \in Seq(Functor) /\ functors # <<>> /\ functors' = Tail(functors)
  BY DEF RunFunctor, writers, TypeOK
<1>2. Shorter(functors', functors)
  BY <1>1, TailIsShorter
<1>3. PICK f \in Functor : f = functors[1]
  BY <1>2 DEF Shorter
<1>4. /\ \A k, x : 1 \in At(functors, k, x) <=> f[1] = k /\ f[2] = x
      /\ \A k, x, i : i \in At(functors, k, x) =>
           i \in Nat \ {0} /\ (i = 1 \/ (i > 1 /\ i - 1 \in At(functors', k, x) /\ functors'[i - 1] = functors[i]))
      /\ \A k, x, i : i \in At(functors', k, x) => i \in Nat \ {0} /\ i + 1 \in At(functors, k, x) /\ functors'[i] = functors[i + 1]
  <2>1. \A k, x : 1 \in At(functors, k, x) <=> functors[1][1] = k /\ functors[1][2] = x
    BY <1>1, <1>2, TailFacts
  <2> QED BY <1>1, <1>2, <1>3, <2>1, TailFacts
<1>5. \/ /\ f[1] = "send" /\ UNCHANGED <<ended, timers>>
         /\ IF m_state[conn[f[2]]] # "kDisconnected" THEN Out(f[2], f[3]) ELSE UNCHANGED wire
      \/ f[1] = "shutdown" /\ ended' = ended \union {f[2]} /\ UNCHANGED <<wire, timers>>
      \/ f[1] = "add" /\ timers' = timers \union {f[2]} /\ UNCHANGED <<wire, ended>>
      \/ f[1] = "cancel" /\ timers' = timers \ {f[2]} /\ UNCHANGED <<wire, ended>>
  <2>1. Head(functors) = f
    BY <1>1, <1>3, TailIsShorter
  <2> QED BY <2>1 DEF RunFunctor
<1>6. /\ f[1] = "send" => f[2] \in Req /\ f[3] \in {"header", "data", "json", "accepted", "final"}
      /\ f[1] \in {"add", "cancel"} => f[2] \in Req
  BY DEF Functor
<1>7. ASSUME NEW x \in Req, NotAbout(f, x) PROVE RequestInv(x)'
  <2>1. \A k \in {"send", "add", "cancel"} : 1 \notin At(functors, k, x)
    BY <1>4, <1>7 DEF NotAbout
  <2>2. Shifted(x, 1)
    BY <1>4, <2>1 DEF Shifted
  <2>3. wire'[x] = wire[x] /\ (x \in timers' <=> x \in timers)
    BY <1>5, <1>6, <1>7 DEF NotAbout, Out, TypeOK
  <2>4. Same(x)
    BY <1>1, <2>3 DEF Same, Queued
  <2> QED BY <1>1, <2>2, <2>4, DownKeeps, StepGoesDown, OthersKeep
<1>8. SUFFICES ASSUME NEW r \in Req, f[1] # "shutdown", f[2] = r PROVE RequestInv(r)'
  BY <1>7 DEF NotAbout
<1>9. RequestInv(r) /\ Begun(r) /\ Begun(r)'
  <2>1. f[1] \in {"send", "add", "cancel"}
    BY <1>5, <1>8
  <2>2. ~Untouched(r)
    BY <1>4, <1>8, <2>1 DEF Untouched
  <2> QED BY <1>1, <2>2 DEF RequestInv, PlaceInv, Begun, Queued
<1>10. PlaceInv(r)' /\ WriterInv(r)'
  BY <1>1, <1>9 DEF RequestInv, PlaceInv, WriterInv, Begun
<1>11. (Up(r)' <=> Up(r)) /\ (Lost(r) => Lost(r)') /\ (Lost(r) => ~Up(r))
  BY <1>1, <1>5 DEF Up, Lost, ShutInv
<1>12. (Answering(r)' <=> Answering(r)) /\ (Answering(r) => state_[r] = "Streaming")
  <2>1. ~Untouched(r)
    BY <1>4, <1>5, <1>8 DEF Untouched
  <2> QED BY <1>1, <1>9, <2>1 DEF RequestInv, AnswerInv, Answering, TypeOK
<1>13. \A i, j \in At(functors', "send", r) : i < j => functors'[i][3] \notin Answers /\ functors'[j][3] \in {"data", "final"}
  <2> SUFFICES ASSUME NEW i \in At(functors', "send", r), NEW j \in At(functors', "send", r), i < j
               PROVE  functors'[i][3] \notin Answers /\ functors'[j][3] \in {"data", "final"}
    OBVIOUS
  <2>1. i + 1 \in At(functors, "send", r) /\ j + 1 \in At(functors, "send", r) /\ i + 1 < j + 1
        /\ functors'[i] = functors[i + 1] /\ functors'[j] = functors[j + 1]
    BY <1>4
  <2> QED BY <1>9, <2>1 DEF RequestInv, QueueInv
<1>14. CASE f[1] = "add"
  <2>1. 1 \in At(functors, "add", r) /\ r \in timers' /\ wire' = wire /\ ended' = ended
    BY <1>4, <1>5, <1>8, <1>14
  <2>2. r \notin timers /\ At(functors', "add", r) = {} /\ ~Over(wire[r]) /\ HeaderSent(r)
    BY <1>4, <1>9, <2>1 DEF RequestInv, TimerInv, WireInv
  <2>3. \A i \in At(functors, "send", r) : i # 1 /\ functors[i][3] \notin {"header", "json", "accepted"}
    BY <1>4, <1>9, <1>14, <2>1 DEF RequestInv, QueueInv
  <2>4. wire[r] # <<>> \/ ~Up(r)
    BY <2>2, <2>3 DEF HeaderSent
  <2>5. \A k \in {"send", "cancel"} : 1 \notin At(functors, k, r)
    BY <1>4, <1>14
  <2>6. HeaderSent(r)'
    BY <1>11, <2>1, <2>4 DEF HeaderSent
  <2>7. TimerInv(r)'
    <3>1. At(functors', "cancel", r) # {} \/ (r \in timerId /\ (r \notin gone \/ loop = <<"destroy", r>>))
      BY <1>4, <1>9, <2>1, <2>5 DEF RequestInv, TimerInv
    <3> QED BY <1>1, <2>2, <3>1 DEF TimerInv
  <2>8. QueueInv(r)'
    <3>1. ASSUME NEW i \in At(functors', "send", r)
          PROVE  /\ functors'[i][3] \notin {"header", "json", "accepted"}
                 /\ functors'[i][3] \in {"data", "final"} => wire[r] # <<>> \/ Lost(r)
                 /\ functors'[i][3] = "final" => \E j \in At(functors', "cancel", r) : j < i
      <4>1. PICK n \in At(functors, "send", r) : n = i + 1 /\ n \in Nat /\ i \in Nat /\ functors'[i] = functors[n]
        BY <1>4
      <4>2. functors[n][3] \in {"data", "final"} => wire[r] # <<>> \/ Lost(r)
        BY <1>9, <2>3 DEF RequestInv, QueueInv
      <4>3. ASSUME functors[n][3] = "final" PROVE \E j \in At(functors', "cancel", r) : j < i
        <5>1. PICK j \in At(functors, "cancel", r) : 1 < j /\ j < n
          BY <1>9, <2>1, <4>3 DEF RequestInv, QueueInv
        <5>2. j - 1 \in At(functors', "cancel", r) /\ j - 1 < i
          BY <1>4, <4>1, <5>1
        <5> QED BY <5>2
      <4> QED BY <2>3, <4>1, <4>2, <4>3
    <3> QED BY <1>11, <1>13, <2>1, <2>2, <3>1 DEF QueueInv
  <2>9. AnswerInv(r)'
    <3>1. Answering(r) => /\ At(functors', "cancel", r) = {}
                          /\ \A i \in At(functors', "send", r) : functors'[i][3] \notin Answers
      BY <1>4, <1>9 DEF RequestInv, AnswerInv
    <3> QED BY <1>1, <1>9, <1>12, <2>1, <2>2, <2>6, <3>1 DEF RequestInv, AnswerInv
  <2>10. WireInv(r)'
    BY <1>9, <2>1, <2>2, <2>6 DEF RequestInv, WireInv
  <2> QED BY <1>10, <2>7, <2>8, <2>9, <2>10 DEF RequestInv
<1>15. CASE f[1] = "cancel"
  <2>1. 1 \in At(functors, "cancel", r) /\ r \notin timers' /\ wire' = wire /\ ended' = ended
    BY <1>4, <1>5, <1>8, <1>15
  <2>2. At(functors, "add", r) = {} /\ At(functors', "add", r) = {} /\ ~Answering(r)
    BY <1>4, <1>9, <2>1 DEF RequestInv, TimerInv, AnswerInv
  <2>3. TimerInv(r)' /\ AnswerInv(r)'
    BY <1>12, <2>1, <2>2 DEF TimerInv, AnswerInv
  <2>4. WireInv(r)'
    BY <1>9, <2>1, <2>2 DEF RequestInv, WireInv
  <2>5. 1 \notin At(functors, "send", r)
    BY <1>4, <1>15
  <2>6. QueueInv(r)'
    <3>1. ASSUME NEW i \in At(functors', "send", r)
          PROVE  /\ ~Over(wire[r])
                 /\ functors'[i][3] \in {"header", "json", "accepted"} => wire[r] = <<>>
                 /\ functors'[i][3] \in {"data", "final"} =>
                      wire[r] # <<>> \/ Lost(r) \/ \E j \in At(functors', "send", r) : j < i /\ functors'[j][3] = "header"
      <4>1. PICK n \in At(functors, "send", r) : n = i + 1 /\ n \in Nat /\ i \in Nat /\ functors'[i] = functors[n]
        BY <1>4
      <4>2. \A j \in At(functors, "send", r) :
              j - 1 \in At(functors', "send", r) /\ functors'[j - 1] = functors[j] /\ (j < n => j - 1 < i)
        BY <1>4, <2>5, <4>1
      <4>3. /\ ~Over(wire[r])
            /\ functors[n][3] \in {"header", "json", "accepted"} => wire[r] = <<>>
            /\ functors[n][3] \in {"data", "final"} =>
                 wire[r] # <<>> \/ Lost(r) \/ \E j \in At(functors, "send", r) : j < n /\ functors[j][3] = "header"
        BY <1>9 DEF RequestInv, QueueInv
      <4>4. (\E j \in At(functors, "send", r) : j < n /\ functors[j][3] = "header") =>
              \E j \in At(functors', "send", r) : j < i /\ functors'[j][3] = "header"
        BY <4>2
      <4> QED BY <4>1, <4>3, <4>4
    <3> QED BY <1>11, <1>13, <2>1, <2>2, <3>1 DEF QueueInv
  <2> QED BY <1>10, <2>3, <2>4, <2>6 DEF RequestInv
<1>16. CASE f[1] = "send"
  <2> DEFINE g == f[3]
  <2>1. /\ 1 \in At(functors, "send", r) /\ functors[1][3] = g /\ g \in {"header", "data", "json", "accepted", "final"}
        /\ timers' = timers /\ ended' = ended /\ \A k \in {"add", "cancel"} : 1 \notin At(functors, k, r)
    BY <1>3, <1>4, <1>5, <1>6, <1>8, <1>16
  <2>2. (Lost(r) /\ wire'[r] = wire[r]) \/ (~Lost(r) /\ wire'[r] = Append(wire[r], g))
    BY <1>5, <1>8, <1>16 DEF Out, Lost, TypeOK
  <2> HIDE DEF g
  <2>3. /\ ~Over(wire[r]) /\ Formed(wire[r])
        /\ g \in {"header", "json", "accepted"} => wire[r] = <<>> /\ r \notin timers
        /\ g \in {"json", "accepted"} => At(functors, "add", r) = {}
        /\ g \in {"data", "final"} => wire[r] # <<>> \/ Lost(r)
        /\ g = "final" => r \notin timers /\ At(functors, "add", r) = {}
    <3>1. \A k \in {"send", "cancel"} : \A j \in At(functors, k, r) : ~(j < 1)
      BY <1>4
    <3>2. QueueInv(r) /\ WireInv(r)
      BY <1>9 DEF RequestInv
    <3> QED BY <1>4, <2>1, <3>1, <3>2 DEF QueueInv, WireInv
  <2>4. \A j \in At(functors, "send", r) : j = 1 \/ (functors[j][3] \in {"data", "final"} /\ g \notin Answers)
    BY <1>4, <1>9, <2>1 DEF RequestInv, QueueInv
  <2>5. At(functors', "add", r) = {} <=> At(functors, "add", r) = {}
    BY <1>4, <2>1
  <2>6. /\ wire[r] # <<>> => wire'[r] # <<>>
        /\ ~Lost(r) => wire'[r] # <<>>
        /\ Over(wire'[r]) => g \in Answers
        /\ Formed(wire'[r])
    <3>1. wire[r] \in Seq(Frames) /\ g \in Frames /\ (g \in FinalFrames => g \in Answers)
      BY <2>1 DEF TypeOK, Frames, Answers, FinalFrames
    <3>2. ASSUME NEW a, a = Append(wire[r], g), ~Lost(r) PROVE a # <<>> /\ (Over(a) => g \in Answers) /\ Formed(a)
      BY <2>1, <2>3, <3>1, <3>2, FrameFacts
    <3> QED BY <2>2, <2>3, <3>2
  <2>7. HeaderSent(r)'
    BY <1>11, <2>6 DEF HeaderSent
  <2>8. TimerInv(r)'
    <3>1. \A i \in At(functors', "add", r), j \in At(functors', "cancel", r) : i < j
      <4> SUFFICES ASSUME NEW i \in At(functors', "add", r), NEW j \in At(functors', "cancel", r) PROVE i < j
        OBVIOUS
      <4>1. i \in Nat /\ j \in Nat /\ i + 1 \in At(functors, "add", r) /\ j + 1 \in At(functors, "cancel", r)
        BY <1>4
      <4>2. i + 1 < j + 1
        BY <1>9, <4>1 DEF RequestInv, TimerInv
      <4> QED BY <4>1, <4>2
    <3>2. \A i, j \in At(functors', "add", r) : i = j
      <4> SUFFICES ASSUME NEW i \in At(functors', "add", r), NEW j \in At(functors', "add", r) PROVE i = j
        OBVIOUS
      <4>1. i \in Nat /\ j \in Nat /\ i + 1 \in At(functors, "add", r) /\ j + 1 \in At(functors, "add", r)
        BY <1>4
      <4>2. i + 1 = j + 1
        BY <1>9, <4>1 DEF RequestInv, TimerInv
      <4> QED BY <4>1, <4>2
    <3>3. At(functors', "cancel", r) = {} <=> At(functors, "cancel", r) = {}
      BY <1>4, <2>1
    <3> QED BY <1>1, <1>9, <2>1, <2>5, <3>1, <3>2, <3>3 DEF RequestInv, TimerInv
  <2>9. QueueInv(r)'
    <3>1. ASSUME NEW i \in At(functors', "send", r)
          PROVE  /\ ~Over(wire'[r]) /\ functors'[i][3] \in {"data", "final"}
                 /\ wire'[r] # <<>> \/ Lost(r)
                 /\ functors'[i][3] = "final" =>
                      /\ r \in timers => \E j \in At(functors', "cancel", r) : j < i
                      /\ \A k \in At(functors', "add", r) : \E j \in At(functors', "cancel", r) : k < j /\ j < i
      <4>1. PICK n \in At(functors, "send", r) : n = i + 1 /\ n \in Nat /\ i \in Nat /\ functors'[i] = functors[n] /\ n # 1
        BY <1>4
      <4>2. functors[n][3] \in {"data", "final"} /\ g \notin Answers
        BY <2>4, <4>1
      <4>3. \A j \in At(functors, "cancel", r) :
              j \in Nat /\ j - 1 \in At(functors', "cancel", r) /\ (j < n => j - 1 < i) /\ \A k \in Nat : k + 1 < j => k < j - 1
        BY <1>4, <2>1, <4>1
      <4>4. ASSUME functors[n][3] = "final", r \in timers PROVE \E j \in At(functors', "cancel", r) : j < i
        BY <1>9, <4>3, <4>4 DEF RequestInv, QueueInv
      <4>5. ASSUME functors[n][3] = "final", NEW k \in At(functors', "add", r)
            PROVE  \E j \in At(functors', "cancel", r) : k < j /\ j < i
        <5>1. k \in Nat /\ k + 1 \in At(functors, "add", r)
          BY <1>4
        <5>2. PICK j \in At(functors, "cancel", r) : k + 1 < j /\ j < n
          BY <1>9, <4>5, <5>1 DEF RequestInv, QueueInv
        <5> QED BY <4>3, <5>1, <5>2
      <4> QED BY <2>6, <4>1, <4>2, <4>4, <4>5
    <3> QED BY <1>11, <1>13, <2>1, <3>1 DEF QueueInv
  <2>10. AnswerInv(r)'
    <3>1. Answering(r) => /\ g \notin Answers /\ At(functors', "cancel", r) = {} /\ r \notin gone
                          /\ \A i \in At(functors', "send", r) : functors'[i][3] \notin Answers
                          /\ at[r] # "accepted"
      BY <1>4, <1>9, <1>12, <2>1 DEF RequestInv, AnswerInv
    <3> QED BY <1>1, <1>12, <2>6, <2>7, <3>1 DEF AnswerInv
  <2>11. WireInv(r)'
    BY <2>1, <2>3, <2>5, <2>6, <2>7 DEF WireInv, Answers
  <2> QED BY <1>10, <2>8, <2>9, <2>10, <2>11 DEF RequestInv
<1>17. f[1] \in {"send", "add", "cancel"}
  BY <1>5, <1>8
<1> QED BY <1>14, <1>15, <1>16, <1>17

-----------------------------------------------------------------------------
(* The write sides of connections.                                             *)
LEMMA ShutKeeps ==
  ASSUME TypeOK, ShutInv, GoingDown,
         \A c \in ended' : c \in ended \/ m_state'[c] # "kConnected",
         \A i \in 1..Len(functors') : functors'[i][1] = "shutdown" =>
           \/ m_state'[functors'[i][2]] # "kConnected"
           \/ functors'[i] \in Functor /\ \E j \in 1..Len(functors) : functors[j] = functors'[i]
  PROVE  ShutInv'
<1>1. \A c \in ended' : m_state'[c] # "kConnected"
  BY DEF ShutInv, GoingDown, TypeOK
<1>2. ASSUME NEW i \in 1..Len(functors'), functors'[i][1] = "shutdown" PROVE m_state'[functors'[i][2]] # "kConnected"
  <2>1. CASE functors'[i] \in Functor /\ \E j \in 1..Len(functors) : functors[j] = functors'[i]
    <3>1. PICK c : c = functors'[i][2]
      OBVIOUS
    <3>2. c \in Conn
      BY <1>2, <2>1, <3>1 DEF Functor
    <3>3. m_state[c] # "kConnected"
      BY <1>2, <2>1, <3>1 DEF ShutInv
    <3> QED BY <3>1, <3>2, <3>3 DEF GoingDown
  <2> QED BY <1>2, <2>1
<1> QED BY <1>1, <1>2 DEF ShutInv

(* What a longer queue holds.                                                *)
LEMMA LongerHas ==
  ASSUME NEW q \in Seq(Functor), NEW f \in Functor, NEW a, Longer(a, q, f)
  PROVE  \A i \in 1..Len(a) : a[i] = f \/ \E j \in 1..Len(q) : q[j] = a[i]
<1>1. \A i \in 1..Len(a) : i = Len(q) + 1 \/ i \in 1..Len(q)
  BY DEF Longer
<1> QED BY <1>1 DEF Longer

(* Every step keeps ShutInv.                                                 *)
LEMMA ShutStep ==
  ASSUME TypeOK, TypeOK', ShutInv, Next, \A x \in Req : RequestInv(x) PROVE ShutInv'
<1>1. GoingDown
  BY StepGoesDown
<1>2. \A i \in 1..Len(functors) : functors[i] \in Functor
  BY DEF TypeOK
<1>3. \A i \in 1..Len(functors') : functors'[i] \in Functor
  BY DEF TypeOK
<1> DEFINE Old(i) == \E j \in 1..Len(functors) : functors[j] = functors'[i]
<1>4. ASSUME ended' = ended, \A i \in 1..Len(functors') : functors'[i][1] = "shutdown" => Old(i)
      PROVE  ShutInv'
  BY <1>1, <1>3, <1>4, ShutKeeps
<1>5. CASE ended' = ended /\ functors' = functors
  BY <1>4, <1>5
<1>6. ASSUME NEW c \in Conn, NEW r \in Req, NEW m \in Message, onRequest(c, r, m) PROVE ShutInv'
  <2>1. functors' = functors /\ \A d \in ended' : d \in ended \/ m_state'[d] # "kConnected"
    BY <1>6 DEF onRequest, connVars, TypeOK
  <2> QED BY <1>1, <1>3, <2>1, ShutKeeps
<1>7. ASSUME NEW c \in Conn, handleClose(c) PROVE ended' = ended /\ functors' = functors
  BY <1>7 DEF handleClose
<1>8. ASSUME RunFunctor PROVE ShutInv'
  <2>1. functors \in Seq(Functor) /\ functors # <<>> /\ functors' = Tail(functors) /\ m_state' = m_state
        /\ (ended' = ended \/ (Head(functors)[1] = "shutdown" /\ ended' = ended \union {Head(functors)[2]}))
    BY <1>8 DEF RunFunctor, TypeOK
  <2>2. Shorter(functors', functors) /\ Head(functors) = functors[1] /\ 1 \in 1..Len(functors)
    <3>1. Shorter(functors', functors) /\ Head(functors) = functors[1]
      BY <2>1, TailIsShorter
    <3> QED BY <3>1 DEF Shorter
  <2>3. \A c \in ended' : c \in ended \/ m_state'[c] # "kConnected"
    BY <2>1, <2>2 DEF ShutInv
  <2>4. \A i \in 1..Len(functors') : Old(i)
    BY <2>1, <2>2, TailFacts
  <2> QED BY <1>1, <1>3, <2>3, <2>4, ShutKeeps
<1>9. ASSUME NEW r \in Req, shutdown(r) PROVE ShutInv'
  <2>1. /\ ended' = ended
        /\ \/ functors' = functors
           \/ m_state'[conn[r]] # "kConnected" /\ functors' = Append(functors, <<"shutdown", conn[r]>>) /\ conn[r] \in Conn
    <3>1. conn[r] \in Conn
      BY <1>9, RunningIsBegun DEF shutdown, Begun, TypeOK
    <3> QED BY <1>9, <3>1 DEF shutdown, Shutdown, TypeOK
  <2>2. CASE m_state'[conn[r]] # "kConnected" /\ functors' = Append(functors, <<"shutdown", conn[r]>>) /\ conn[r] \in Conn
    <3>1. <<"shutdown", conn[r]>> \in Functor /\ functors \in Seq(Functor)
      BY <2>2 DEF Functor, TypeOK
    <3>2. Longer(functors', functors, <<"shutdown", conn[r]>>)
      BY <2>2, <3>1, AppendIsLonger
    <3>3. PICK f \in Functor : f = <<"shutdown", conn[r]>>
      BY <3>1
    <3>4. Longer(functors', functors, f)
      BY <3>2, <3>3
    <3>5. \A i \in 1..Len(functors') : functors'[i] = f \/ Old(i)
      BY <3>1, <3>4, LongerHas
    <3>6. \A i \in 1..Len(functors') : m_state'[functors'[i][2]] # "kConnected" \/ Old(i)
      BY <2>2, <3>3, <3>5
    <3> QED BY <1>1, <1>3, <2>1, <3>6, ShutKeeps
  <2> QED BY <1>5, <2>1, <2>2
<1>10. ASSUME NEW r \in Req, WorkerStep(r), ~shutdown(r) PROVE ShutInv'
  <2>1. /\ functors \in Seq(Functor) /\ ended' = ended
        /\ \A f \in {"header", "data", "json", "accepted", "final"} : <<"send", r, f>> \in Functor
        /\ <<"add", r>> \in Functor /\ <<"cancel", r>> \in Functor
    <3>1. ended' = ended
      BY <1>10 DEF WorkerStep, Take, validate, executor, upgrade_to_sse, write_notification, write_response, add,
                   Release, remove, connVars
    <3> QED BY <3>1, SentFacts DEF TypeOK
  <2> DEFINE New(q) == \A i \in 1..Len(q) : q[i][1] = "shutdown" => \E j \in 1..Len(functors) : functors[j] = q[i]
  <2>2. New(functors)
    OBVIOUS
  <2>3. ASSUME NEW q \in Seq(Functor), New(q), NEW f \in Functor, f[1] # "shutdown"
        PROVE  Append(q, f) \in Seq(Functor) /\ New(Append(q, f))
    <3>1. PICK a : a = Append(q, f)
      OBVIOUS
    <3>2. Longer(a, q, f) /\ a \in Seq(Functor)
      BY <3>1, AppendIsLonger, AppendFacts
    <3>3. \A i \in 1..Len(a) : a[i] = f \/ \E j \in 1..Len(q) : q[j] = a[i]
      BY <3>2, LongerHas
    <3>4. New(a)
      BY <2>3, <3>3
    <3> QED BY <3>1, <3>2, <3>4
  <2>4. ASSUME NEW q \in Seq(Functor), New(q), NEW f \in {"header", "data", "json", "accepted", "final"}
        PROVE  Sent(q, r, f) \in Seq(Functor) /\ New(Sent(q, r, f))
    <3>1. <<"send", r, f>> \in Functor /\ <<"send", r, f>>[1] # "shutdown"
      BY <2>1
    <3>2. Append(q, <<"send", r, f>>) \in Seq(Functor) /\ New(Append(q, <<"send", r, f>>))
      BY <2>3, <2>4, <3>1
    <3> HIDE DEF New
    <3> QED BY <2>4, <3>2 DEF Sent
  <2>5. Cancelled(functors, r) \in Seq(Functor) /\ New(Cancelled(functors, r))
    <3>1. Append(functors, <<"cancel", r>>) \in Seq(Functor) /\ New(Append(functors, <<"cancel", r>>))
      BY <2>1, <2>2, <2>3
    <3> HIDE DEF New
    <3> QED BY <2>1, <2>2, <3>1 DEF Cancelled
  <2>6. upgrade_to_sse(r) => New(functors')
    <3>1. PICK q : q = Sent(functors, r, "header")
      OBVIOUS
    <3>2. q \in Seq(Functor) /\ New(q)
      BY <2>1, <2>2, <2>4, <3>1
    <3>3. New(Append(q, <<"add", r>>))
      BY <2>1, <2>3, <3>2
    <3> HIDE DEF New
    <3> QED BY <3>1, <3>3 DEF upgrade_to_sse
  <2> HIDE DEF New
  <2>7. write_notification(r) => New(functors')
    BY <2>1, <2>2, <2>4 DEF write_notification
  <2>8. write_response(r) => New(functors')
    <3>1. /\ New(Sent(Cancelled(functors, r), r, "json")) /\ New(Sent(Cancelled(functors, r), r, "final"))
          /\ New(Sent(functors, r, "accepted"))
      BY <2>1, <2>2, <2>4, <2>5
    <3> QED BY <3>1 DEF write_response
  <2>9. Release(r) => New(functors')
    BY <2>2, <2>5 DEF Release
  <2>10. Take(r) \/ validate(r) \/ executor(r) \/ add(r) \/ remove(r) => functors' = functors
    BY DEF Take, validate, executor, add, remove
  <2>11. New(functors')
    BY <1>10, <2>2, <2>6, <2>7, <2>8, <2>9, <2>10 DEF WorkerStep
  <2> QED BY <1>4, <2>1, <2>11 DEF New
<1>11. execute => ended' = ended /\ functors' = functors
  BY DEF execute, connVars
<1>12. ASSUME NEW r \in Req, Keepalive(r) \/ KeepaliveSend(r) \/ DestructorInLoop(r) PROVE ended' = ended /\ functors' = functors
  BY <1>12 DEF Keepalive, KeepaliveSend, DestructorInLoop, connVars
<1> QED BY <1>5, <1>6, <1>7, <1>8, <1>9, <1>10, <1>11, <1>12 DEF Next, LoopStep

-----------------------------------------------------------------------------
(* A step that leaves the registry alone ends no writer without its cleanup.   *)
LEMMA RegistryKeeps ==
  ASSUME TypeOK, SubscriptionInv, subscriptions_' = subscriptions_, cleanup' = cleanup,
         \A x \in cleanup : msg'[x] = msg[x],
         \A x \in Req : x \in gone' /\ loop' # <<"destroy", x>> /\ at'[x] = "none" =>
           x \in gone /\ loop # <<"destroy", x>> /\ at[x] = "none"
  PROVE  SubscriptionInv'
<1>1. ASSUME NEW i \in Ids, subscriptions_'[i] # None
      PROVE  /\ subscriptions_'[i] \in cleanup' /\ msg'[subscriptions_'[i]].id = i
             /\ subscriptions_'[i] \notin gone' \/ loop' = <<"destroy", subscriptions_'[i]>> \/ subscriptions_'[i] \in Running'
  <2>1. PICK s \in Req : s = subscriptions_[i]
    BY <1>1 DEF TypeOK
  <2>2. s \in cleanup /\ msg[s].id = i /\ (s \notin gone \/ loop = <<"destroy", s>> \/ at[s] # "none")
    BY <1>1, <2>1 DEF SubscriptionInv, RegistryForgets, Running
  <2> QED BY <2>1, <2>2 DEF Running
<1> QED BY <1>1 DEF SubscriptionInv, RegistryForgets

(* The end of writer r, by remove or on the loop, takes r out of the registry. *)
LEMMA UnregisterForgets ==
  ASSUME TypeOK, SubscriptionInv, NEW r \in Req, Unregister(r), cleanup' = cleanup, msg' = msg, gone' = gone,
         \A x \in Req \ {r} : at'[x] = at[x] /\ (loop = <<"destroy", x>> => loop' = <<"destroy", x>>)
  PROVE  SubscriptionInv'
<1>1. ASSUME NEW i \in Ids, subscriptions_'[i] # None
      PROVE  /\ subscriptions_'[i] \in cleanup' /\ msg'[subscriptions_'[i]].id = i
             /\ subscriptions_'[i] \notin gone' \/ loop' = <<"destroy", subscriptions_'[i]>> \/ subscriptions_'[i] \in Running'
  <2>1. subscriptions_'[i] = subscriptions_[i] /\ ~(r \in cleanup /\ msg[r].id = i)
    BY <1>1 DEF Unregister, TypeOK
  <2>2. PICK s \in Req : s = subscriptions_[i]
    BY <1>1, <2>1 DEF TypeOK
  <2>3. s \in cleanup /\ msg[s].id = i /\ (s \notin gone \/ loop = <<"destroy", s>> \/ at[s] # "none")
    BY <1>1, <2>1, <2>2 DEF SubscriptionInv, RegistryForgets, Running
  <2>4. s # r
    BY <2>1, <2>3
  <2> QED BY <2>1, <2>2, <2>3, <2>4 DEF Running
<1> QED BY <1>1 DEF SubscriptionInv, RegistryForgets

(* Every step keeps what the registry holds.                                    *)
LEMMA SubscriptionStep ==
  ASSUME TypeOK, SubscriptionInv, Next, \A x \in Req : RequestInv(x) PROVE SubscriptionInv'
<1>1. ASSUME NEW c \in Conn, NEW r \in Req, NEW m \in Message, onRequest(c, r, m) PROVE SubscriptionInv'
  <2>1. r \notin cleanup
    BY <1>1 DEF onRequest, RequestInv, PlaceInv, Begun, Untouched
  <2>2. /\ subscriptions_' = subscriptions_ /\ cleanup' = cleanup /\ gone' = gone /\ at' = at /\ loop = <<"free">>
        /\ \A x \in cleanup : msg'[x] = msg[x]
    BY <1>1, <2>1 DEF onRequest, writers, TypeOK
  <2> QED BY <2>2, RegistryKeeps
<1>2. CASE \/ execute \/ RunFunctor \/ \E c \in Conn : handleClose(c)
           \/ \E r \in Req : Keepalive(r)
  <2>1. /\ subscriptions_' = subscriptions_ /\ cleanup' = cleanup /\ gone' = gone /\ at' = at /\ msg' = msg
        /\ \A x \in Req : loop # <<"destroy", x>>
    <3>1. \A x : <<"free">> # <<"destroy", x>>
      OBVIOUS
    <3>2. execute => \A x : loop # <<"destroy", x>>
      BY DEF execute
    <3> QED BY <1>2, <3>1, <3>2 DEF execute, RunFunctor, handleClose, Keepalive, writers
  <2> QED BY <2>1, RegistryKeeps
<1>3. ASSUME NEW r \in Req, KeepaliveSend(r) PROVE SubscriptionInv'
  <2>1. /\ subscriptions_' = subscriptions_ /\ cleanup' = cleanup /\ at' = at /\ msg' = msg /\ loop = <<"keepalive", r>>
        /\ \/ at[r] # "none" /\ gone' = gone
           \/ loop' = <<"destroy", r>> /\ gone' = gone \union {r}
    BY <1>3 DEF KeepaliveSend, Running
  <2> QED BY <2>1, RegistryKeeps
<1>4. ASSUME NEW r \in Req, DestructorInLoop(r) PROVE SubscriptionInv'
  <2>1. /\ Unregister(r) /\ cleanup' = cleanup /\ msg' = msg /\ gone' = gone /\ at' = at /\ loop = <<"destroy", r>>
    BY <1>4 DEF DestructorInLoop, writers
  <2> QED BY <2>1, UnregisterForgets
<1>5. ASSUME NEW r \in Req, remove(r) PROVE SubscriptionInv'
  <2>1. /\ Unregister(r) /\ cleanup' = cleanup /\ msg' = msg /\ gone' = gone /\ loop' = loop
        /\ \A x \in Req \ {r} : at'[x] = at[x]
    BY <1>5 DEF remove, Goto, writers, loopVars, TypeOK
  <2> QED BY <2>1, UnregisterForgets
<1>6. ASSUME NEW r \in Req, add(r) PROVE SubscriptionInv'
  <2>1. /\ cleanup' = cleanup \union {r} /\ msg' = msg /\ gone' = gone /\ loop' = loop
        /\ \A x \in Req \ {r} : at'[x] = at[x]
        /\ at[r] = "add" /\ at'[r] = "done"
    BY <1>6 DEF add, Goto, loopVars, TypeOK
  <2>2. ASSUME NEW i \in Ids, subscriptions_'[i] # None
        PROVE  /\ subscriptions_'[i] \in cleanup' /\ msg'[subscriptions_'[i]].id = i
               /\ subscriptions_'[i] \notin gone' \/ loop' = <<"destroy", subscriptions_'[i]>>
                    \/ subscriptions_'[i] \in Running'
    <3>1. subscriptions_'[i] = subscriptions_[i] \/ (msg[r].id = i /\ subscriptions_'[i] = r)
      BY <1>6 DEF add, TypeOK
    <3>2. CASE subscriptions_'[i] = r /\ msg[r].id = i
      BY <2>1, <3>2 DEF Running
    <3>3. CASE subscriptions_'[i] = subscriptions_[i]
      <4>1. PICK s \in Req : s = subscriptions_[i]
        BY <2>2, <3>3 DEF TypeOK
      <4>2. s \in cleanup /\ msg[s].id = i /\ (s \notin gone \/ loop = <<"destroy", s>> \/ at[s] # "none")
        BY <2>2, <3>3, <4>1 DEF SubscriptionInv, RegistryForgets, Running
      <4> QED BY <2>1, <3>3, <4>1, <4>2 DEF Running
    <3> QED BY <3>1, <3>2, <3>3
  <2> QED BY <2>2 DEF SubscriptionInv, RegistryForgets
<1>7. ASSUME NEW r \in Req, WorkerStep(r), ~add(r), ~remove(r) PROVE SubscriptionInv'
  <2>1. /\ subscriptions_' = subscriptions_ /\ cleanup' = cleanup /\ msg' = msg /\ loop' = loop
        /\ \A x \in Req \ {r} : at'[x] = at[x]
    BY <1>7 DEF WorkerStep, Take, validate, executor, upgrade_to_sse, write_notification, write_response, shutdown,
                Release, Goto, writers, loopVars, TypeOK
  <2>2. CASE Release(r)
    <3>1. \/ at'[r] = "none" /\ gone' = gone
          \/ at'[r] = "remove" /\ gone' = gone \union {r}
      BY <2>2 DEF Release, Goto, TypeOK
    <3>2. r \notin gone
      BY <2>2 DEF Release, RequestInv, WriterInv
    <3> QED BY <2>1, <3>1, <3>2, RegistryKeeps
  <2>3. CASE ~Release(r)
    <3>1. gone' = gone
      BY <1>7, <2>3 DEF WorkerStep, Take, validate, executor, upgrade_to_sse, write_notification, write_response, shutdown,
                  writers
    <3>2. at'[r] # "none"
      BY <1>7, <2>3 DEF WorkerStep, Take, validate, executor, upgrade_to_sse, write_notification, write_response, shutdown,
                  AfterNotification, Goto, TypeOK
    <3> QED BY <2>1, <3>1, <3>2, RegistryKeeps
  <2> QED BY <2>2, <2>3
<1> QED BY <1>1, <1>2, <1>3, <1>4, <1>5, <1>6, <1>7 DEF Next, LoopStep, WorkerStep

(* A step that leaves the pool's queue alone submits nothing that is in it.    *)
LEMMA TasksStep ==
  ASSUME TypeOK, TasksInv, Next, \A x \in Req : RequestInv(x), tasks' = tasks
  PROVE  TasksInv'
<1>1. \A i \in 1..Len(tasks) : tasks[i] \in Req
  BY DEF TypeOK
<1>2. ASSUME NEW i \in 1..Len(tasks), loop' = <<"submit", tasks[i]>>, loop' # loop PROVE FALSE
  <2>1. PICK x \in Req : x = tasks[i]
    BY <1>1
  <2>2. conn[x] # None
    BY <2>1 DEF Queued, RequestInv, PlaceInv
  <2>3. ASSUME NEW c \in Conn, NEW r \in Req, NEW m \in Message, onRequest(c, r, m) PROVE FALSE
    BY <1>2, <2>1, <2>2, <2>3 DEF onRequest
  <2>4. ASSUME NEW r \in Req, WorkerStep(r) PROVE loop' = loop
    BY <2>4 DEF WorkerStep, Take, validate, executor, upgrade_to_sse, write_notification, write_response, shutdown, add,
                Release, remove, loopVars
  <2>5. ASSUME NEW r \in Req, Keepalive(r) \/ KeepaliveSend(r) \/ DestructorInLoop(r) PROVE FALSE
    BY <1>2, <2>5 DEF Keepalive, KeepaliveSend, DestructorInLoop
  <2>6. ASSUME NEW c \in Conn, handleClose(c) PROVE loop' = loop
    BY <2>6 DEF handleClose, loopVars
  <2>7. execute \/ RunFunctor => FALSE
    BY <1>2 DEF execute, RunFunctor
  <2> QED BY <1>2, <2>3, <2>4, <2>5, <2>6, <2>7 DEF Next, LoopStep
<1> QED BY <1>2 DEF TasksInv

(* Every step keeps every request's invariant, and the queue's.                 *)
LEMMA RequestStep ==
  ASSUME TypeOK, TasksInv, ShutInv, Next, \A x \in Req : RequestInv(x)
  PROVE  (\A x \in Req : RequestInv(x)') /\ TasksInv'
<1>1. CASE \E c \in Conn : handleClose(c)
  <2>1. tasks' = tasks
    BY <1>1 DEF handleClose
  <2> QED BY <1>1, <2>1, CloseKeeps, TasksStep
<1>2. CASE \E c \in Conn : \E r \in Req, m \in Message : onRequest(c, r, m)
  <2>1. tasks' = tasks
    BY <1>2 DEF onRequest
  <2> QED BY <1>2, <2>1, RequestKeeps, TasksStep
<1>3. CASE execute
  BY <1>3, ExecuteKeeps
<1>4. CASE RunFunctor
  <2>1. tasks' = tasks
    BY <1>4 DEF RunFunctor
  <2> QED BY <1>4, <2>1, FunctorKeeps, TasksStep
<1>5. ASSUME NEW r \in Req, Keepalive(r) \/ KeepaliveSend(r) \/ DestructorInLoop(r)
      PROVE  (\A x \in Req : RequestInv(x)') /\ TasksInv'
  <2>1. tasks' = tasks
    BY <1>5 DEF Keepalive, KeepaliveSend, DestructorInLoop
  <2>2. TasksInv'
    BY <2>1, TasksStep
  <2> QED BY <1>5, <2>2, KeepaliveKeeps, KeepaliveSendKeeps, DestructorKeeps
<1>6. ASSUME NEW r \in Req, Take(r) PROVE (\A x \in Req : RequestInv(x)') /\ TasksInv'
  BY <1>6, TakeKeeps
<1>7. ASSUME NEW r \in Req, WorkerStep(r), ~Take(r) PROVE (\A x \in Req : RequestInv(x)') /\ TasksInv'
  <2>1. tasks' = tasks
    BY <1>7 DEF WorkerStep, validate, executor, upgrade_to_sse, write_notification, write_response, shutdown, add,
                Release, remove
  <2>2. TasksInv'
    BY <2>1, TasksStep
  <2>3. CASE validate(r) \/ executor(r) \/ add(r) \/ remove(r)
    BY <2>2, <2>3, MovesKeep
  <2>4. CASE upgrade_to_sse(r) \/ write_notification(r) \/ write_response(r)
    BY <2>2, <2>4, UpgradeKeeps, NotificationKeeps, ResponseKeeps
  <2>5. CASE shutdown(r) \/ Release(r)
    BY <2>2, <2>5, ShutdownKeeps, ReleaseKeeps
  <2> QED BY <1>7, <2>3, <2>4, <2>5 DEF WorkerStep
<1> QED BY <1>1, <1>2, <1>3, <1>4, <1>5, <1>6, <1>7 DEF Next, LoopStep

-----------------------------------------------------------------------------
(* The initial states.                                                         *)
LEMMA InitInv == Init => ServerInv
<1> SUFFICES ASSUME Init PROVE ServerInv
  OBVIOUS
<1>1. TypeOK
  BY DEF Init, TypeOK, Labels
<1>2. TasksInv /\ ShutInv /\ SubscriptionInv
  BY DEF Init, TasksInv, ShutInv, SubscriptionInv, RegistryForgets
<1>3. ASSUME NEW r \in Req PROVE RequestInv(r)
  <2>1. Untouched(r) /\ conn[r] = None /\ wire[r] = <<>> /\ at[r] = "none" /\ ~Queued(r) /\ ~Begun(r)
    BY DEF Init, Untouched, At, Queued, Begun
  <2>2. Formed(wire[r]) /\ ~Over(wire[r])
    BY <2>1 DEF Formed, Over
  <2> QED BY <2>1, <2>2 DEF Untouched, RequestInv, PlaceInv, WriterInv, TimerInv, QueueInv, AnswerInv, Answering, WireInv
<1> QED BY <1>1, <1>2, <1>3 DEF ServerInv

(* A stuttering step.                                                          *)
LEMMA StutterInv == ServerInv /\ UNCHANGED vars => ServerInv'
<1> SUFFICES ASSUME ServerInv, UNCHANGED vars PROVE ServerInv'
  OBVIOUS
<1>1. /\ UNCHANGED <<m_state, ended, wire, functors, loop, timers, conn, msg, tasks, at, state_>>
      /\ UNCHANGED <<timerId, cleanup, gone, subscriptions_>>
  BY DEF vars, connVars, loopVars, writers
<1>2. TypeOK' /\ TasksInv' /\ ShutInv' /\ GoingDown
  BY <1>1 DEF ServerInv, TypeOK, TasksInv, ShutInv, GoingDown
<1>3. \A x \in Req : Same(x)
  BY <1>1 DEF Same, Queued
<1>4. (\A x \in Req : RequestInv(x)') /\ SubscriptionInv'
  BY <1>1, <1>2, <1>3, AboutNothing, RegistryKeeps DEF ServerInv
<1> QED BY <1>2, <1>4 DEF ServerInv

(* The invariant the two theorems rest on.                                     *)
LEMMA ServerInvariant == Spec => []ServerInv
<1>1. ServerInv /\ Next => ServerInv'
  <2> SUFFICES ASSUME ServerInv, Next PROVE ServerInv'
    OBVIOUS
  <2>1. TypeOK'
    BY TypeStep DEF ServerInv, RequestInv, PlaceInv, Begun
  <2>2. (\A x \in Req : RequestInv(x)') /\ TasksInv'
    BY RequestStep DEF ServerInv
  <2>3. ShutInv' /\ SubscriptionInv'
    BY <2>1, ShutStep, SubscriptionStep DEF ServerInv
  <2> QED BY <2>1, <2>2, <2>3 DEF ServerInv
<1> QED BY <1>1, InitInv, StutterInv, PTL DEF Spec

(* Whatever the connection, the timer and the workers do, what a client gets   *)
(* for one request is a plain answer or a stream with its header first, and at *)
(* most one response, at the end (StreamableHttpMessageWriter).                *)
THEOREM AnswersWellFormed == Spec => []AnswersAreWellFormed
<1>1. ServerInv => AnswersAreWellFormed
  BY DEF ServerInv, RequestInv, WireInv, Formed, AnswersAreWellFormed
<1> QED BY <1>1, ServerInvariant, PTL

(* A writer that has been destroyed, by a worker or on the loop, leaves no     *)
(* entry in the registry and, once the loop has run its functors, no timer     *)
(* (~StreamableHttpMessageWriter, stop_keepalive, SubscriptionRegistry).       *)
THEOREM WriterLeavesNothingHolds == Spec => []WriterLeavesNothing
<1>1. ServerInv => RegistryForgets
  BY DEF ServerInv, SubscriptionInv
<1>2. ServerInv => KeepalivesStop
  <2> SUFFICES ASSUME ServerInv, NEW r \in gone, functors = <<>>, loop # <<"destroy", r>>, r \in timers PROVE FALSE
    BY DEF KeepalivesStop
  <2>1. r \in Req /\ At(functors, "cancel", r) = {}
    BY DEF ServerInv, TypeOK, At
  <2> QED BY <2>1 DEF ServerInv, RequestInv, TimerInv
<1> QED BY <1>1, <1>2, ServerInvariant, PTL DEF WriterLeavesNothing

-----------------------------------------------------------------------------
(* Where a call of onMessage or execute may stand: the parser runs over        *)
(* headers only, a client's parser has no body to wait for, and a context that *)
(* waits for a body lacks some of it.                                          *)
BodyInv ==
  /\ length \in Nat /\ ahead \in Nat
  /\ running \/ side = "response" => state = "headers"
  /\ BodyIsAwaited

(* What follows the headers, or more of a body: the request is handed over, or *)
(* what is missing is waited for.                                              *)
LEMMA TryBodyKeeps ==
  ASSUME BodyInv, NEW n \in Nat, NEW a \in Nat, ~running', side = "request", TryBody(n, a)
  PROVE  BodyInv'
<1>1. CASE a >= n
  <2>1. OnRequest(a - n)
    BY <1>1 DEF TryBody
  <2>2. state' = "headers" /\ length' = 0 /\ ahead' = a - n
    BY <2>1 DEF OnRequest
  <2>3. a - n \in Nat
    BY <1>1
  <2> QED BY <2>2, <2>3 DEF BodyInv, BodyIsAwaited
<1>2. CASE ~(a >= n)
  <2>1. BodyWaits(n, a)
    BY <1>2 DEF TryBody
  <2>2. state' = "body" /\ length' = n /\ ahead' = a /\ side' = side
    BY <2>1 DEF BodyWaits
  <2> QED BY <1>2, <2>2 DEF BodyInv, BodyIsAwaited
<1> QED BY <1>1, <1>2

(***************************************************************************)
(* A context never keeps a request whose body is all in the Buffer, for    *)
(* bodies and reads of any length, however the reads cut them              *)
(* (HttpContext.cc:7-44, HttpServer.cc:38-64): the call that brings the    *)
(* last byte answers.                                                      *)
(***************************************************************************)
THEOREM BodyNeverWaitsForNothing == HttpSpec => []BodyIsAwaited
<1>1. HttpInit => BodyInv
  BY DEF HttpInit, ParserInit, BodyInv, BodyIsAwaited
<1>2. BodyInv /\ [HttpNext]_httpVars => BodyInv'
  <2> SUFFICES ASSUME BodyInv, [HttpNext]_httpVars PROVE BodyInv'
    OBVIOUS
  <2>1. CASE UNCHANGED httpVars
    BY <2>1 DEF httpVars, parserVars, serverVars, BodyInv, BodyIsAwaited
  <2>2. ASSUME NEW b \in Byte, ParseByte(b) PROVE BodyInv'
    <3>1. running /\ UNCHANGED <<side, running, serverVars>>
      BY <2>2 DEF ParseByte, ReadByte
    <3> QED BY <3>1 DEF serverVars, BodyInv, BodyIsAwaited
  <2>3. ASSUME NEW k \in 1..MaxAhead, MoreBody(k) PROVE BodyInv'
    <3>1. ahead + k \in Nat /\ length \in Nat
      BY DEF BodyInv
    <3>2. ~running' /\ side = "request" /\ TryBody(length, ahead + k)
      BY <2>3 DEF MoreBody
    <3> QED BY <3>1, <3>2, TryBodyKeeps
  <2>4. CASE ParseMore
    <3>1. state = "headers" /\ running' /\ ahead' = 0 /\ UNCHANGED <<side, state, length>>
      BY <2>4 DEF ParseMore, Begin
    <3> QED BY <3>1 DEF BodyInv, BodyIsAwaited
  <2>5. CASE Incomplete \/ Refused \/ TooLong
    <3>1. running /\ UNCHANGED <<side, state, length, ahead>>
      BY <2>5 DEF Incomplete, Refused, TooLong, serverVars
    <3> QED BY <3>1 DEF BodyInv, BodyIsAwaited
  <2>6. CASE Complete
    <3>1. PICK n \in (IF HasFields THEN 0..MaxLength ELSE {0}), a \in 0..MaxAhead : TryBody(n, a)
      BY <2>6 DEF Complete
    <3>2. n \in Nat /\ a \in Nat
      BY HttpAssumption
    <3>3. ~running' /\ side = "request"
      BY <2>6 DEF Complete
    <3> QED BY <3>1, <3>2, <3>3, TryBodyKeeps
  <2>7. ASSUME NEW chunck \in BOOLEAN, Execute(chunck) PROVE BodyInv'
    <3>1. side = "response" /\ UNCHANGED <<side, serverVars>>
      BY <2>7 DEF Execute, Begin
    <3> QED BY <3>1 DEF serverVars, BodyInv, BodyIsAwaited
  <2>8. CASE ExecuteReturns \/ Reset
    <3>1. side = "response" /\ UNCHANGED <<side, serverVars>>
      BY <2>8 DEF ExecuteReturns, Reset, ParserReset
    <3> QED BY <3>1 DEF serverVars, BodyInv, BodyIsAwaited
  <2> QED BY <2>1, <2>2, <2>3, <2>4, <2>5, <2>6, <2>7, <2>8 DEF HttpNext
<1>3. BodyInv => BodyIsAwaited
  BY DEF BodyInv
<1> QED BY <1>1, <1>2, <1>3, PTL DEF HttpSpec
=============================================================================
