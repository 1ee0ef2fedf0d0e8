---------------------------- MODULE McpHttpServer ----------------------------
(***************************************************************************)
(* The MCP server over HTTP (src/src/mcp): StreamableHttpServer on its IO  *)
(* loop, the business pool (the bounded FIFO that MpmcBlockingQueue        *)
(* implements), MethodDispatcher and McpMethodHandlers on the pool's       *)
(* workers, one StreamableHttpMessageWriter per request, its keepalive     *)
(* timer on the loop, and the SubscriptionRegistry.                        *)
(*                                                                         *)
(* A worker's send and shutdown test the connection's state at once and    *)
(* leave the rest to a functor of the loop, as in module TcpConnection;    *)
(* the loop's own sends go straight out.  The registry's notify is called  *)
(* by nothing in the repository and left out.                              *)
(***************************************************************************)
EXTENDS Naturals, FiniteSets, Sequences, SequencesExt

CONSTANTS Req,          \* requests that arrive, numbered in the order of arrival
          Conn,         \* connections, all of one IO loop
          Threads,      \* number of threads of the business pool
          Ids,          \* JSON-RPC ids
          None,
          QueueLimit,   \* business_queue_limit
          MaxProgress,  \* bound on the progress reports of a call
          MaxBeats      \* bound on the keepalives of a stream

ASSUME McpAssumption ==
  /\ Req \subseteq Nat /\ None \notin Ids \union Req \union Conn
  /\ Threads \in Nat \ {0} /\ QueueLimit \in Nat \ {0} /\ MaxProgress \in Nat /\ MaxBeats \in Nat

(* What the server tells apart in a message: whether onRequest and              *)
(* validate_mcp_headers let it pass, whether it has an id, its method, and       *)
(* whether the arguments of a call match the tool's schema.  "other" is all that *)
(* gets a plain response: another method, or a request that Request::from_json,  *)
(* the dispatcher or the handler's own checks refuse.                            *)
Message ==
  [headers : {FALSE}] \union [headers : {TRUE}, id : {None}] \union
  [headers : {TRUE}, id : Ids, method : {"subscriptions/listen", "other"}] \union
  [headers : {TRUE}, id : Ids, method : {"tools/call"}, arguments : BOOLEAN]

VARIABLES
  m_state,   \* m_state of each connection
  ended,     \* connections whose write side is shut down
  wire,      \* what has been sent for each request
  functors,  \* m_pendingFunctors of the loop
  loop,      \* what the loop is doing: <<"free">>, <<"submit", r>>, <<"keepalive", r>> or <<"destroy", r>>
  timers,    \* requests whose keepalive timer the loop has
  conn,      \* conn_ of the writer of each request
  msg,       \* the message of each request
  tasks,     \* the pool's queue
  at,        \* where the worker that has each request is
  reports,   \* progress reports of each request so far
  state_,    \* state_ of each writer
  timerId,   \* writers whose keepalive_timer_id_ is valid
  cleanup,   \* writers whose subscription_cleanup_ is set
  gone,      \* writers whose destructor has begun
  last_errors_,  \* the tool's validator has errors
  subscriptions_ \* subscriptions_: the request that holds each id

connVars == <<m_state, ended, wire>>
loopVars == <<loop, timers>>
writers == <<state_, timerId, cleanup, gone>>
vars == <<connVars, functors, loopVars, conn, msg, tasks, at, reports, writers, last_errors_, subscriptions_>>

Init ==
  /\ m_state = [c \in Conn |-> "kConnected"] /\ ended = {} /\ wire = [r \in Req |-> <<>>]
  /\ functors = <<>> /\ loop = <<"free">> /\ timers = {}
  /\ conn = [r \in Req |-> None] /\ msg = [r \in Req |-> None]
  /\ tasks = <<>> /\ at = [r \in Req |-> "none"]
  /\ reports = [r \in Req |-> 0]
  /\ state_ = [r \in Req |-> "Direct"] /\ timerId = {} /\ cleanup = {} /\ gone = {}
  /\ last_errors_ = FALSE /\ subscriptions_ = [i \in Ids |-> None]

-----------------------------------------------------------------------------
Goto(r, l) == at' = [at EXCEPT ![r] = l]

Running == {r \in Req : at[r] # "none"}   \* requests a worker has
(* A socket whose write side is shut down takes nothing more.                  *)
Out(r, f) == wire' = IF conn[r] \in ended THEN wire ELSE [wire EXCEPT ![r] = Append(@, f)]

(* TcpConnection::send and shutdown from a worker.                             *)
Sent(q, r, f) == IF m_state[conn[r]] = "kConnected" THEN Append(q, <<"send", r, f>>) ELSE q
Cancelled(q, r) == IF r \in timerId THEN Append(q, <<"cancel", r>>) ELSE q
Shutdown(r) ==
  IF m_state[conn[r]] = "kConnected"
  THEN m_state' = [m_state EXCEPT ![conn[r]] = "kDisconnecting"] /\ functors' = Append(functors, <<"shutdown", conn[r]>>)
  ELSE UNCHANGED <<m_state, functors>>

(* The strong references to the writer of r.                                   *)
Held(r) == loop = <<"keepalive", r>> \/ loop = <<"submit", r>> \/ r \in Range(tasks) \union Running

-----------------------------------------------------------------------------
(* onMessage and onRequest: a request the parser or the header checks refuse   *)
(* is answered by the loop; the others are submitted, and the loop waits while *)
(* the queue is full.                                                          *)
onRequest(c, r, m) ==
  /\ loop = <<"free">> /\ conn[r] = None /\ m_state[c] # "kDisconnected"
  /\ \A q \in Req : q < r => conn[q] # None
  /\ conn' = [conn EXCEPT ![r] = c] /\ msg' = [msg EXCEPT ![r] = m]
  /\ IF m.headers
     THEN loop' = <<"submit", r>> /\ UNCHANGED connVars
     ELSE /\ IF m_state[c] = "kConnected"
             THEN /\ wire' = [wire EXCEPT ![r] = Append(@, "refusal")] /\ ended' = ended \union {c}
                  /\ m_state' = [m_state EXCEPT ![c] = "kDisconnecting"]
             ELSE UNCHANGED connVars
          /\ UNCHANGED loop
  /\ UNCHANGED <<functors, timers, tasks, at, reports, writers, last_errors_, subscriptions_>>

execute ==
  /\ loop[1] = "submit" /\ Len(tasks) < QueueLimit
  /\ tasks' = Append(tasks, loop[2]) /\ loop' = <<"free">>
  /\ UNCHANGED <<connVars, functors, timers, conn, msg, at, reports, writers, last_errors_, subscriptions_>>

handleClose(c) ==
  /\ loop = <<"free">> /\ m_state[c] # "kDisconnected"
  /\ m_state' = [m_state EXCEPT ![c] = "kDisconnected"]
  /\ UNCHANGED <<wire, ended, functors, loopVars, conn, msg, tasks, at, reports, writers, last_errors_, subscriptions_>>

(* The loop runs the oldest functor.                                           *)
RunFunctor ==
  /\ loop = <<"free">> /\ functors # <<>>
  /\ functors' = Tail(functors)
  /\ LET f == Head(functors)
     IN \/ /\ f[1] = "send" /\ UNCHANGED <<ended, timers>>
           /\ IF m_state[conn[f[2]]] # "kDisconnected" THEN Out(f[2], f[3]) ELSE UNCHANGED wire
        \/ f[1] = "shutdown" /\ ended' = ended \union {f[2]} /\ UNCHANGED <<wire, timers>>
        \/ f[1] = "add" /\ timers' = timers \union {f[2]} /\ UNCHANGED <<wire, ended>>
        \/ f[1] = "cancel" /\ timers' = timers \ {f[2]} /\ UNCHANGED <<wire, ended>>
  /\ UNCHANGED <<m_state, loop, conn, msg, tasks, at, reports, writers, last_errors_, subscriptions_>>

-----------------------------------------------------------------------------
(* A worker takes a task and dispatches it: notifications are accepted, what    *)
(* the dispatcher or the handler's checks refuse is answered with an error.     *)
Take(r) ==
  /\ tasks # <<>> /\ r = Head(tasks) /\ Cardinality(Running) < Threads
  /\ tasks' = Tail(tasks)
  /\ LET m == msg[r]
     IN \/ m.id = None /\ Goto(r, "accepted")
        \/ m.id # None /\ m.method = "other" /\ Goto(r, "response")
        \/ m.id # None /\ m.method = "tools/call" /\ Goto(r, "clear")
        \/ m.id # None /\ m.method = "subscriptions/listen" /\ Goto(r, "notify")
  /\ UNCHANGED <<connVars, functors, loopVars, conn, msg, reports, writers, last_errors_, subscriptions_>>

(* InputValidator::validate works on a member of the tool's only validator.    *)
validate(r) ==
  /\ \/ at[r] = "clear" /\ last_errors_' = FALSE /\ Goto(r, "check")
     \/ at[r] = "check" /\ last_errors_' = (last_errors_ \/ ~msg[r].arguments) /\ Goto(r, "test")
     \/ at[r] = "test" /\ UNCHANGED last_errors_ /\ Goto(r, IF last_errors_ THEN "response" ELSE "execute")
  /\ UNCHANGED <<connVars, functors, loopVars, conn, msg, tasks, reports, writers, subscriptions_>>

(* The tool reports progress or ends, by a result or an exception, either of   *)
(* which is a response.                                                        *)
executor(r) ==
  /\ at[r] = "execute"
  /\ \/ reports[r] < MaxProgress /\ reports' = [reports EXCEPT ![r] = @ + 1] /\ Goto(r, "notify")
     \/ UNCHANGED reports /\ Goto(r, "response")
  /\ UNCHANGED <<connVars, functors, loopVars, conn, msg, tasks, writers, last_errors_, subscriptions_>>

-----------------------------------------------------------------------------
AfterNotification(r) == IF msg[r].method = "tools/call" THEN "execute" ELSE "add"

(* Mutant: the keepalive is started before the header of the stream is sent.   *)
UpgradeTimerFirst(r) ==
  /\ at[r] = "notify" /\ state_[r] = "Direct"
  /\ functors' = Sent(Append(functors, <<"add", r>>), r, "header")
  /\ state_' = [state_ EXCEPT ![r] = "Streaming"] /\ timerId' = timerId \union {r}
  /\ UNCHANGED <<connVars, loopVars, conn, msg, tasks, at, reports, cleanup, gone, last_errors_, subscriptions_>>

(* upgrade_to_sse and start_keepalive, the first thing a notification needs.   *)
upgrade_to_sse(r) ==
  /\ at[r] = "notify" /\ state_[r] = "Direct"
  /\ functors' = Append(Sent(functors, r, "header"), <<"add", r>>)
  /\ state_' = [state_ EXCEPT ![r] = "Streaming"] /\ timerId' = timerId \union {r}
  /\ UNCHANGED <<connVars, loopVars, conn, msg, tasks, at, reports, cleanup, gone, last_errors_, subscriptions_>>

write_notification(r) ==
  /\ at[r] = "notify" /\ state_[r] = "Streaming"
  /\ functors' = Sent(functors, r, "data") /\ Goto(r, AfterNotification(r))
  /\ UNCHANGED <<connVars, loopVars, conn, msg, tasks, reports, writers, last_errors_, subscriptions_>>

(* Mutant: a response is written only while there is no stream.                *)
ResponseDropped(r) ==
  /\ \/ /\ at[r] = "response"
        /\ functors' = IF state_[r] = "Direct" THEN Sent(functors, r, "json") ELSE functors
     \/ at[r] = "accepted" /\ functors' = Sent(functors, r, "accepted")
  /\ Goto(r, IF state_[r] = "Direct" THEN "close" ELSE "done")
  /\ UNCHANGED <<connVars, loopVars, conn, msg, tasks, reports, writers, last_errors_, subscriptions_>>

(* write_response, or write_accepted for a notification: the frame first (and  *)
(* before it the end of the keepalive), then the end of the connection.         *)
write_response(r) ==
  /\ \/ /\ at[r] = "response"
        /\ functors' = Sent(Cancelled(functors, r), r, IF state_[r] = "Direct" THEN "json" ELSE "final")
     \/ at[r] = "accepted" /\ functors' = Sent(functors, r, "accepted")
  /\ timerId' = timerId \ {r} /\ Goto(r, "close")
  /\ UNCHANGED <<connVars, loopVars, conn, msg, tasks, reports, state_, cleanup, gone, last_errors_, subscriptions_>>

shutdown(r) ==
  /\ at[r] = "close" /\ Shutdown(r)
  /\ state_' = [state_ EXCEPT ![r] = "Closed"] /\ Goto(r, "done")
  /\ UNCHANGED <<wire, ended, loopVars, conn, msg, tasks, reports, timerId, cleanup, gone, last_errors_, subscriptions_>>

(* The rest of handle_subscriptions_listen: the registry takes the first of    *)
(* equal ids, the writer gets its cleanup either way, and the stream stays.    *)
add(r) ==
  /\ at[r] = "add"
  /\ LET i == msg[r].id
     IN subscriptions_' = IF subscriptions_[i] = None THEN [subscriptions_ EXCEPT ![i] = r] ELSE subscriptions_
  /\ cleanup' = cleanup \union {r} /\ Goto(r, "done")
  /\ UNCHANGED <<connVars, functors, loopVars, conn, msg, tasks, reports, state_, timerId, gone, last_errors_>>

-----------------------------------------------------------------------------

(* The task is destroyed, and the writer with it unless the loop has it too:    *)
(* ~StreamableHttpMessageWriter ends the timer, then the registry's entry.      *)
Release(r) ==
  /\ at[r] = "done"
  /\ IF loop = <<"keepalive", r>>
     THEN Goto(r, "none") /\ UNCHANGED <<gone, functors>>
     ELSE /\ Goto(r, "remove") /\ gone' = gone \union {r}
          /\ functors' = Cancelled(functors, r)
  /\ UNCHANGED <<connVars, loopVars, conn, msg, tasks, reports, state_, timerId, cleanup, last_errors_, subscriptions_>>

(* Mutant: the destructor does not call subscription_cleanup_.                 *)
UnregisterNothing(r) == UNCHANGED subscriptions_

Unregister(r) ==
  subscriptions_' = IF r \in cleanup THEN [subscriptions_ EXCEPT ![msg[r].id] = None] ELSE subscriptions_

remove(r) ==
  /\ at[r] = "remove" /\ Unregister(r) /\ Goto(r, "none")
  /\ UNCHANGED <<connVars, functors, loopVars, conn, msg, tasks, reports, writers, last_errors_>>

(* The keepalive timer's callback: it takes a reference to the writer, sends    *)
(* or cancels the timer, and gives the reference up again.                      *)
Keepalive(r) ==
  /\ loop = <<"free">> /\ r \in timers
  /\ Len(SelectSeq(wire[r], LAMBDA x : x = "keepalive")) < MaxBeats
  /\ Held(r) /\ r \notin gone
  /\ loop' = <<"keepalive", r>>
  /\ UNCHANGED <<connVars, functors, timers, conn, msg, tasks, at, reports, writers, last_errors_, subscriptions_>>

KeepaliveSend(r) ==
  /\ loop = <<"keepalive", r>>
  /\ IF state_[r] = "Streaming" /\ m_state[conn[r]] = "kConnected"
     THEN Out(r, "keepalive") /\ UNCHANGED <<timers, timerId>>
     ELSE /\ IF r \in timerId THEN timers' = timers \ {r} ELSE UNCHANGED timers
          /\ timerId' = timerId \ {r} /\ UNCHANGED wire
  /\ IF r \in Running
     THEN loop' = <<"free">> /\ UNCHANGED gone
     ELSE loop' = <<"destroy", r>> /\ gone' = gone \union {r}
  /\ UNCHANGED <<m_state, ended, functors, conn, msg, tasks, at, reports, state_, cleanup, last_errors_, subscriptions_>>

(* The destructor on the loop.                                                 *)
DestructorInLoop(r) ==
  /\ loop = <<"destroy", r>>
  /\ timers' = (IF r \in timerId THEN timers \ {r} ELSE timers) /\ Unregister(r)
  /\ loop' = <<"free">>
  /\ UNCHANGED <<connVars, functors, conn, msg, tasks, at, reports, writers, last_errors_>>

-----------------------------------------------------------------------------
WorkerStep(r) ==
  \/ Take(r) \/ validate(r) \/ executor(r) \/ upgrade_to_sse(r) \/ write_notification(r) \/ write_response(r)
  \/ shutdown(r) \/ add(r) \/ Release(r) \/ remove(r)

LoopStep == execute \/ RunFunctor \/ \E r \in Req : KeepaliveSend(r) \/ DestructorInLoop(r)

Next ==
  \/ \E c \in Conn : handleClose(c) \/ \E r \in Req, m \in Message : onRequest(c, r, m)
  \/ LoopStep
  \/ \E r \in Req : WorkerStep(r)
  \/ \E r \in Req : Keepalive(r)

Spec == Init /\ [][Next]_vars

(* The loop and the workers keep running, the tools return; nothing is assumed  *)
(* of the clients and of time.                                                  *)
FairSpec == Spec /\ WF_vars(LoopStep) /\ \A r \in Req : WF_vars(WorkerStep(r))

-----------------------------------------------------------------------------
FinalFrames == {"refusal", "json", "accepted", "final"}

(* What a client gets for one request is one plain answer, or a stream: its     *)
(* header, notifications and keepalives, and at most one response at the end,   *)
(* whichever of the loop's timer and the worker writes when.                    *)
AnswersAreWellFormed ==
  \A r \in Req : \A i \in DOMAIN wire[r] :
    /\ wire[r][i] \in FinalFrames \ {"final"} => Len(wire[r]) = 1
    /\ wire[r][i] = "header" <=> i = 1 /\ wire[r][i] \notin FinalFrames
    /\ wire[r][i] = "final" => i = Len(wire[r]) /\ i > 1

(* The registry never keeps the entry of a writer that has been destroyed.      *)
RegistryForgets ==
  \A i \in Ids : subscriptions_[i] # None =>
    subscriptions_[i] \notin gone \/ loop = <<"destroy", subscriptions_[i]>> \/ subscriptions_[i] \in Running

Settled(r) ==
  /\ conn[r] # None
  /\ \/ m_state[conn[r]] = "kDisconnected"
     \/ \E q \in Req : conn[q] = conn[r] /\ FinalFrames \intersect Range(wire[q]) # {}
     \/ r \in cleanup /\ "data" \in Range(wire[r])

(* Every request is answered, by a response or an open stream, unless the       *)
(* client closes the connection or another answer has; a full queue, a busy     *)
(* validator or an exception in a tool do not lose one.                         *)
RequestsAreAnswered ==
  \A r \in Req : conn[r] # None ~> Settled(r)

(* Once the loop has run what was queued for it, it has no keepalive timer of a *)
(* writer that has been destroyed.                                              *)
KeepalivesStop ==
  \A r \in gone : functors = <<>> /\ r \notin Running /\ loop # <<"destroy", r>> => r \notin timers

(* Both: a writer that has been destroyed leaves nothing behind.                *)
WriterLeavesNothing == RegistryForgets /\ KeepalivesStop

(* A tool's executor is called with arguments that match its schema.            *)
ArgumentsAreValid == \A r \in Req : at[r] = "execute" => msg[r].arguments

(* A stream that listen opened has its subscription as long as the connection    *)
(* is up.                                                                        *)
OpenStreamIsSubscribed ==
  \A r \in cleanup : m_state[conn[r]] = "kConnected" => \E i \in Ids : subscriptions_[i] = r
=============================================================================
