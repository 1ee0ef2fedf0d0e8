---------------------------- MODULE BoundedFifo ----------------------------
(***************************************************************************)
(* What mpmc_blocking_queue promises its callers, with no threads, locks   *)
(* or rings: a bounded first-in first-out buffer that a producer can also  *)
(* overrun, and that can be closed once, either for draining or for good.  *)
(***************************************************************************)
EXTENDS Integers, Sequences

CONSTANTS Item, NoItem, Capacity, Consumers

VARIABLES buf,     \* the queued items, oldest first
          mode,    \* "None" while open, then "Drain" or "Immediate" for ever
          result   \* what each consumer's last dequeue returned

fifoVars == <<buf, mode, result>>

Init ==
  /\ buf = <<>>
  /\ mode = "None"
  /\ result = [c \in Consumers |-> NoItem]

Put(x) ==
  /\ mode = "None"
  /\ Len(buf) < Capacity
  /\ buf' = Append(buf, x)
  /\ UNCHANGED <<mode, result>>

(* Only an open, full buffer gives up an item unread, and only its oldest. *)
Overrun(x) ==
  /\ mode = "None"
  /\ Len(buf) = Capacity
  /\ buf' = Append(Tail(buf), x)
  /\ UNCHANGED <<mode, result>>

Get(c) ==
  /\ mode # "Immediate"
  /\ buf # <<>>
  /\ buf' = Tail(buf)
  /\ result' = [result EXCEPT ![c] = Head(buf)]
  /\ UNCHANGED mode

(* A consumer comes away empty-handed only from an empty or a closed buffer. *)
GetNothing(c) ==
  /\ buf = <<>> \/ mode # "None"
  /\ result' = [result EXCEPT ![c] = NoItem]
  /\ UNCHANGED <<buf, mode>>

Close ==
  /\ mode = "None"
  /\ mode' \in {"Drain", "Immediate"}
  /\ UNCHANGED <<buf, result>>

Next ==
  \/ \E x \in Item : Put(x) \/ Overrun(x)
  \/ \E c \in Consumers : Get(c) \/ GetNothing(c)
  \/ Close

Spec == Init /\ [][Next]_fifoVars
=============================================================================
