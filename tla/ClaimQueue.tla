----------------------------- MODULE ClaimQueue -----------------------------
(***************************************************************************)
(* What utils::mpmc_bounded_queue promises its users, at the grain module  *)
(* DBPool uses it: an enqueue claims a place and then publishes it, a      *)
(* dequeue takes the oldest place if it is published and gives the slot    *)
(* back a moment later.  An operation may fail only for a reason: every    *)
(* place is claimed, or some consumer has not given its slot back yet (one *)
(* slow consumer is enough, however empty the queue is); the oldest place  *)
(* is missing or unpublished.                                              *)
(***************************************************************************)
EXTENDS Naturals, Sequences, FiniteSets

CONSTANTS Item, NoItem, Capacity, Producers, Consumers

VARIABLES claimed,    \* items claimed, oldest first
          published,  \* those of them that are published
          putting,    \* the item each producer has claimed a place for and not published
          taking,     \* the item each consumer has taken without giving the slot back
          result      \* what each thread's last operation returned (0: false)

vars == <<claimed, published, putting, taking, result>>

Init ==
  /\ claimed = <<>> /\ published = {}
  /\ putting = [p \in Producers |-> NoItem]
  /\ taking = [c \in Consumers |-> NoItem]
  /\ result = [t \in Producers \union Consumers |-> NoItem]

Holding == {c \in Consumers : taking[c] # NoItem}

Claim(p, i) ==
  /\ putting[p] = NoItem
  /\ Len(claimed) + Cardinality(Holding) < Capacity
  /\ claimed' = Append(claimed, i)
  /\ putting' = [putting EXCEPT ![p] = i]
  /\ UNCHANGED <<published, taking, result>>

Publish(p) ==
  /\ putting[p] # NoItem
  /\ published' = published \union {putting[p]}
  /\ putting' = [putting EXCEPT ![p] = NoItem]
  /\ result' = [result EXCEPT ![p] = putting[p]]
  /\ UNCHANGED <<claimed, taking>>

Full(p) ==
  /\ putting[p] = NoItem
  /\ Len(claimed) = Capacity \/ Holding # {}
  /\ result' = [result EXCEPT ![p] = 0]
  /\ UNCHANGED <<claimed, published, putting, taking>>

Take(c) ==
  /\ taking[c] = NoItem
  /\ claimed # <<>> /\ Head(claimed) \in published
  /\ claimed' = Tail(claimed)
  /\ published' = published \ {Head(claimed)}
  /\ taking' = [taking EXCEPT ![c] = Head(claimed)]
  /\ UNCHANGED <<putting, result>>

GiveBack(c) ==
  /\ taking[c] # NoItem
  /\ taking' = [taking EXCEPT ![c] = NoItem]
  /\ result' = [result EXCEPT ![c] = taking[c]]
  /\ UNCHANGED <<claimed, published, putting>>

Empty(c) ==
  /\ taking[c] = NoItem
  /\ claimed # <<>> => Head(claimed) \notin published
  /\ result' = [result EXCEPT ![c] = 0]
  /\ UNCHANGED <<claimed, published, putting, taking>>

(* A new call forgets the answer of the last one.                            *)
Call(t) ==
  /\ t \in Producers => putting[t] = NoItem
  /\ t \in Consumers => taking[t] = NoItem
  /\ result' = [result EXCEPT ![t] = NoItem]
  /\ UNCHANGED <<claimed, published, putting, taking>>

Next ==
  \/ \E t \in Producers \union Consumers : Call(t)
  \/ \E p \in Producers : (\E i \in Item : Claim(p, i)) \/ Publish(p) \/ Full(p)
  \/ \E c \in Consumers : Take(c) \/ GiveBack(c) \/ Empty(c)

Spec == Init /\ [][Next]_vars
=============================================================================
