----------------------------- MODULE CircularQ -----------------------------
(***************************************************************************)
(* utils::circular_q<T> (src/src/utils/circular_q.h): a ring of            *)
(* max_items_ = capacity + 1 cells, one of which is always free so that    *)
(* head_ = tail_ means empty.  A ring is a record; the operations are      *)
(* operators on it, because every user of the class calls them under a     *)
(* mutex of its own.                                                       *)
(***************************************************************************)
EXTENDS Integers, Sequences

CONSTANTS Item,     \* the values a cell can hold
          NoItem,   \* the default-constructed T of a cell never written
          Capacity  \* the constructor's argument

ASSUME CapacityAssumption == Capacity \in Nat \ {0}
ASSUME NoItemAssumption == NoItem \notin Item

max_items == Capacity + 1

Cells == 0..Capacity

Ring == [head : Cells, tail : Cells, items : [Cells -> Item \union {NoItem}], overrun : Nat]

(* circular_q(size_t max_items): all indices 0, every cell T(). *)
NewRing == [head |-> 0, tail |-> 0, items |-> [i \in Cells |-> NoItem], overrun |-> 0]

NextCell(i) == (i + 1) % max_items

empty(r) == r.head = r.tail

full(r) == NextCell(r.tail) = r.head

size(r) == IF r.tail >= r.head THEN r.tail - r.head ELSE max_items - r.head + r.tail

front(r) == r.items[r.head]

(* Mutant: a full ring does not give up its oldest item. *)
push_back_keeps_head(r, x) ==
  [r EXCEPT !.tail = NextCell(@), !.items = [@ EXCEPT ![r.tail] = x]]

(* push_back writes the free cell; if tail_ then meets head_ the oldest item *)
(* is given up and counted as an overrun.                                    *)
push_back(r, x) ==
  [head    |-> IF NextCell(r.tail) = r.head THEN NextCell(r.head) ELSE r.head,
   tail    |-> NextCell(r.tail),
   items   |-> [r.items EXCEPT ![r.tail] = x],
   overrun |-> IF NextCell(r.tail) = r.head THEN r.overrun + 1 ELSE r.overrun]

(* front() is moved from, then head_ advances: a moved-from cell keeps an    *)
(* unspecified value, which is never read again before it is overwritten, so *)
(* the model leaves it as it was.                                            *)
pop_front(r) == [r EXCEPT !.head = NextCell(@)]

(* What the ring promises to hold: its items, oldest first. *)
Contents(r) == [k \in 1..size(r) |-> r.items[(r.head + k - 1) % max_items]]
=============================================================================
