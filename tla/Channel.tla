------------------------------ MODULE Channel ------------------------------
(***************************************************************************)
(* net::Channel and the bookkeeping of net::EPollPoller (src/src/net/      *)
(* Channel.h, Poller.cc) as operators on a record: the events a channel    *)
(* asks for, its index in the poller, and whether the kernel's epoll set   *)
(* holds it.                                                               *)
(***************************************************************************)
Events == {"read", "write"}

Channels == [m_events : SUBSET Events, m_index : {"kNew", "kAdded", "kDeleted"}, epoll : BOOLEAN]

NewChannel == [m_events |-> {}, m_index |-> "kNew", epoll |-> FALSE]

isWriting(ch) == "write" \in ch.m_events

(* EPollPoller::updateChannel: a channel that is not in the epoll set is added, *)
(* even one that asks for nothing; one that asks for nothing is taken out.      *)
updateChannel(ch) ==
  IF ch.m_index # "kAdded"
  THEN [ch EXCEPT !.m_index = "kAdded", !.epoll = TRUE]
  ELSE IF ch.m_events = {} THEN [ch EXCEPT !.m_index = "kDeleted", !.epoll = FALSE]
  ELSE ch

(* EPollPoller::removeChannel *)
removeChannel(ch) ==
  [ch EXCEPT !.m_index = "kNew", !.epoll = @ /\ ch.m_index # "kAdded"]

enableReading(ch)  == updateChannel([ch EXCEPT !.m_events = @ \union {"read"}])
enableWriting(ch)  == updateChannel([ch EXCEPT !.m_events = @ \union {"write"}])
disableWriting(ch) == updateChannel([ch EXCEPT !.m_events = @ \ {"write"}])
disableAll(ch)     == updateChannel([ch EXCEPT !.m_events = {}])
=============================================================================
