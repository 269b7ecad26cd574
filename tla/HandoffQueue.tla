---------------------------- MODULE HandoffQueue ----------------------------
(***************************************************************************)
(* What a work queue of this program promises.  Items that were never      *)
(* queued before are put at the rear of a FIFO queue; a taker with empty   *)
(* hands removes the item at the front; an item leaves its taker's hands   *)
(* only by being finished.  So every item is handed to at most one taker,  *)
(* once, in the order in which items were put, and none is lost.           *)
(*                                                                         *)
(* The server's buffer of connections (ServerPool) and the crawler's queue *)
(* of pages (CrawlQueue) are both shown to implement this specification;   *)
(* neither uses locks, conditions or counters in its promise.              *)
(***************************************************************************)
EXTENDS Integers, Sequences

CONSTANTS
  Items,     \* what is queued
  Takers,    \* the threads that take
  Capacity,  \* the length the queue never exceeds, or Unbounded
  Unbounded, \* the Capacity of a queue without a limit
  None       \* empty hands

VARIABLES
  queue,     \* the items waiting, front first
  hand,      \* hand[t]: the item taker t is working on, or None
  done       \* the finished items

vars == <<queue, hand, done>>

Queued(i) == \E k \in 1..Len(queue) : queue[k] = i
Held(i) == \E t \in Takers : hand[t] = i
HasRoom == Capacity = Unbounded \/ Len(queue) < Capacity

Init ==
  /\ queue = <<>>
  /\ hand = [t \in Takers |-> None]
  /\ done = {}

(* A new item enters at the rear. *)
Put(i) ==
  /\ HasRoom
  /\ ~ Queued(i)
  /\ ~ Held(i)
  /\ i \notin done
  /\ queue' = Append(queue, i)
  /\ UNCHANGED <<hand, done>>

(* An idle taker receives the item at the front. *)
Take(t) ==
  /\ hand[t] = None
  /\ queue # <<>>
  /\ hand' = [hand EXCEPT ![t] = Head(queue)]
  /\ queue' = Tail(queue)
  /\ UNCHANGED done

(* A taker is done with its item. *)
Finish(t) ==
  /\ hand[t] # None
  /\ done' = done \cup {hand[t]}
  /\ hand' = [hand EXCEPT ![t] = None]
  /\ UNCHANGED queue

Next ==
  \/ \E i \in Items : Put(i)
  \/ \E t \in Takers : Take(t) \/ Finish(t)

Spec == Init /\ [][Next]_vars
=============================================================================
