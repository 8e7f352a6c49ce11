---------------------------- MODULE PlannerQueue ----------------------------
(***************************************************************************)
(* The index arithmetic of robot/PlannerQueue.h: a ring of Blocks with one *)
(* producer (the planner, in the command thread, owns the head index       *)
(* m_wIndex) and one consumer (the step ticker interrupt, owns the tail    *)
(* index m_rIndex).  One slot is always free: it is the block being built  *)
(* at the head, so the ring of m_size slots queues at most m_size - 1.     *)
(*                                                                         *)
(* The operators take the indices as arguments because the interrupt       *)
(* evaluates them at an index it has just moved.                           *)
(***************************************************************************)
EXTENDS Integers

CONSTANT m_size                 \* slots in the ring (planner_queue_size)

ASSUME SizeAssumption == m_size \in Nat \ {0, 1}

Slots == 0 .. m_size - 1

next(n) == (n + 1) % m_size

\* A mistake the checks must notice: the first slot has no predecessor.
prevUnwrapped(n) == n - 1

prev(n) == IF n = 0 THEN m_size - 1 ELSE n - 1

empty(r, w) == r = w

\* A mistake the checks must notice: the last slot never counts as full.
fullUnwrapped(r, w) == w + 1 = r

full(r, w) == next(w) = r

\* The slots between the tail and the head: the blocks on the queue.
Queued(r, w) ==
    IF r <= w THEN {s \in Slots : r <= s /\ s < w}
              ELSE {s \in Slots : r <= s \/ s < w}

\* Position of slot s counted from the tail r.
Depth(r, s) == IF r <= s THEN s - r ELSE s - r + m_size

\* The slot at position d counted from the tail r.
SlotAt(r, d) == IF r + d < m_size THEN r + d ELSE r + d - m_size
=============================================================================
