----------------------------- MODULE MotionFifo -----------------------------
(***************************************************************************)
(* What the motion pipeline promises its callers: moves are executed in    *)
(* the order they were queued, one at a time; a move leaves the queue only *)
(* when it is finished, or with all the others when the queue is cleared.  *)
(***************************************************************************)
EXTENDS Naturals, Sequences

CONSTANT Move                    \* move numbers, from 1

VARIABLES queue,                 \* moves queued and not finished, in order
          active                 \* the move being executed, or 0

fifoVars == <<queue, active>>

Init == queue = <<>> /\ active = 0

\* A later move than any on the queue is committed.
Commit(m) ==
    /\ \A i \in 1 .. Len(queue) : queue[i] < m
    /\ queue' = Append(queue, m)
    /\ UNCHANGED active

Start ==
    /\ active = 0 /\ queue # <<>>
    /\ active' = Head(queue)
    /\ UNCHANGED queue

\* A halt stops the move being executed, it stays on the queue.
Stop ==
    /\ active # 0
    /\ active' = 0
    /\ UNCHANGED queue

\* The move being executed ends; the next one may start at once.
Finish ==
    /\ active # 0
    /\ queue' = Tail(queue)
    /\ active' \in IF queue' = <<>> THEN {0} ELSE {0, Head(queue')}

\* The queue is cleared, by the tick that ends a move or between two moves.
Clear ==
    /\ queue' = <<>>
    /\ active' = 0

Next == (\E m \in Move : Commit(m)) \/ Start \/ Stop \/ Finish \/ Clear

Spec == Init /\ [][Next]_fifoVars
=============================================================================
