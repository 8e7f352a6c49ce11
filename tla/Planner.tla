------------------------------ MODULE Planner -------------------------------
(***************************************************************************)
(* Planner::append_block and Planner::recalculate: the speeds at the       *)
(* junctions of the moves on the queue.                                    *)
(*                                                                         *)
(* Every speed is kept as its square.  The code only compares speeds,      *)
(* takes minima of them, and computes max_allowable_speed, which is        *)
(* sqrt(v*v + 2*acceleration*distance): on squares that is the addition of *)
(* the block's gain, and all of it is exact in integers.                   *)
(*                                                                         *)
(* Blocks are numbered in the order they are queued and stay where they    *)
(* are; the ring they live in is the subject of module Motion.             *)
(***************************************************************************)
EXTENDS Integers, Sequences

CONSTANTS
    Gains,        \* squared speed a move can gain or lose, 2 * a * millimeters
    Nominals,     \* squared nominal speeds
    MinSpeed,     \* squared minimum_planner_speed
    MaxBlocks,    \* bound: moves planned in a behaviour
    MaxPreempts   \* bound: blocks the step ticker starts or finishes while
                  \* recalculate() runs

ASSUME PlannerAssumption ==
    /\ Gains \subseteq Nat \ {0} /\ Nominals \subseteq Nat \ {0}
    /\ MinSpeed \in Nat /\ MaxBlocks \in Nat /\ MaxPreempts \in Nat

VARIABLES
    block,        \* the blocks, block[queued + 1] is the head while planning
    tail,         \* number of the block at the tail
    queued,       \* blocks committed so far
    pc, iter, previous, speed,     \* recalculate()'s place and locals
    preempts      \* history: how often recalculate() was interrupted so

vars == <<block, tail, queued, pc, iter, previous, speed, preempts>>

least(a, b) == IF a < b THEN a ELSE b

head == queued + 1

isEmpty == tail = head

Init ==
    /\ block = <<>> /\ tail = 1 /\ queued = 0
    /\ pc = "idle" /\ iter = 1 /\ previous = 1 /\ speed = 0
    /\ preempts = 0

\* Planner::max_allowable_speed
max_allowable_speed(gain, target) == target + gain

\* The junction speeds append_block may compute: minimum_planner_speed after
\* an idle machine, a non primary move or a sharp corner, otherwise anything
\* up to the slower of the two moves.
Junctions(nominal) ==
    IF isEmpty THEN {MinSpeed}
    ELSE {MinSpeed} \cup 0 .. least(block[queued].nominal_speed, nominal)

\* append_block, up to its call of recalculate().
Append_block(gain, nominal) ==
    /\ pc = "idle"
    /\ queued < MaxBlocks
    /\ \E vmax_junction \in Junctions(nominal) :
         LET v_allowable == max_allowable_speed(gain, MinSpeed)
         IN  block' = Append(block,
                [gain |-> gain, nominal_speed |-> nominal,
                 max_entry_speed |-> vmax_junction,
                 entry_speed |-> least(vmax_junction, v_allowable),
                 initial_rate |-> 0, exit_speed |-> 0,
                 nominal_length_flag |-> nominal <= v_allowable,
                 recalculate_flag |-> TRUE, is_ticking |-> FALSE])
    /\ pc' = "recalculate"
    /\ UNCHANGED <<tail, queued, iter, previous, speed, preempts>>

Recalculate ==
    /\ pc = "recalculate"
    /\ iter' = head /\ previous' = head /\ speed' = MinSpeed
    /\ pc' = IF isEmpty THEN "trapezoid" ELSE "reverse"
    /\ UNCHANGED <<block, tail, queued, preempts>>

\* Planner::reverse_pass: the entry speed of a block that has to leave at
\* exit_speed.
reverse_pass(b, exit_speed) ==
    IF b.entry_speed = b.max_entry_speed THEN b.entry_speed
    ELSE IF ~b.nominal_length_flag /\ b.max_entry_speed > exit_speed
         THEN least(max_allowable_speed(b.gain, exit_speed),
                    b.max_entry_speed)
         ELSE b.max_entry_speed

\* A mistake the checks must notice: the walk does not end at the tail.
ReversePastTail ==
    /\ pc = "reverse"
    /\ block[iter].recalculate_flag
    /\ LET entry == reverse_pass(block[iter], speed)
       IN  /\ block' = [block EXCEPT ![iter].entry_speed = entry]
           /\ speed' = entry
    /\ iter' = iter - 1
    /\ UNCHANGED <<tail, queued, pc, previous, preempts>>

Reverse ==
    /\ pc = "reverse"
    /\ iter # tail /\ block[iter].recalculate_flag
    /\ LET entry == reverse_pass(block[iter], speed)
       IN  /\ block' = [block EXCEPT ![iter].entry_speed = entry]
           /\ speed' = entry
    /\ iter' = iter - 1
    /\ UNCHANGED <<tail, queued, pc, previous, preempts>>

\* Planner::max_exit_speed
\* A mistake the checks must notice: the executing block is planned again.
max_exit_speedAnew(b) ==
    IF b.nominal_length_flag THEN b.nominal_speed
    ELSE least(max_allowable_speed(b.gain, b.entry_speed), b.nominal_speed)

max_exit_speed(b) ==
    IF b.is_ticking THEN b.exit_speed
    ELSE IF b.nominal_length_flag THEN b.nominal_speed
    ELSE least(max_allowable_speed(b.gain, b.entry_speed), b.nominal_speed)

\* The walk to the tail ends: the exit speed of the block it ends at.
Turn ==
    /\ pc = "reverse"
    /\ iter = tail \/ ~block[iter].recalculate_flag
    /\ speed' = max_exit_speed(block[iter])
    /\ pc' = "forward"
    /\ UNCHANGED <<block, tail, queued, iter, previous, preempts>>

\* Planner::forward_pass: the block after its predecessor's exit speed is
\* known.
\* Mistakes the checks must notice: every block counts as settled; an entry
\* follows the previous block's exit upwards too.
forward_passSettling(b, prev_max_exit_speed) ==
    LET exit == least(prev_max_exit_speed,
                      least(b.nominal_speed, b.max_entry_speed))
    IN  [b EXCEPT !.entry_speed = least(@, exit), !.recalculate_flag = FALSE]

forward_passRaising(b, prev_max_exit_speed) ==
    [b EXCEPT !.entry_speed =
        least(prev_max_exit_speed, least(b.nominal_speed, b.max_entry_speed))]

forward_pass(b, prev_max_exit_speed) ==
    LET exit == least(prev_max_exit_speed,
                      least(b.nominal_speed, b.max_entry_speed))
    IN  IF exit <= b.entry_speed
          THEN [b EXCEPT !.entry_speed = exit, !.recalculate_flag = FALSE]
          ELSE b

Forward ==
    /\ pc = "forward"
    /\ previous' = iter
    /\ pc' = "trapezoid"
    /\ IF iter = head
         THEN UNCHANGED <<block, iter, speed>>
         ELSE LET b == forward_pass(block[iter + 1], speed)
              IN  /\ block' = [block EXCEPT ![iter + 1] = b]
                  /\ speed' = max_exit_speed(b)
                  /\ iter' = iter + 1
    /\ UNCHANGED <<tail, queued, preempts>>

\* After calculate_trapezoid: the head's is the last, append_block then
\* commits the head.
AfterTrapezoid ==
    IF previous = head
      THEN pc' = "idle" /\ queued' = queued + 1
      ELSE pc' = "forward" /\ UNCHANGED queued

\* calculate_trapezoid leaves an executing block alone.
Trapezoid ==
    /\ pc = "trapezoid"
    /\ IF block[previous].is_ticking
         THEN AfterTrapezoid
         ELSE pc' = "write" /\ UNCHANGED queued
    /\ UNCHANGED <<block, tail, iter, previous, speed, preempts>>

\* calculate_trapezoid with the block locked: the speeds it starts and ends
\* at become its profile.
WriteTrapezoid ==
    /\ pc = "write"
    /\ block' = [block EXCEPT
         ![previous].initial_rate = block[previous].entry_speed,
         ![previous].exit_speed =
             IF previous = head THEN MinSpeed
                                ELSE block[previous + 1].entry_speed]
    /\ AfterTrapezoid
    /\ UNCHANGED <<tail, iter, previous, speed, preempts>>

-----------------------------------------------------------------------------
\* The step ticker is free to interrupt, also in the middle of recalculate().
Interrupts ==
    IF pc = "idle" THEN UNCHANGED preempts
                   ELSE preempts < MaxPreempts /\ preempts' = preempts + 1

Fetched(b) == [b EXCEPT !.is_ticking = TRUE, !.recalculate_flag = FALSE]

\* The step ticker starts the tail.
StartBlock ==
    /\ Interrupts /\ ~isEmpty
    /\ ~block[tail].is_ticking
    /\ block' = [block EXCEPT ![tail] = Fetched(@)]
    /\ UNCHANGED <<tail, queued, pc, iter, previous, speed>>

\* The step ticker finishes the tail and starts the next block, if any.
FinishBlock ==
    /\ Interrupts /\ ~isEmpty
    /\ block[tail].is_ticking
    /\ tail' = tail + 1
    /\ block' = IF tail' = head THEN block
                ELSE [block EXCEPT ![tail'] = Fetched(@)]
    /\ UNCHANGED <<queued, pc, iter, previous, speed>>

Next ==
    \/ \E gain \in Gains, nominal \in Nominals : Append_block(gain, nominal)
    \/ Recalculate \/ Reverse \/ Turn \/ Forward
    \/ Trapezoid \/ WriteTrapezoid
    \/ StartBlock \/ FinishBlock

Spec == Init /\ [][Next]_vars

-----------------------------------------------------------------------------
Blocks == [gain: Nat, nominal_speed: Nat, max_entry_speed: Nat,
           entry_speed: Nat, initial_rate: Nat, exit_speed: Nat,
           nominal_length_flag: BOOLEAN, recalculate_flag: BOOLEAN,
           is_ticking: BOOLEAN]

TypeOK ==
    /\ block \in Seq(Blocks)
    /\ tail \in 1 .. head /\ queued \in Nat
    /\ Len(block) \in {queued, head}
    /\ pc \in {"idle", "recalculate", "reverse", "forward", "trapezoid",
               "write"}
    /\ iter \in 1 .. Len(block) + 1 /\ previous \in 1 .. Len(block) + 1
    /\ speed \in Nat
    /\ preempts \in 0 .. MaxPreempts

\* No block is planned to enter faster than its junction allows, nor so fast
\* that it could not reach the slowest speed by the end of the queue; and a
\* profile never asks a block for more than its acceleration and its nominal
\* speed (Planner.cpp:189, 442, 466).
Feasible ==
    pc = "idle" =>
        \A i \in tail .. queued :
            LET b == block[i]
            IN  /\ b.initial_rate <= b.max_entry_speed
                /\ b.exit_speed <= b.initial_rate + b.gain
                /\ b.initial_rate <= b.exit_speed + b.gain
                /\ b.exit_speed <= b.nominal_speed
                /\ i = queued => b.exit_speed = MinSpeed

\* Each move starts at the speed the one before it ends with: "this ensures
\* that a block following a currently executing block will have correct entry
\* speed" (Planner.cpp:493).
SpeedContinuous ==
    pc = "idle" =>
        \A i \in tail .. queued - 1 :
            block[i].exit_speed = block[i + 1].initial_rate

\* So it is as long as blocks start and end between calls of recalculate()
\* only, whichever of them have.
PlannedContinuous == preempts = 0 => SpeedContinuous

\* The junctions from the first that is still open; the speed there is given:
\* the executing block ends with it, or the tail has yet to start.
Open == IF block[tail].is_ticking THEN tail + 1 ELSE tail

OpenSpeed == IF block[tail].is_ticking THEN block[tail].exit_speed
                                       ELSE block[tail].initial_rate

\* A plan v gives the speeds at the junctions behind that one; its speed at i.
Passed(v, i) == IF i = Open THEN OpenSpeed
                ELSE IF i > queued THEN MinSpeed ELSE v[i]

\* No junction and no acceleration forbids the plan.
Drivable(v) ==
    /\ \A i \in Open + 1 .. queued : v[i] <= block[i].max_entry_speed
    /\ \A i \in Open .. queued :
          /\ Passed(v, i) <= Passed(v, i + 1) + block[i].gain
          /\ Passed(v, i + 1) <= Passed(v, i) + block[i].gain

Speeds == UNION {0 .. nominal : nominal \in Nominals}

\* recalculate() skips blocks by its recalculate and nominal length flags, and
\* still finds the fastest plan for every queue, whichever blocks have started
\* and ended between its calls (Planner.cpp:252, 194): no other plan that can
\* be driven passes any junction faster.
PlanIsFastest ==
    pc = "idle" /\ preempts = 0 /\ ~isEmpty =>
        LET behind == Open + 1 .. queued
            plan == [i \in behind |-> block[i].initial_rate]
        IN  /\ Drivable(plan)
            /\ \A v \in [behind -> Speeds] :
                  Drivable(v) => \A i \in behind : v[i] <= plan[i]
=============================================================================
