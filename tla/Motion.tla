------------------------------- MODULE Motion -------------------------------
(***************************************************************************)
(* The motion pipeline: the command thread plans moves into the ring of    *)
(* blocks (Robot::delta_move, Planner::append_block), the step ticker      *)
(* interrupt executes them (StepTicker::step_tick with                     *)
(* Conveyor::get_next_block and block_finished), and a task that calls     *)
(* Module::broadcast_halt stops everything and resynchronises positions.   *)
(*                                                                         *)
(* Concurrency.  The interrupt has the highest priority: it is one atomic  *)
(* action, and may happen between any two steps of a thread.  A broadcast  *)
(* from a comms thread preempts the command thread until it is complete; a *)
(* broadcast from the timer task interleaves with it freely.               *)
(*                                                                         *)
(* Data.  One actuator stands for all of them, moving in one direction.  A *)
(* tick that issues no pulse only moves the fixed point accumulators and   *)
(* is a stuttering step.  Speeds are the subject of module Planner.        *)
(***************************************************************************)
EXTENDS PlannerQueue

CONSTANTS
    Ops,         \* what the command thread is asked to do, a subset of AllOps
    Halters,     \* who broadcasts a halt, a subset of AllHalters
    MaxMoves,    \* bound: moves appended in a behaviour
    MaxSteps,    \* bound: steps of one move
    MaxHalts,    \* bound: halts broadcast in a behaviour
    MaxTravel    \* bound: steps issued in a behaviour

AllOps == {"move", "wait", "flush", "jog"}
AllHalters == {"comms", "timer"}

ASSUME MotionAssumption ==
    /\ Ops \subseteq AllOps
    /\ Halters \subseteq AllHalters
    /\ MaxMoves \in Nat /\ MaxSteps \in Nat
    /\ MaxHalts \in Nat /\ MaxTravel \in Nat

VARIABLES
    m_rIndex, m_wIndex,   \* PlannerQueue: tail and head
    iter,                 \* PlannerQueue: the planner's iterator
    block,                \* PlannerQueue::m_buffer
    allow_fetch, hold_queue, continuous_mode, flush, halted, saved_block,
                          \* Conveyor
    module_halted,        \* Module::halted
    robot_halted,         \* Robot::halted
    running, current_block,
                          \* StepTicker
    moving, step_position, last_milestone,
                          \* StepperMotor: step_position is
                          \* get_current_step_position()
    pc, caller, todo, previous,
                          \* command thread: where it is, on whose behalf,
                          \* moves the jog has left, recalculate()'s local
    halter, halts,        \* the broadcasting task, halts broadcast so far
    moves                 \* moves appended so far, names the blocks

ringVars  == <<m_rIndex, m_wIndex, block>>
flagVars  == <<allow_fetch, hold_queue, continuous_mode, flush, halted,
               saved_block>>
haltVars  == <<module_halted, robot_halted, halter, halts>>
tickVars  == <<running, current_block>>
motorVars == <<moving, step_position, last_milestone>>
cmdVars   == <<pc, caller, todo, previous, iter, moves>>
vars == <<ringVars, flagVars, haltVars, tickVars, motorVars, cmdVars>>

NoBlock == -1                                   \* nullptr

Blocks == [move: Nat, era: Nat,                  \* history: which move, and
                                                \* halts begun when queued
          steps: Nat, steps_to_move: Nat, step_count: Nat,
          is_ready: BOOLEAN, is_ticking: BOOLEAN,
          recalculate_flag: BOOLEAN, locked: BOOLEAN]

\* Block::clear
ClearBlock == [move |-> 0, era |-> 0,
               steps |-> 0, steps_to_move |-> 0, step_count |-> 0,
               is_ready |-> FALSE, is_ticking |-> FALSE,
               recalculate_flag |-> FALSE, locked |-> FALSE]

NoHalter == [pc |-> "none", who |-> "comms", flg |-> FALSE]

Init ==
    /\ m_rIndex = 0 /\ m_wIndex = 0 /\ iter = 0
    /\ block = [s \in Slots |-> ClearBlock]
    /\ allow_fetch = FALSE /\ hold_queue = FALSE /\ continuous_mode = 0
    /\ flush = FALSE /\ halted = FALSE /\ saved_block = 0
    /\ module_halted = FALSE /\ robot_halted = FALSE
    /\ running = FALSE /\ current_block = NoBlock
    /\ moving = FALSE /\ step_position = 0 /\ last_milestone = 0
    /\ pc = "ready" /\ caller = "main" /\ todo = 0 /\ previous = 0
    /\ halter = NoHalter /\ halts = 0 /\ moves = 0

-----------------------------------------------------------------------------
(***************************************************************************)
(* The step ticker interrupt.                                              *)
(***************************************************************************)

\* Conveyor::get_next_block returns a block, with the tail at r and the
\* mode m.
CanGive(r, m) ==
    /\ ~hold_queue
    /\ ~flush
    /\ ~halted
    /\ ~empty(r, m_wIndex)
    /\ m > 1 \/ (allow_fetch /\ ~block[r].locked)

\* The tail that get_next_block leaves: a pending flush empties the queue.
FlushedTail(r) == IF flush /\ ~hold_queue THEN m_wIndex ELSE r

\* What get_next_block does to the block it gives; in continuous mode
\* Block::reset restores the tick info saved when the jog was set up.
\* A mistake the checks must notice: the repeated block is not reset.
FetchedOnce(b, m) ==
    [b EXCEPT !.is_ticking = TRUE, !.recalculate_flag = FALSE]

Fetched(b, m) ==
    LET fresh == IF m > 1
                   THEN [b EXCEPT !.steps_to_move = saved_block,
                                  !.step_count = 0]
                   ELSE b
    IN  [fresh EXCEPT !.is_ticking = TRUE, !.recalculate_flag = FALSE]

\* step_tick while nothing runs and get_next_block has nothing to give.
TickIdle ==
    /\ ~running
    /\ ~CanGive(m_rIndex, continuous_mode)
    /\ m_rIndex' = FlushedTail(m_rIndex)
    /\ flush' = (flush /\ hold_queue)
    /\ UNCHANGED <<m_wIndex, block, allow_fetch, hold_queue, continuous_mode,
                   halted, saved_block, tickVars, motorVars, haltVars,
                   cmdVars>>

\* step_tick fetches the tail and start_next_block starts the motors; when
\* Module::halted is set the same tick drops the block again.
TickStart ==
    /\ ~running
    /\ CanGive(m_rIndex, continuous_mode)
    /\ block' = [block EXCEPT ![m_rIndex] = Fetched(@, continuous_mode)]
    /\ running' = ~module_halted
    /\ current_block' = IF module_halted THEN NoBlock ELSE m_rIndex
    /\ moving' = TRUE
    /\ UNCHANGED <<m_rIndex, m_wIndex, flagVars, step_position,
                   last_milestone, haltVars, cmdVars>>

\* step_tick finds the system halted while a block runs.
TickHalted ==
    /\ running
    /\ module_halted
    /\ running' = FALSE
    /\ current_block' = NoBlock
    /\ UNCHANGED <<ringVars, flagVars, motorVars, haltVars, cmdVars>>

\* step_tick issues a pulse and the block goes on.
TickStep ==
    /\ running
    /\ ~module_halted
    /\ step_position < MaxTravel
    /\ moving
    /\ block[current_block].step_count + 1
         # block[current_block].steps_to_move
    /\ block' = [block EXCEPT ![current_block].step_count = @ + 1]
    /\ step_position' = step_position + 1
    /\ UNCHANGED <<m_rIndex, m_wIndex, flagVars, tickVars, moving,
                   last_milestone, haltVars, cmdVars>>

\* The block after its last tick, with or without a pulse.
Ended(b, pulse) ==
    [b EXCEPT !.step_count = @ + pulse,
              !.steps_to_move = IF pulse = 1 THEN 0 ELSE @]

\* The tail and the mode that Conveyor::block_finished leaves.
\* A mistake the checks must notice: the tail is released twice.
FinishedTailTwice ==
    IF continuous_mode <= 1 THEN next(next(m_rIndex)) ELSE m_rIndex

FinishedTail == IF continuous_mode <= 1 THEN next(m_rIndex) ELSE m_rIndex

FinishedMode == IF continuous_mode = 1 THEN 2 ELSE continuous_mode

\* step_tick sees no motor moving any more, after the last pulse of the block
\* or because the motor was stopped externally (with or without a pulse in
\* this tick): block_finished, then get_next_block and start_next_block
\* without leaving the interrupt.
TickEnd ==
    /\ running
    /\ ~module_halted
    /\ step_position < MaxTravel
    /\ \E pulse \in {0, 1} :
         LET done == [block EXCEPT ![current_block] = Ended(@, pulse)]
             r == FinishedTail
             m == FinishedMode
         IN  /\ moving => /\ pulse = 1
                          /\ block[current_block].step_count + 1
                               = block[current_block].steps_to_move
             /\ step_position' = step_position + pulse
             /\ running' = CanGive(r, m)
             /\ moving' = CanGive(r, m)
             /\ IF CanGive(r, m)
                  THEN /\ m_rIndex' = r
                       /\ current_block' = r
                       /\ block' = [done EXCEPT ![r] = Fetched(@, m)]
                       /\ UNCHANGED flush
                  ELSE /\ m_rIndex' = FlushedTail(r)
                       /\ current_block' = NoBlock
                       /\ block' = done
                       /\ flush' = (flush /\ hold_queue)
             /\ continuous_mode' = m
    /\ UNCHANGED <<m_wIndex, allow_fetch, hold_queue, halted, saved_block,
                   last_milestone, haltVars, cmdVars>>

StepTick == TickIdle \/ TickStart \/ TickHalted \/ TickStep \/ TickEnd

-----------------------------------------------------------------------------
(***************************************************************************)
(* The command thread.  It does not run while a comms thread is inside     *)
(* broadcast_halt.                                                         *)
(***************************************************************************)

CmdRuns == halter.pc = "none" \/ halter.who = "timer"

At(label) == pc = label /\ CmdRuns

\* append_milestone returns to its caller: the jog makes its next move.
MoveReturns ==
    /\ pc' = IF caller = "jog" THEN IF todo > 0 THEN "check" ELSE "mode"
                               ELSE "loop"
    /\ todo' = IF todo > 0 THEN todo - 1 ELSE 0

\* Conveyor::check_queue; timeout says that queue_delay_time_ms has elapsed.
CheckQueue(force, timeout) ==
    allow_fetch' =
        IF empty(m_rIndex, m_wIndex) THEN FALSE
        ELSE IF ~flush /\ (force \/ timeout \/ full(m_rIndex, m_wIndex))
             THEN TRUE
             ELSE allow_fetch

\* The end of an iteration of the command loop.
CmdLoop(timeout) ==
    /\ At("loop")
    /\ CheckQueue(FALSE, timeout)
    /\ pc' = "ready"
    /\ UNCHANGED <<ringVars, hold_queue, continuous_mode, flush, halted,
                   saved_block, haltVars, tickVars, motorVars, caller, todo,
                   previous, iter, moves>>

\* The command loop receives no command in time.
CmdNone ==
    /\ At("ready")
    /\ pc' = "loop"
    /\ UNCHANGED <<ringVars, flagVars, haltVars, tickVars, motorVars, caller,
                   todo, previous, iter, moves>>

\* A command that makes one move.
CmdMove ==
    /\ At("ready") /\ "move" \in Ops
    /\ moves < MaxMoves
    /\ pc' = "check" /\ caller' = "main"
    /\ UNCHANGED <<ringVars, flagVars, haltVars, tickVars, motorVars,
                   todo, previous, iter, moves>>

\* A command that calls wait_for_idle, or a jog, which begins with it.
CmdWait(op) ==
    /\ At("ready") /\ op \in Ops \cap {"wait", "jog"}
    /\ op = "jog" => moves + 3 <= MaxMoves
    /\ pc' = "wait_empty" /\ caller' = op
    /\ UNCHANGED <<ringVars, flagVars, haltVars, tickVars, motorVars,
                   todo, previous, iter, moves>>

\* Conveyor::flush_queue up to its call of wait_for_idle(false).
CmdFlush ==
    /\ At("ready") /\ "flush" \in Ops
    /\ allow_fetch' = FALSE
    /\ flush' = TRUE
    /\ pc' = "wait_empty" /\ caller' = "flush"
    /\ UNCHANGED <<ringVars, hold_queue, continuous_mode, halted, saved_block,
                   haltVars, tickVars, motorVars, todo, previous, iter, moves>>

\* Conveyor::wait_for_idle, first loop: force the queue to run until it is
\* empty.  flush_queue then clears the flag and returns; the others go on to
\* wait for the motors.
CmdWaitEmpty ==
    /\ At("wait_empty")
    /\ IF empty(m_rIndex, m_wIndex)
         THEN /\ pc' = IF caller = "flush" THEN "loop" ELSE "wait_motors"
              /\ flush' = IF caller = "flush" THEN FALSE ELSE flush
              /\ UNCHANGED allow_fetch
         ELSE CheckQueue(TRUE, FALSE) /\ UNCHANGED <<pc, flush>>
    /\ UNCHANGED <<ringVars, hold_queue, continuous_mode, halted, saved_block,
                   haltVars, tickVars, motorVars, caller, todo, previous,
                   iter, moves>>

\* Conveyor::is_idle
is_idle == empty(m_rIndex, m_wIndex) /\ ~moving

\* wait_for_idle, second loop, and what each caller does when it returns:
\* the jog holds the queue and makes its three moves, a jog that ends takes
\* its position from the actuators.
CmdWaitMotors ==
    /\ At("wait_motors")
    /\ is_idle
    /\ IF caller = "jog"
         THEN pc' = "check" /\ todo' = 2 /\ hold_queue' = TRUE
         ELSE pc' = "loop" /\ UNCHANGED <<todo, hold_queue>>
    /\ last_milestone' =
         IF caller = "jog_end" THEN step_position ELSE last_milestone
    /\ UNCHANGED <<ringVars, allow_fetch, continuous_mode, flush, halted,
                   saved_block, haltVars, tickVars, moving, step_position,
                   caller, previous, iter, moves>>

\* Robot::delta_move and append_milestone give up in halt state.
CmdCheck ==
    /\ At("check")
    /\ IF robot_halted \/ module_halted
         THEN MoveReturns
         ELSE pc' = "clear" /\ UNCHANGED todo
    /\ UNCHANGED <<ringVars, flagVars, haltVars, tickVars, motorVars, caller,
                   previous, iter, moves>>

\* The block of a move of n steps.
NewBlock(n) ==
    IF n = 0 THEN ClearBlock
    ELSE [ClearBlock EXCEPT !.move = moves + 1, !.steps = n,
                            !.recalculate_flag = TRUE]

\* append_block builds the move in the head block and takes its steps into
\* the actuator's last milestone; a move too small for a step is kept for
\* the next one.
CmdClear ==
    /\ At("clear")
    /\ \E n \in 0 .. MaxSteps :
         /\ block' = [block EXCEPT ![m_wIndex] = NewBlock(n)]
         /\ last_milestone' = last_milestone + n
         /\ IF n = 0
              THEN MoveReturns /\ UNCHANGED moves
              ELSE pc' = "recalculate" /\ moves' = moves + 1 /\ UNCHANGED todo
    /\ UNCHANGED <<m_rIndex, m_wIndex, flagVars, haltVars, tickVars, moving,
                   step_position, caller, previous, iter>>

\* recalculate: start_iteration; with an empty queue only the head is planned.
CmdRecalculate ==
    /\ At("recalculate")
    /\ iter' = m_wIndex
    /\ previous' = m_wIndex
    /\ pc' = IF empty(m_rIndex, m_wIndex) THEN "trapezoid" ELSE "reverse"
    /\ UNCHANGED <<ringVars, flagVars, haltVars, tickVars, motorVars, caller,
                   todo, moves>>

\* recalculate, step 1: walk tailwards to the tail or to the first block that
\* needs no recalculation.  The tail is read live: the interrupt moves it.
CmdReverse ==
    /\ At("reverse")
    /\ IF iter # m_rIndex /\ block[iter].recalculate_flag
         THEN iter' = prev(iter) /\ UNCHANGED pc
         ELSE pc' = "forward" /\ UNCHANGED iter
    /\ UNCHANGED <<ringVars, flagVars, haltVars, tickVars, motorVars, caller,
                   todo, previous, moves>>

\* recalculate, step 2: walk headwards; forward_pass may settle the block's
\* entry speed, then the block before it gets its trapezoid.  At the head the
\* trapezoid of the head itself is the last one (step 3).
CmdForward ==
    /\ At("forward")
    /\ pc' = "trapezoid"
    /\ previous' = iter
    /\ IF iter # m_wIndex
         THEN /\ iter' = next(iter)
              /\ \E settled \in BOOLEAN :
                   block' = [block EXCEPT ![next(iter)].recalculate_flag =
                                            @ /\ ~settled]
         ELSE UNCHANGED <<iter, block>>
    /\ UNCHANGED <<m_rIndex, m_wIndex, flagVars, haltVars, tickVars,
                   motorVars, caller, todo, moves>>

\* After calculate_trapezoid: the head's trapezoid is the last.
AfterTrapezoid == pc' = IF previous = m_wIndex THEN "publish" ELSE "forward"

\* calculate_trapezoid leaves a block alone that is executing.
CmdTrapezoid ==
    /\ At("trapezoid")
    /\ IF block[previous].is_ticking THEN AfterTrapezoid ELSE pc' = "lock"
    /\ UNCHANGED <<ringVars, flagVars, haltVars, tickVars, motorVars, caller,
                   todo, previous, iter, moves>>

\* calculate_trapezoid: the float arithmetic is done, the block is locked.
CmdLock ==
    /\ At("lock")
    /\ block' = [block EXCEPT ![previous].locked = TRUE]
    /\ pc' = "prepare"
    /\ UNCHANGED <<m_rIndex, m_wIndex, flagVars, haltVars, tickVars,
                   motorVars, caller, todo, previous, iter, moves>>

\* Planner::prepare writes the tick info of the locked block.
CmdPrepare ==
    /\ At("prepare")
    /\ block' = [block EXCEPT ![previous].steps_to_move =
                                block[previous].steps,
                              ![previous].step_count = 0]
    /\ pc' = "unlock"
    /\ UNCHANGED <<m_rIndex, m_wIndex, flagVars, haltVars, tickVars,
                   motorVars, caller, todo, previous, iter, moves>>

CmdUnlock ==
    /\ At("unlock")
    /\ block' = [block EXCEPT ![previous].locked = FALSE]
    /\ AfterTrapezoid
    /\ UNCHANGED <<m_rIndex, m_wIndex, flagVars, haltVars, tickVars,
                   motorVars, caller, todo, previous, iter, moves>>

\* append_block: the block is ready; if a halt arrived it is cleared instead.
CmdPublish ==
    /\ At("publish")
    /\ IF module_halted
         THEN /\ block' = [block EXCEPT ![m_wIndex] = ClearBlock]
              /\ MoveReturns
         ELSE /\ block' = [block EXCEPT ![m_wIndex].is_ready = TRUE]
              /\ pc' = "queue_head"
              /\ UNCHANGED todo
    /\ UNCHANGED <<m_rIndex, m_wIndex, flagVars, haltVars, tickVars,
                   motorVars, caller, previous, iter, moves>>

\* append_block: PlannerQueue::queue_head commits the head; when the queue is
\* full the command thread sleeps.
CmdQueueHead ==
    /\ At("queue_head")
    /\ IF full(m_rIndex, m_wIndex)
         THEN pc' = "stalled" /\ UNCHANGED <<todo, m_wIndex, block>>
         ELSE /\ m_wIndex' = next(m_wIndex)
              /\ block' = [block EXCEPT ![m_wIndex].era = halts]
              /\ MoveReturns
    /\ UNCHANGED <<m_rIndex, flagVars, haltVars, tickVars, motorVars, caller,
                   previous, iter, moves>>

\* append_block, after the sleep: give up on a halt, else have the queue run.
CmdStalled ==
    /\ At("stalled")
    /\ IF module_halted
         THEN /\ block' = [block EXCEPT ![m_wIndex] = ClearBlock]
              /\ MoveReturns
              /\ UNCHANGED allow_fetch
         ELSE /\ \E timeout \in BOOLEAN : CheckQueue(FALSE, timeout)
              /\ pc' = "queue_head"
              /\ UNCHANGED <<todo, block>>
    /\ UNCHANGED <<m_rIndex, m_wIndex, hold_queue, continuous_mode, flush,
                   halted, saved_block, haltVars, tickVars, motorVars, caller,
                   previous, iter, moves>>

\* Conveyor::set_continuous_mode(true): with three blocks held on the queue
\* the second one's tick info is saved, else the jog releases the hold and
\* fails.
ThreeQueued == m_rIndex \notin {m_wIndex, prev(m_wIndex),
                                prev(prev(m_wIndex))}

CmdJogMode ==
    /\ At("mode")
    /\ IF hold_queue /\ ThreeQueued
         THEN /\ iter' = prev(prev(m_wIndex))
              /\ saved_block' = block[prev(prev(m_wIndex))].steps_to_move
              /\ pc' = "jog_start"
              /\ UNCHANGED hold_queue
         ELSE /\ hold_queue' = FALSE
              /\ pc' = "loop"
              /\ UNCHANGED <<iter, saved_block>>
    /\ UNCHANGED <<ringVars, allow_fetch, continuous_mode, flush, halted,
                   haltVars, tickVars, motorVars, caller, todo, previous,
                   moves>>

\* set_continuous_mode(true) ends, the hold is released and the queue forced.
\* A mistake the checks must notice: the first block is repeated.
CmdJogStartRepeating ==
    /\ At("jog_start")
    /\ continuous_mode' = 2
    /\ pc' = "jog_run"
    /\ UNCHANGED <<ringVars, allow_fetch, hold_queue, flush, halted,
                   saved_block, haltVars, tickVars, motorVars, caller, todo,
                   previous, iter, moves>>

CmdJogStart ==
    /\ At("jog_start")
    /\ continuous_mode' = 1
    /\ pc' = "jog_run"
    /\ UNCHANGED <<ringVars, allow_fetch, hold_queue, flush, halted,
                   saved_block, haltVars, tickVars, motorVars, caller, todo,
                   previous, iter, moves>>

CmdJogRun ==
    /\ At("jog_run")
    /\ hold_queue' = FALSE
    /\ CheckQueue(TRUE, FALSE)
    /\ pc' = "jogging"
    /\ UNCHANGED <<ringVars, continuous_mode, flush, halted, saved_block,
                   haltVars, tickVars, motorVars, caller, todo, previous,
                   iter, moves>>

\* The jog is asked to stop, or sees a halt: set_continuous_mode(false) first
\* leaves the mode ...
\* A mistake the checks must notice: the tick info is freed first.
CmdJogStopFreeing ==
    /\ At("jogging")
    /\ saved_block' = 0
    /\ pc' = "jog_free"
    /\ UNCHANGED <<ringVars, allow_fetch, hold_queue, flush, halted,
                   continuous_mode, haltVars, tickVars, motorVars, caller,
                   todo, previous, iter, moves>>

CmdJogStop ==
    /\ At("jogging")
    /\ continuous_mode' = 0
    /\ pc' = "jog_free"
    /\ UNCHANGED <<ringVars, allow_fetch, hold_queue, flush, halted,
                   saved_block, haltVars, tickVars, motorVars, caller, todo,
                   previous, iter, moves>>

\* ... then frees the saved tick info; the jog waits for the machine to stop.
CmdJogFree ==
    /\ At("jog_free")
    /\ saved_block' = 0
    /\ pc' = "wait_empty" /\ caller' = "jog_end"
    /\ UNCHANGED <<ringVars, allow_fetch, hold_queue, continuous_mode, flush,
                   halted, haltVars, tickVars, motorVars, todo, previous,
                   iter, moves>>

CmdRequest == CmdMove \/ CmdFlush \/ \E op \in {"wait", "jog"} : CmdWait(op)

CmdStep ==
    \/ CmdNone \/ CmdWaitEmpty \/ CmdWaitMotors
    \/ CmdCheck \/ CmdClear \/ CmdRecalculate \/ CmdReverse \/ CmdForward
    \/ CmdTrapezoid \/ CmdLock \/ CmdPrepare \/ CmdUnlock
    \/ CmdPublish \/ CmdQueueHead \/ CmdStalled
    \/ CmdJogMode \/ CmdJogStart \/ CmdJogRun \/ CmdJogStop \/ CmdJogFree

-----------------------------------------------------------------------------
(***************************************************************************)
(* Module::broadcast_halt, in a comms thread or the timer task.  The       *)
(* registry is an ordered map, so the conveyor hears of it before the      *)
(* robot does.  A halt is released by hand, ticks after it began: the      *)
(* interrupt has noticed it and has flushed the queue, unless that is held.*)
(***************************************************************************)

HaltNoticed == ~running /\ (flush => hold_queue)

\* Module::halted is set, on^X, the kill button, ... and reset by $X, M999.
HaltBegin(who, flg) ==
    /\ halter.pc = "none"
    /\ flg # module_halted
    /\ IF flg THEN halts < MaxHalts ELSE HaltNoticed
    /\ halter' = [pc |-> "conveyor", who |-> who, flg |-> flg]
    /\ module_halted' = flg
    /\ halts' = IF flg THEN halts + 1 ELSE halts
    /\ UNCHANGED <<robot_halted, ringVars, flagVars, tickVars, motorVars,
                   cmdVars>>

\* Mistakes the checks must notice: Conveyor::on_halt empties the queue itself,
\* does not stop the conveyor, does not flush it, or leaves it stopped.
ConveyorOnHalt(tail, stopped, flushed) ==
    /\ halter.pc = "conveyor"
    /\ halter' = [halter EXCEPT !.pc = "robot"]
    /\ m_rIndex' = tail
    /\ halted' = stopped
    /\ flush' = flushed
    /\ continuous_mode' = IF halter.flg THEN 0 ELSE continuous_mode
    /\ hold_queue' = (hold_queue /\ ~halter.flg)
    /\ UNCHANGED <<allow_fetch, saved_block, module_halted, robot_halted,
                   halts, m_wIndex, block, tickVars, motorVars, cmdVars>>

HaltConveyorEmptying ==
    ConveyorOnHalt(IF halter.flg THEN m_wIndex ELSE m_rIndex, halter.flg,
                   flush)

HaltConveyorFetching ==
    ConveyorOnHalt(m_rIndex, FALSE, flush \/ halter.flg)

HaltConveyorKeeping == ConveyorOnHalt(m_rIndex, halter.flg, flush)

HaltConveyorStuck == ConveyorOnHalt(m_rIndex, TRUE, flush \/ halter.flg)

\* Conveyor::on_halt
HaltConveyor ==
    /\ halter.pc = "conveyor"
    /\ halter' = [halter EXCEPT !.pc = "robot"]
    /\ halted' = halter.flg
    /\ IF halter.flg
         THEN flush' = TRUE /\ continuous_mode' = 0 /\ hold_queue' = FALSE
         ELSE UNCHANGED <<flush, continuous_mode, hold_queue>>
    /\ UNCHANGED <<allow_fetch, saved_block, module_halted, robot_halted,
                   halts, ringVars, tickVars, motorVars, cmdVars>>

\* Robot::on_halt stops every motor.
\* A mistake the checks must notice: the motors stay marked as moving.
HaltRobotMoving ==
    /\ halter.pc = "robot"
    /\ halter' = IF halter.flg THEN [halter EXCEPT !.pc = "position"]
                               ELSE NoHalter
    /\ robot_halted' = halter.flg
    /\ UNCHANGED <<module_halted, halts, ringVars, flagVars, tickVars,
                   motorVars, cmdVars>>

HaltRobot ==
    /\ halter.pc = "robot"
    /\ halter' = IF halter.flg THEN [halter EXCEPT !.pc = "position"]
                               ELSE NoHalter
    /\ robot_halted' = halter.flg
    /\ moving' = (moving /\ ~halter.flg)
    /\ UNCHANGED <<module_halted, halts, ringVars, flagVars, tickVars,
                   step_position, last_milestone, cmdVars>>

\* reset_position_from_current_actuator_position ends a halt broadcast.
HaltPosition ==
    /\ halter.pc = "position"
    /\ halter' = NoHalter
    /\ last_milestone' = step_position
    /\ UNCHANGED <<module_halted, robot_halted, halts, ringVars, flagVars,
                   tickVars, moving, step_position, cmdVars>>

HaltStep == HaltConveyor \/ HaltRobot \/ HaltPosition

-----------------------------------------------------------------------------
Next ==
    \/ StepTick
    \/ \E timeout \in BOOLEAN : CmdLoop(timeout)
    \/ CmdRequest
    \/ CmdStep
    \/ \E who \in Halters, flg \in BOOLEAN : HaltBegin(who, flg)
    \/ HaltStep

Spec == Init /\ [][Next]_vars

\* The timer interrupt keeps firing, the threads are scheduled, and a command
\* loop that keeps coming round does so after queue_delay_time_ms at last.
Fairness ==
    /\ WF_vars(StepTick)
    /\ WF_vars(CmdStep)
    /\ WF_vars(\E timeout \in BOOLEAN : CmdLoop(timeout))
    /\ SF_vars(CmdLoop(TRUE))
    /\ WF_vars(HaltStep)

FairSpec == Spec /\ Fairness

\* The operator releases every halt in the end.
ReleaseSpec ==
    FairSpec /\ WF_vars(\E who \in Halters : HaltBegin(who, FALSE))
-----------------------------------------------------------------------------
(***************************************************************************)
(* Properties.                                                             *)
(***************************************************************************)

Labels == {"ready", "loop", "wait_empty", "wait_motors", "check", "clear",
           "recalculate", "reverse", "forward", "trapezoid", "lock",
           "prepare", "unlock", "publish", "queue_head", "stalled",
           "mode", "jog_start", "jog_run", "jogging", "jog_free"}

Callers == {"main", "wait", "flush", "jog", "jog_end"}

IndexOK ==
    /\ m_rIndex \in Slots /\ m_wIndex \in Slots
    /\ iter \in Slots /\ previous \in Slots
    /\ current_block \in Slots \cup {NoBlock}

BlockOK == block \in [Slots -> Blocks]

FlagOK ==
    /\ allow_fetch \in BOOLEAN /\ hold_queue \in BOOLEAN
    /\ flush \in BOOLEAN /\ halted \in BOOLEAN
    /\ module_halted \in BOOLEAN /\ robot_halted \in BOOLEAN
    /\ running \in BOOLEAN /\ moving \in BOOLEAN

CountOK ==
    /\ continuous_mode \in 0 .. 2 /\ saved_block \in Nat
    /\ step_position \in Nat /\ last_milestone \in Nat
    /\ todo \in 0 .. 2 /\ halts \in Nat /\ moves \in Nat

PlaceOK ==
    /\ pc \in Labels /\ caller \in Callers
    /\ halter \in [pc: {"none", "conveyor", "robot", "position"},
                   who: AllHalters, flg: BOOLEAN]

TypeOK == IndexOK /\ BlockOK /\ FlagOK /\ CountOK /\ PlaceOK

\* Planner::append_block from the first block field it writes to the commit.
Building == {"recalculate", "reverse", "forward", "trapezoid", "lock",
             "prepare", "unlock", "publish", "queue_head", "stalled"}

\* The block the interrupt executes is the tail of the queue, it was handed
\* over complete, and the planner sees that it must leave it alone; the
\* planner's head is never that block (Conveyor.cpp:171, PlannerQueue.h:51).
ExecutesTail ==
    IF running
      THEN /\ current_block = m_rIndex
           /\ ~empty(m_rIndex, m_wIndex)
           /\ block[current_block].is_ready
           /\ block[current_block].is_ticking
           /\ ~block[current_block].recalculate_flag
      ELSE current_block = NoBlock

\* Every block on the queue is ready and still has steps to move, so
\* start_next_block never meets the zero step block that "should never happen"
\* (StepTicker.cpp:318), in continuous mode either.
NoEmptyBlock ==
    \A s \in Queued(m_rIndex, m_wIndex) :
        block[s].is_ready /\ block[s].steps > 0 /\ block[s].steps_to_move > 0

\* The planner never rewrites a block that is executing: "if block is
\* currently executing, don't touch anything!" (Planner.cpp:348).
LeavesExecutingAlone ==
    ~ (pc = "prepare" /\ running /\ current_block = previous)

\* Once a halt has been broadcast and the queue cleared, nothing is put on the
\* queue until the halt is released (Planner.cpp:222).
HaltedQueueEmpty ==
    module_halted /\ halter.pc = "none" /\ ~flush
        => empty(m_rIndex, m_wIndex)

\* After a halt the planner's position is the actuators' position
\* (Module.cpp:99) when the next command begins.
HaltResyncsPosition ==
    module_halted /\ halter.pc = "none" /\ pc = "ready"
        => last_milestone = step_position

\* No motor is left marked as moving when nothing runs it: is_idle would
\* never be true again and wait_for_idle would hang.  A halted block leaves
\* its motors so until Robot::on_halt, later in the same broadcast.
NoMotorLeftMoving == moving => running \/ halter.pc # "none"

\* The saved tick info exists for as long as the interrupt may restore it
\* (Conveyor.cpp:196).
SavedWhileContinuous == continuous_mode # 0 => saved_block # 0

\* While a jog repeats its middle block the deceleration block waits behind it
\* and nothing else is queued, so the stop request that ends the repetition
\* always brings the machine to rest through it (CommandShell.cpp:1436).
JogKeepsDeceleration ==
    continuous_mode = 2 => Depth(m_rIndex, m_wIndex) = 2

\* A block queued before a halt never moves the machine after the release.
HaltDropsMoves ==
    [][step_position' # step_position
         => block[current_block].era = halts]_vars

\* A command always comes to its end: append_block finds room, wait_for_idle
\* and flush_queue see the queue empty.
CommandReturns == pc # "ready" ~> pc = "ready"

\* Whatever is put on the queue is executed, without another command.
QueueDrains == ~is_idle ~> is_idle

\* Steps still to be issued for the first n blocks of the queue with the tail
\* at r, for the blocks in b.
StepsDue(b) == b.steps_to_move - b.step_count

StepsFrom(r, b) ==
    LET sum[n \in Slots] ==
            IF n = 0 THEN 0 ELSE sum[n - 1] + StepsDue(b[SlotAt(r, n - 1)])
    IN  sum

\* ... for all of them and the block being planned at the head.
StepsPending ==
    StepsFrom(m_rIndex, block)[Depth(m_rIndex, m_wIndex)]
      + (IF pc \in Building THEN block[m_wIndex].steps ELSE 0)

\* Without halts, flushes and jogs no step the planner has taken into the
\* actuator's milestone is ever lost.
NoStepsLost == step_position + StepsPending >= last_milestone

\* The blocks on the queue as the sequence of their moves, tail first.
MovesFrom(r, w, b) ==
    [i \in 1 .. Depth(r, w) |-> b[SlotAt(r, i - 1)].move]

QueuedMoves == MovesFrom(m_rIndex, m_wIndex, block)

Fifo == INSTANCE MotionFifo WITH
            Move <- 1 .. MaxMoves,
            queue <- QueuedMoves,
            active <- IF running THEN block[current_block].move ELSE 0

\* The ring, its two indices and the block flags implement the queue of moves:
\* nothing is executed out of order or twice, and nothing leaves the queue
\* except by being finished or in a flush (PlannerQueue.h, Conveyor.cpp).
ImplementsFifo == Fifo!Spec
=============================================================================
