------------------------------ MODULE StepTick ------------------------------
(***************************************************************************)
(* What happens within a block: Planner::prepare turns the shape of a move *)
(* into fixed point rates of each motor, StepTicker::step_tick adds them   *)
(* up tick by tick and pulses a motor whenever its sum passes 1.0, and a   *)
(* second interrupt ends the pulses.                                       *)
(*                                                                         *)
(* The step interrupt preempts everything, the unstep interrupt as well.   *)
(* A motor may be stopped between two ticks, by an endstop or a probe.     *)
(* Which block comes next, and when, is left open (Motion models it).      *)
(***************************************************************************)
EXTENDS Integers, FiniteSets

CONSTANTS
    Motors,
    Lathe,                      \* motors callback_fnc may step, the lathe's
    Scale,                      \* STEPTICKER_FPSCALE, 1.0 in fixed point
    Shapes,                     \* of the blocks, see ShapeOK
    MaxSteps,                   \* bound: length of a block
    MaxBlocks, MaxForced        \* bounds: blocks, steps of callback_fnc

\* Speeds in steps per tick of the longest axis, scaled, and the ticks at which
\* they change.
ShapeOK(h) ==
    /\ {h.initial, h.maximum, h.final} \subseteq 0 .. Scale
    /\ h.initial <= h.maximum /\ h.final <= h.maximum
    /\ h.accelerate_until \in 0 .. h.decelerate_after
    /\ h.decelerate_after \in 0 .. h.total_move_ticks
    /\ h.total_move_ticks \in Nat

ASSUME TickAssumption ==
    /\ IsFiniteSet(Motors) /\ Lathe \subseteq Motors
    /\ Scale \in Nat \ {0} /\ \A h \in Shapes : ShapeOK(h)
    /\ MaxSteps \in Nat /\ MaxBlocks \in Nat /\ MaxForced \in Nat

VARIABLES
    running,
    exec,                       \* current_block with its tick_info, and
                                \*   current_tick
    moving,                     \* the motors with StepperMotor::moving
    halted,
    pin,                        \* the motors whose step pin is high
    unstep,                     \* the motors to unstep
    timer,                      \* the unstep timer: ready, started, or how far
                                \*   its interrupt is
    looking,                    \* the motors unstep_tick has still to look at
    blocks, forced,             \* blocks taken, steps callback_fnc has made
    exact,                      \* history: each block that has ended gave each
                                \*   motor its steps, but for motors stopped
    raced,                      \* history: the motors whose last step was made
                                \*   by a tick that fell into unstep_tick
    merged                      \* history: why steps have found their pin high

pulses == <<pin, unstep, timer, looking>>
history == <<exact, raced, merged>>
vars == <<running, exec, moving, halted, pulses, blocks, forced, history>>

NoBlock == [steps |-> [m \in Motors |-> 0], steps_event_count |-> 0,
            initial |-> 0, maximum |-> 0, final |-> 0, accelerate_until |-> 0,
            decelerate_after |-> 0, total_move_ticks |-> 0]

Lengths == {l \in [steps : [Motors -> 0 .. MaxSteps],
                   steps_event_count : 1 .. MaxSteps] :
                /\ \A m \in Motors : l.steps[m] <= l.steps_event_count
                /\ \E m \in Motors : l.steps[m] = l.steps_event_count}

Block(l, h) ==
    [steps |-> l.steps, steps_event_count |-> l.steps_event_count,
     initial |-> h.initial, maximum |-> h.maximum, final |-> h.final,
     accelerate_until |-> h.accelerate_until,
     decelerate_after |-> h.decelerate_after,
     total_move_ticks |-> h.total_move_ticks]

\* The blocks with a step that calculate_trapezoid can make.
Blocks == {Block(l, h) : l \in Lengths, h \in Shapes}

-----------------------------------------------------------------------------
(***************************************************************************)
(* Planner::prepare                                                        *)
(***************************************************************************)

Rounded(x, n, d) == (2 * x * n + d) \div (2 * d)     \* round(x * n / d)

PerTick(change, ticks) == IF ticks = 0 THEN 0 ELSE Rounded(change, 1, ticks)

Acceleration(b) == PerTick(b.maximum - b.initial, b.accelerate_until)
Deceleration(b) ==
    PerTick(b.maximum - b.final, b.total_move_ticks - b.decelerate_after)

\* A mistake the checks must notice: a block that only decelerates waits for an
\* event.
FirstEventLate(b) ==
    IF b.accelerate_until # 0 THEN b.accelerate_until
    ELSE IF b.decelerate_after # b.total_move_ticks THEN b.decelerate_after + 1
    ELSE b.total_move_ticks + 1

\* next_accel_event
FirstEvent(b) ==
    IF b.accelerate_until # 0 THEN b.accelerate_until
    ELSE IF b.decelerate_after \notin {0, b.total_move_ticks}
      THEN b.decelerate_after
    ELSE b.total_move_ticks + 1

FirstChange(b) ==
    IF b.accelerate_until # 0 THEN Acceleration(b)
    ELSE IF b.decelerate_after = 0 THEN -Deceleration(b) ELSE 0

Scaled(x, n, d) == IF x < 0 THEN -Rounded(-x, n, d) ELSE Rounded(x, n, d)

prepare(b) ==
    [m \in Motors |->
        LET Ratio(x) == IF b.steps[m] = 0 THEN 0
                        ELSE Scaled(x, b.steps[m], b.steps_event_count)
        IN  [steps_to_move |-> b.steps[m],
             steps_per_tick |-> Ratio(b.initial),
             counter |-> 0, step_count |-> 0,
             next_accel_event |-> FirstEvent(b),
             acceleration_change |-> Ratio(FirstChange(b)),
             deceleration_change |-> Ratio(-Deceleration(b)),
             plateau_rate |-> Ratio(b.maximum)]]

-----------------------------------------------------------------------------
(***************************************************************************)
(* One motor in one tick of step_tick: its rate, and whether it steps      *)
(***************************************************************************)

Accelerated(i) == [i EXCEPT !.steps_per_tick = @ + i.acceleration_change]

\* The end of acceleration; then the plateau, unless deceleration begins now.
AccelerationEnds(i, b, t) ==
    IF t # b.accelerate_until THEN i
    ELSE IF b.decelerate_after >= b.total_move_ticks
      THEN [i EXCEPT !.acceleration_change = 0]
    ELSE [i EXCEPT !.acceleration_change = 0,
                   !.next_accel_event = b.decelerate_after,
                   !.steps_per_tick = IF t # b.decelerate_after
                                        THEN i.plateau_rate ELSE @]

DecelerationBegins(i, b, t) ==
    IF t # b.decelerate_after THEN i
    ELSE [i EXCEPT !.acceleration_change = i.deceleration_change]

Event(i, b, t) ==
    IF t # i.next_accel_event THEN i
    ELSE DecelerationBegins(AccelerationEnds(i, b, t), b, t)

\* A mistake the checks must notice: only a negative rate forces a step.
ProtectedBelow(i) ==
    IF i.steps_per_tick < 0
      THEN [i EXCEPT !.counter = Scale, !.steps_per_tick = 0] ELSE i

\* A rate that has come down to nothing forces a step.
Protected(i) ==
    IF i.steps_per_tick <= 0
      THEN [i EXCEPT !.counter = Scale, !.steps_per_tick = 0] ELSE i

Summed(i) == [i EXCEPT !.counter = @ + i.steps_per_tick]

Advance(i, b, t) == Summed(Protected(Event(Accelerated(i), b, t)))

Steps(i) == i.counter >= Scale

Stepped(i) == [i EXCEPT !.counter = @ - Scale, !.step_count = @ + 1]

\* A mistake the checks must notice: the step after the last one is done, too.
DoneLate(i, is_moving) == ~is_moving \/ i.step_count > i.steps_to_move

\* The last of its steps, or the motor has been stopped from outside.
Done(i, is_moving) == ~is_moving \/ i.step_count = i.steps_to_move

-----------------------------------------------------------------------------
(***************************************************************************)
(* A block that is executed.  issued and after are histories: the pulses   *)
(* of each motor, and those since it was stopped (-1 if it was not).       *)
(***************************************************************************)

Fresh(b) == [block |-> b, tick_info |-> prepare(b), current_tick |-> 0,
             issued |-> [m \in Motors |-> 0], after |-> [m \in Motors |-> -1]]

Moves(b) == {m \in Motors : b.steps[m] # 0}

Active(e) == {m \in Motors : e.tick_info[m].steps_to_move # 0}

\* The motors' part of step_tick: who steps, who is done, who still moves.
Ticked(e, ms) ==
    LET next  == [m \in Active(e) |->
                     Advance(e.tick_info[m], e.block, e.current_tick)]
        steps == {m \in Active(e) : Steps(next[m])}
        done  == {m \in steps : Done(Stepped(next[m]), m \in ms)}
    IN  [steps |-> steps, moving |-> ms \ done,
         still_moving |-> Active(e) \cap (ms \ done) # {},
         exec |-> [block |-> e.block, current_tick |-> e.current_tick + 1,
                   tick_info |->
                     [m \in Motors |->
                        IF m \in done
                          THEN [Stepped(next[m]) EXCEPT !.steps_to_move = 0]
                        ELSE IF m \in steps THEN Stepped(next[m])
                        ELSE IF m \in Active(e) THEN next[m]
                        ELSE e.tick_info[m]],
                   issued |-> [m \in Motors |-> IF m \in steps
                                 THEN e.issued[m] + 1 ELSE e.issued[m]],
                   after |-> [m \in Motors |-> IF m \in steps /\ e.after[m] >= 0
                                THEN e.after[m] + 1 ELSE e.after[m]]]]

Exact(e) == \A m \in Motors :
                IF e.after[m] = -1 THEN e.issued[m] = e.block.steps[m]
                ELSE e.issued[m] <= e.block.steps[m] /\ e.after[m] <= 1

-----------------------------------------------------------------------------
(***************************************************************************)
(* step_tick, the interrupt                                                *)
(***************************************************************************)

\* A mistake the checks must notice: no failsafe.
NoFailsafe == pin

\* The pins still high when what the unstep interrupt has missed is unstepped.
Failsafe == pin \ unstep

\* callback_fnc, called in every tick, steps motor m of f, or none; when the
\* machine is halted Lathe::update_position takes itself out instead.
callback_fnc(f) ==
    \/ f = {} /\ UNCHANGED forced
    \/ /\ ~halted /\ forced < MaxForced /\ forced' = forced + 1
       /\ \E m \in Lathe : f = {m}

Callbacks == {{}} \cup {{m} : m \in Lathe}

\* Why a step finds its pin high, when callback_fnc steps the motors f and the
\* block the motors ms: it is the second of its tick, or the motor's last pulse
\* has not ended, one of a tick inside unstep_tick or one the failsafe missed.
Merging(f, ms) ==
    {"doubled" : m \in f \cap ms}
    \cup {IF m \in raced THEN "raced" ELSE "missed" :
            m \in Failsafe \cap (f \cup ms)}

\* Each sets the motor's pin and its bit.  unsteptimer_start has no effect while
\* the timer runs, or its interrupt has not ended.
Pulse(f, ms) ==
    /\ pin' = Failsafe \cup f \cup ms
    /\ unstep' = f \cup ms
    /\ timer' = IF f \cup ms # {} /\ timer = "ready" THEN "started" ELSE timer
    /\ raced' = IF timer = "looking" THEN raced \cup f \cup ms
                ELSE raced \ (f \cup ms)
    /\ merged' = merged \cup Merging(f, ms)
    /\ UNCHANGED looking

Rest == running' = FALSE /\ exec' = Fresh(NoBlock)

\* There is no block for the ticker, or one without a step, which is discarded.
TickIdle(f) ==
    /\ ~running /\ Rest
    /\ \/ UNCHANGED blocks
       \/ blocks < MaxBlocks /\ blocks' = blocks + 1
    /\ Pulse(f, {})
    /\ UNCHANGED <<moving, exact>>

\* The machine is halted while a block runs, or as the first one is taken.
TickHalted(f) ==
    /\ halted
    /\ \/ running /\ UNCHANGED <<moving, blocks>>
       \/ /\ ~running /\ blocks < MaxBlocks /\ blocks' = blocks + 1
          /\ \E ms \in SUBSET Motors : moving' = moving \cup ms
    /\ Rest /\ Pulse(f, {})
    /\ UNCHANGED exact

\* A tick of e, with the motors ms moving, when n blocks have been taken.  When
\* none moves any more the next block is taken at once, if there is one.
Tick(f, e, ms, n) ==
    \E r \in {Ticked(e, ms)} :
        /\ Pulse(f, r.steps)
        /\ \/ /\ r.still_moving
              /\ running' = TRUE /\ exec' = r.exec /\ moving' = r.moving
              /\ blocks' = n /\ UNCHANGED exact
           \/ /\ ~r.still_moving
              /\ exact' = (exact /\ Exact(r.exec))
              /\ \/ Rest /\ moving' = r.moving /\ blocks' = n
                 \/ /\ n < MaxBlocks /\ blocks' = n + 1
                    /\ running' = TRUE
                    /\ \E b \in Blocks : /\ moving' = r.moving \cup Moves(b)
                                       /\ exec' = Fresh(b)

TickStarts(f) ==
    /\ ~running /\ ~halted /\ blocks < MaxBlocks
    /\ \E b \in Blocks : Tick(f, Fresh(b), moving \cup Moves(b), blocks + 1)

TickRuns(f) == running /\ ~halted /\ Tick(f, exec, moving, blocks)

step_tick ==
    \E f \in Callbacks :
        /\ callback_fnc(f)
        /\ TickIdle(f) \/ TickHalted(f) \/ TickStarts(f) \/ TickRuns(f)
        /\ UNCHANGED halted

-----------------------------------------------------------------------------
(***************************************************************************)
(* unstep_tick, the other interrupt; a tick may fall between its steps     *)
(***************************************************************************)

UnstepBegins ==
    /\ timer = "started"
    /\ timer' = "looking" /\ looking' = Motors
    /\ UNCHANGED <<running, exec, moving, halted, pin, unstep, blocks, forced,
                   history>>

UnstepLooks ==
    /\ timer = "looking" /\ looking # {}
    /\ \E m \in looking :
           /\ looking' = looking \ {m}
           /\ pin' = IF m \in unstep THEN pin \ {m} ELSE pin
    /\ UNCHANGED <<running, exec, moving, halted, unstep, timer, blocks, forced,
                   history>>

UnstepClears ==
    /\ timer = "looking" /\ looking = {}
    /\ unstep' = {} /\ timer' = "ending"
    /\ UNCHANGED <<running, exec, moving, halted, pin, looking, blocks, forced,
                   history>>

\* The one-shot timer is disabled and ready again.
UnstepEnds ==
    /\ timer = "ending" /\ timer' = "ready"
    /\ UNCHANGED <<running, exec, moving, halted, pin, unstep, looking, blocks,
                   forced, history>>

unstep_tick == UnstepBegins \/ UnstepLooks \/ UnstepClears \/ UnstepEnds

-----------------------------------------------------------------------------
(***************************************************************************)
(* The rest of the program, between ticks                                  *)
(***************************************************************************)

\* An endstop or a probe stops a motor that moves.
Stop(m) ==
    /\ running /\ m \in moving \cap Active(exec)
    /\ moving' = moving \ {m}
    /\ exec' = [exec EXCEPT !.after[m] = 0]
    /\ UNCHANGED <<running, halted, pulses, blocks, forced, history>>

\* A halt; Robot::on_halt stops the motors.
Halt ==
    /\ ~halted /\ halted' = TRUE
    /\ UNCHANGED <<running, exec, moving, pulses, blocks, forced, history>>

Release ==
    /\ halted /\ halted' = FALSE /\ ~running /\ moving' = {}
    /\ UNCHANGED <<running, exec, pulses, blocks, forced, history>>

Init ==
    /\ running = FALSE /\ exec = Fresh(NoBlock)
    /\ moving = {} /\ halted = FALSE
    /\ pin = {} /\ unstep = {} /\ timer = "ready" /\ looking = {}
    /\ blocks = 0 /\ forced = 0
    /\ exact = TRUE /\ raced = {} /\ merged = {}

Next == \/ step_tick \/ unstep_tick
        \/ \E m \in Motors : Stop(m)
        \/ Halt \/ Release

Spec == Init /\ [][Next]_vars

-----------------------------------------------------------------------------
(***************************************************************************)
(* Properties                                                              *)
(***************************************************************************)

TickInfo ==
    [steps_to_move : Nat, steps_per_tick : Int, counter : Nat, step_count : Nat,
     next_accel_event : Nat, acceleration_change : Int,
     deceleration_change : Int, plateau_rate : Int]

BlockType ==
    [steps : [Motors -> Nat], steps_event_count : Nat, initial : Nat,
     maximum : Nat, final : Nat, accelerate_until : Nat, decelerate_after : Nat,
     total_move_ticks : Nat]

Execution ==
    [block : BlockType, tick_info : [Motors -> TickInfo], current_tick : Nat,
     issued : [Motors -> Nat], after : [Motors -> Nat \cup {-1}]]

TypeOK ==
    /\ running \in BOOLEAN /\ halted \in BOOLEAN /\ exec \in Execution
    /\ moving \subseteq Motors /\ pin \subseteq Motors /\ unstep \subseteq Motors
    /\ looking \subseteq Motors
    /\ timer \in {"ready", "started", "looking", "ending"}
    /\ blocks \in 0 .. MaxBlocks /\ forced \in 0 .. MaxForced
    /\ exact \in BOOLEAN /\ raced \subseteq Motors
    /\ merged \subseteq {"raced", "doubled", "missed"}

\* A block that ends has given each motor exactly its steps (StepTicker.cpp,
\* step_count against steps_to_move), whichever motor finishes first and however
\* its rate was rounded; a motor stopped from outside makes one step more at most.
StepsExact == exact

\* The rate of motor m when t ticks of block b are done, in closed form: it rises
\* for accelerate_until ticks, stays at the plateau until decelerate_after and
\* then falls, to 0 at worst.
RateAfter(b, m, t) ==
    LET a == b.accelerate_until
        d == b.decelerate_after
        Of(x) == Scaled(x, b.steps[m], b.steps_event_count)
        falls == d < b.total_move_ticks
        risen == IF a = 0 THEN Of(b.initial)
                 ELSE Of(b.initial) + (IF t <= a THEN t ELSE a + 1)
                                        * Of(Acceleration(b))
        level == IF a # 0 /\ a < t /\ a < d /\ falls THEN Of(b.maximum) ELSE risen
        ticks == CASE ~falls -> 0
                   [] falls /\ d = 0 -> t
                   [] falls /\ d > 0 /\ t > d -> t - 1 - d
                   [] OTHER -> 0
        rate  == level - ticks * Of(Deceleration(b))
    IN  IF rate > 0 THEN rate ELSE 0

\* The events of step_tick, which each motor keeps for itself, follow the shape
\* the planner has computed for the whole block: every motor has the rate the
\* shape gives it at that tick, whether there is a plateau, only one ramp, or two
\* that meet, and however many motors have ended or were stopped.
RatesFollowShape ==
    running => \A m \in Active(exec) :
                  exec.tick_info[m].steps_per_tick =
                      RateAfter(exec.block, m, exec.current_tick)

\* The pin of a motor is low when it steps, though the unstep interrupt may be
\* late by any number of ticks (the failsafe of step_tick).  There are two
\* exceptions: the motor's last step was made by a tick that fell into
\* unstep_tick, which then clears the bit of a pin it leaves high, or the
\* callback and the block step the motor in one tick.
PulsesDistinct == merged \subseteq {"raced", "doubled"}

\* A block ends, also when the planner's rounding leaves a motor no rate at all:
\* a tick brings every motor that still has to move nearer to its next step.
BlocksEnd ==
    running => exec.current_tick < Scale * exec.block.steps_event_count
=============================================================================
