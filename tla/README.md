# SmoothieV2 in TLA+

Specifications of the SmoothieV2 firmware (`src/Firmware/src`), model-checked
with TLC, with proofs checked by TLAPS. Paths below are relative to
`src/Firmware/src` unless they start with `src/`.

The firmware turns lines of G code into step pulses for several motors on a
microcontroller. What makes it hard is not a protocol but its concurrency: a
step interrupt, other interrupts and half a dozen FreeRTOS tasks share state
through flags and indices, almost never under a lock, and a halt may come from
any of them at any time.

## 1. Inventory

### Who runs when

| context | priority | what it runs |
|---|---|---|
| step timer interrupt | 0, highest (`src/Firmware/Hal/src/tmr-setup.c:97`) | `StepTicker::step_tick` |
| unstep timer interrupt | 1 (`:100`) | `StepTicker::unstep_tick` |
| fast ticker interrupt | 5 (`:244`) | `FastTicker` callbacks |
| comms tasks (USB, UART, shell) | 3 (`Consoles.h:23`) | `process_command_buffer`, control characters |
| command thread | 2 (`Consoles.h:25`) | `command_handler`: every G code and shell command |
| timer task | 1 (`src/Firmware/RTOS/include/FreeRTOSConfig.h:90`) | `SlowTicker` and the timers of kill button, temperature, switches |
| play thread | 1 | `Player::player_thread` |

So the step interrupt sees any thread between any two instructions and is
itself atomic to them. A comms task preempts the command thread and finishes
before it goes on (unless it blocks). The timer task and the play thread run
only while the command thread sleeps or waits, but are preempted by it at any
point, so their work interleaves with it freely.

### The parts

| part | state | operations | hard because | correct when |
|---|---|---|---|---|
| PlannerQueue (`robot/PlannerQueue.h`) | ring of blocks, head and tail index, iterator | `get_head`, `queue_head`, `get_tail`, `release_tail`, iteration | the interrupt moves the tail while the planner iterates | first in first out, nothing lost, the head is nobody else's |
| Block (`robot/Block.*`) | steps, speeds, tick info, flags | `clear`, `ready`, `reset` | written by planner and interrupt; flags share a word | complete before it is handed over, left alone while it executes |
| Conveyor (`robot/Conveyor.*`) | `allow_fetch`, `hold_queue`, `flush`, `halted`, `continuous_mode`, `saved_block` | `check_queue`, `wait_for_idle`, `flush_queue`, `get_next_block`, `block_finished`, `set_continuous_mode`, `on_halt` | each flag is written by several contexts | everything queued is executed or flushed, nobody waits for ever |
| StepTicker (`robot/StepTicker.*`) | `running`, `current_block`, `current_tick`, `unstep` | `step_tick`, `start_next_block`, `unstep_tick` | starts the next block in the tick that ends one | exactly the planned number of steps, in order |
| Planner (`robot/Planner.*`) | the blocks' speeds | `append_block`, `recalculate`, `calculate_trapezoid`, `prepare` | plans blocks the interrupt may start meanwhile | feasible, continuous, as fast as allowed |
| Robot, StepperMotor (`robot/Robot.*`, `robot/StepperMotor.*`) | positions in machine, actuator and step coordinates | `delta_move`, `append_milestone`, `append_line`, `append_arc`, `on_halt`, `reset_position_...` | the planner's position runs ahead of the actuator's | both agree whenever nothing moves |
| Module (`Module.*`) | registry, `halted` | `broadcast_halt` and other broadcasts | several tasks may broadcast | every module ends with the last broadcast's value |
| Consoles (`Consoles.*`), MessageQueue, OutputStream | line buffers, queue of lines, ring of queries, stop and done flags | `process_command_buffer`, `command_handler`, `handle_query`, `safe_sleep` | a line outlives its connection, several producers | each line answered once, streams live until answered |
| Dispatcher, GCodeProcessor | handlers, modal group, line number | `dispatch`, `parse` | halt state, resend | nothing but the allowed codes while halted |
| Player | `playing_file`, `abort_thread`, `suspended`, ... | play, abort, suspend, resume | flags shared by two threads | abort and suspend always end, state is restored once |
| KillButton | button state | timer callback | halts from the timer task | one press one halt, released once |
| Endstops, ZProbe | homing state, debounce counters | home, probe, limit switches | interrupt-time detection stops motors the planner has counted on | position set from where the motor stopped |
| TemperatureControl, Switch, TemperatureSwitch, FilamentDetector, Extruder | targets, states | M codes, timers | wait loops and halts | a wait ends, a runaway is found |
| SlowTicker, FastTicker | callbacks | attach, detach, tick | registration against the interrupt | each callback at its rate |
| MemoryPool | regions | alloc, dealloc | no lock is taken | regions tile the pool, free ones merge |
| Laser, Lathe, arm solutions, probe strategies, PID, thermistors | floating point state | | numerics | left to tests, but for the lathe's steps inside the step interrupt |
| Configuration, displays, pendants, drivers, network services, HAL, RTOS, USB, TCP/IP, FatFS | | | I/O, vendor code | not modelled |

`PROJECT.json` lists the same parts with their files, and under `hazards` what
can go wrong in them that a test would hardly reach.

### How a move travels

The command thread parses a line, `Robot` computes a target,
`Planner::append_block` builds the move in the head block, re-plans the queue
and commits the block with `queue_head`. Nothing runs until
`Conveyor::check_queue` allows the fetch: when the queue is full, or has waited
`queue_delay_time_ms`, or somebody waits for it to empty. From then on the step
interrupt takes the tail (`get_next_block`), executes it and releases it
(`block_finished`). A halt sets `Module::halted`, then visits the modules in the
order of their names: `Conveyor` asks the interrupt to flush the queue, `Robot`
stops the motors; at last the planner's position is reset to the actuators'.
A continuous jog holds the queue, puts three blocks on it, saves the tick info
of the second and has the interrupt repeat that one until it is told to stop.

## 2. Modules

| module | kind | of what |
|---|---|---|
| `PlannerQueue` | operators | the ring's index arithmetic, the set of queued slots |
| `Motion` | specification | command thread, step interrupt and halting task on the ring; the refinement mapping to `MotionFifo` |
| `MotionFifo` | abstract specification | what the pipeline promises: a queue of moves |
| `Halt` | specification | `broadcast_halt` called by several tasks at once |
| `KillButton` | specification | the kill button's state machine, composed with `Halt` |
| `MCHalt`, `MCKillButton` | for TLC | the firmware's tasks and priorities |
| `Planner` | specification | junction speeds and look-ahead planning |
| `StepTick` | specification | inside a block: ramp events, fixed point sums, pulses, the unstep interrupt |
| `Consoles` | specification | comms tasks, message queue, ring of queries, command thread |
| `Shell` | specification | network connections, composed with `Consoles` |
| `Player` | specification | play task, its commands, suspend and resume, halts |
| `Heater` | specification | one heater: commands, readings, runaway check, halts |
| `MemoryPool` | specification | allocation and release in a pool |
| `MCStepTick`, `MCShell`, `MCMemoryPool` | for TLC | shapes of blocks, a console with two connections, a small pool |
| `Motion_proofs` | theorems | the inductive invariant of `Motion`, the refinement of `MotionFifo`, steps conserved |
| `Planner_proofs` | theorems | plans are feasible, continuous and the fastest there are |
| `StepTick_proofs` | theorems | exact steps, planned rates, distinct pulses |
| `KillButton_proofs` | theorems | what broadcasts and the button guarantee, for any tasks |
| `Shell_proofs` | theorems | order of lines, genuine queries, streams that outlive their commands |
| `Player_proofs` | theorems | order of a file's lines, late lines, the saved state |
| `Heater_proofs`, `MemoryPool_proofs` | theorems | halts and runaways, the tiling of a pool |

`Shell` extends `Consoles`, and `KillButton` extends `Halt`: each composes a
component with the one it calls. `Player` and `Heater` carry the part of the
command thread and of `broadcast_halt` they meet.

### Motion

State and code:

| variables | code |
|---|---|
| `m_rIndex`, `m_wIndex`, `iter`, `block` | `PlannerQueue`'s fields (`m_buffer` is `block`) |
| `allow_fetch` ... `halted`, `saved_block` | `Conveyor`'s fields; `saved_block` is the `steps_to_move` saved, 0 for `nullptr` |
| `module_halted`, `robot_halted` | `Module::halted`, `Robot::halted` |
| `running`, `current_block` | `StepTicker` |
| `moving`, `step_position`, `last_milestone` | `StepperMotor` (`get_current_step_position()`, `last_milestone_steps`) |
| `pc`, `caller`, `todo`, `previous` | place and locals of the command thread |
| `halter`, `halts` | place of the task in `broadcast_halt`, number of halts so far |
| `moves`, and `move`, `era` of a block | history: number of the move, number of halts begun when it was queued |

The command thread is cut where another context may see a difference: the
emptiness test of each wait loop, each step of `recalculate`'s two walks (they
read the tail live), the test of `is_ticking`, the lock, the writes of
`prepare`, the unlock, the halt test and the commit in `append_block`.
The interrupt is one action per tick: `TickIdle`, `TickStart`, `TickHalted`,
`TickStep`, `TickEnd`; `TickEnd` is the whole of `block_finished`,
`get_next_block` and `start_next_block`. A tick without a pulse changes only
fixed point accumulators and is a stuttering step.

Taken as one step, or left out:

- each write of a flag is atomic. The flags of `Conveyor` and of a block are bit
  fields of one word, and a lost update of one is not modelled here (`Heater` models
  one such byte);
- the emptiness test and the write of `allow_fetch` in `check_queue`; the two
  halt tests of `delta_move` and `append_milestone`; `steps_to_target` with
  `update_last_milestones`; the three writes of `Conveyor::on_halt`;
- the first tick of a block is apart from its fetch, and a jog's `stop_request`
  may arrive at any time;
- one actuator stands for all, in one direction; moves of several actuators, and
  the ramp, are in `StepTick`;
- the branch of `start_next_block` for a block without steps is absent:
  `NoEmptyBlock`, proved and checked, shows it is never reached;
- `Conveyor::running` (set once at start up), `current_feedrate`, compensation
  transforms (a jog turns them off), a jog that finds its stop request already
  there (it returns at once), halts raised by the command thread itself (they
  look like a halt from a comms task while the command thread is between two
  commands);
- a failed `set_continuous_mode` leaves the iterator elsewhere; every user of
  the iterator starts by setting it;
- one broadcast at a time; overlapping ones are the subject of module `Halt`;
- a halt is released by a person, so not before the interrupt has noticed it:
  `HaltNoticed` asks for one tick to have passed, at least one hundred thousand
  of which pass in a second. While the queue is held a flush stays pending, and
  the release may come first.

### MotionFifo

The promise: moves start in the order they were committed, one at a time; a move
leaves the queue by finishing, or with all the others by a clear. `Motion`
maps the slots between tail and head to the sequence of their moves, and the
executing block to `active`. The mapping is exact in continuous mode as well:
repeating a block is a stutter, never a `Finish`.

### Halt

`module_halted`, `conveyor_halted` and `robot_halted` are the three copies of
the flag, `step` and `flg` each task's place in `broadcast_halt` and its
argument. A task tests `is_halted()` and decides in one step (`Raise`,
`Release`) and makes the call in later ones, so it may act on a flag that has
changed. `Untested` tasks also halt without a test, as a G code error or a limit
switch does. `lost` says that `Robot::on_halt` has stopped the actuators and
nobody has resynchronised the positions since; `clashed` is history, set when a
broadcast begins inside one of the other direction. `Runs` is the scheduler:
strictly higher priorities first, equal ones time sliced. A broadcast does not
block in the model; one that did would only add interleavings, and the theorems
hold for any.

Listeners without a copy of the flag act on a halt only: the heater's is in `Heater`,
the player's in `Player`, those of switches, laser, lathe and filament detector are
left out.

### KillButton

`state` and `unkill_timer` are the fields, `killed` the local that `button_tick`
reads first, `pressed` the pin. A tick is two steps, the read of the flag and the
rest, one action per state; the broadcast it asks for is then carried out by
`Halt`'s actions. The pin is read at most once a tick and may change at any time
between. The timer task runs one callback at a time, so nothing else of it
happens inside a tick. `held` is history: at how many ticks in a row the button
was down.

### Planner

`append_block` and `recalculate` with their speeds. The code compares speeds,
takes minima, and computes `sqrt(v*v + 2*a*d)`. Keeping the square of every speed
makes all three exact in integers, with no loss: the square is monotone on
speeds, which are not negative. `gain` is a block's `2*a*d`. Where
`append_block` computes a junction speed from the angle, the model takes any
value up to the smaller nominal speed (`Junctions`). `MaxPreempts` says how
often the step interrupt may start or finish blocks inside `recalculate`, and
`preempts` counts. Blocks keep
their numbers; the ring and the races of hand-over are in `Motion`.

`PlanIsFastest` compares the finished plan with every other one: a plan gives a speed to
each junction behind the one whose speed is already fixed (`Open`: the end of the executing block,
or the start of a tail that has yet to start), and is `Drivable` when no
junction's limit and no block's acceleration forbids it.

### StepTick

`exec` is `current_block` with its `tick_info` and `current_tick`; `moving`, `pin` and
`unstep` are sets of motors where the code has flags and a bit mask. `prepare` is
`Planner::prepare`, `Ticked` the loop over the motors in `step_tick`, with `Event`,
`Protected`, `Summed`, `Steps`, `Stepped`, `Done` in the order of its lines. The fixed point
numbers are integers with `Scale` for 1.0 (2^62 in the code, whose value no property
depends on). They do not wrap: 64 bits hold sums below 2.0, which would take a rate
above one step per tick, and `check_max_actuator_speeds` (`robot/Robot.cpp:736-749`) limits the
rates to that, but for the one increment a triangle may add. A shape is
what `calculate_trapezoid` makes of a move: three rates and three tick counts, any
that satisfy `ShapeOK`. The unstep interrupt is cut where the step interrupt, which has
the higher priority, may preempt it: start, one motor after the other, the
clearing of the mask, the end. `Stop` is `stop_moving` from an endstop or a probe between
two ticks. `callback_fnc` is the lathe: it may step its motor in any tick, also in
one in which a block runs that steps the same motor, for G33.1 installs it without
waiting for the queue (`modules/tools/lathe/Lathe.cpp:198-227`). Halted, the callback
is called as well, but `Lathe::update_position` returns without a step
(`Lathe.cpp:490`).

History: `exact` falls when a block ends and some motor that was not stopped has not its
steps (a stopped one may make one more). `raced` holds the motors whose last step was
made by a tick that fell into `unstep_tick`. `merged` collects why steps have found
their pin still high: `"doubled"` (callback and block stepped the motor in one tick),
`"raced"` (the pin was left high by such a tick), `"missed"` (anything else).

### Consoles and Shell

`messages` is the FreeRTOS queue, `slots`, `head`, `tail` the ring `queries`, `done` the flag of each
`OutputStream`. A query takes up to five steps, between any two of which another
comms task of the same priority may run, the command thread may not
(`CommandRuns`): the test of `full` (`Ask`; a line is copied after it,
`Consoles.cpp:330`), and then `push_back`, which reads `head` (`ReadHead`), stores there
(`Store`), reads `head` again for `next(head)` (`ReadAgain`) and moves it (`Advance`).
`head` is not volatile, so the compiler may use the first reading for both: `ReadAgain`
may be left out. `place` is how far each task is, `index` the head it has read.

The command thread's places are those of `command_handler`: receive, dispatch, the
queries it answers after, and the end, where it marks the stream done. Queries
are `?`, and `$I` or `$S` for the streams in `Texts`, which clear `done` as a line
does. What a line does is left out, but for two things: it may clear the flag
of its stream (`dispatch`), and for the streams in `Definers` it may begin a
subroutine. The lines of one (`Defined`), up to the one that ends it, return from
`dispatch_line` early: no query is answered after them and no done flag is set.

History: `unanswered` holds the queries stored and not popped yet, `skipped` the slots
that a push moves the head past without having stored there, `silent` the streams
whose last line went into a subroutine. `MaxSent` bounds what all streams send
together.

`Shell` adds the connections: `Accept`, `Data` (a read with up to two lines),
`Query`, `Gone`, the line that found no room (`waiting`) with its retries
(`Resubmit`, `GiveUp`), `close_shell` and the collector. A console's task waits
for room; the shell's does not. History: `hasty` holds the clients that did not
wait for an answer, `orphans` the streams closed without a line left to be done,
or that asked `$I`. `Forgotten` are the closed streams whose last line went into a
subroutine: they are never marked done.

### Player

The play task is below the command thread, so it runs only while that one waits
or sleeps (`PlayRuns`); its places are `fgets`, the test of the flags, the wait for room, the
send, the end, the close. `Threads` are the tasks there can be: `play` may create one
while a paused print's is still there (see `second`). The command thread executes lines
and commands, and its idle turns complete aborts (`Flushed`) and suspends (`Suspended`)
after `suspend_loops` of them. `Waited`, `Heated`, `Restored`, `Returned` are the steps of
`resume_command`, which sleeps in between. `state_stack` is `Robot`'s, of which a
host has pushed one. What a line or a temperature is is left out; so are
progress reports, and the positions a suspend saves.

History: `executed` is the last line executed, `late` how many since an abort or
suspend was completed (`stopped`), `aborted` the last play aborted, `second` says that a play
task began beside another, `hasty` that a suspend was ended before it was complete or
a halt fell into its completion or end.

### Heater

One heater. `command` and `check` are the places and locals of the command thread in
`handle_gcode` and of the timer task in `check_runaway`, `on_halt` how far each task is in
`TemperatureControl::on_halt`, whose two writes (pin, target) are two steps. A check
is cut at each access to what others write: the test of the halt (`CheckBegins`),
of the violation (`CheckViolated`), of the target (`CheckOff`), the reading (`CheckReads`),
the state (`CheckSwitch`), the comparison with the target (`CheckRunaway`) and the
write of the state (`LoadChecked`, `StoreChecked`). A halt may be released by any task at
any time (`Release`): M999 in the command thread, `^Y` or `$X` in comms, the kill button
in the timer task. A reading (`thermistor_read_tick` with `pid_process`) is one step, as an interrupt is to tasks;
it may drive the pin either way, for the controller's arithmetic is left open.
`runaway_state` and `temp_violated` share a byte: a task that writes one loads both
(`LoadByte`, `LoadChecked`) and later stores both. Priorities as in section 1.

History: `overtaken` says that a command set its target after the halt that ended
its wait, `torn` that the last writer of the pin was a reading between the
two writes of `on_halt`, `astray` counts the checks in a row that found the heater
out of range of the same target.

### MemoryPool

`heap` maps the address of each header (in words) to the length of its region and its
flag; walks from header to header are quantifiers over its domain, which the proof
shows to tile the pool. `Fits`, `Rest` and `Take` are the search and the split in
`alloc`, `NextFree`, `PrevFree` and `Combined` the merging in `dealloc`, with the exception
that the last region is never merged into a free one before it.

## 3. Runs

Runs that pass:

| run | shows |
|---|---|
| `stream` | moves and waits through a ring of three slots: no step is lost, the queue is a FIFO |
| `halt` | moves, waits, a flush and a halt at any instant: the interrupt only executes the tail, no motor stays marked as moving, moves from before the halt never run, still a FIFO; and with the halt released in the end, `wait_for_idle`, `flush_queue` and `append_block` never hang and the queue drains |
| `jog` | continuous jogs, halted at any instant: `saved_block` is there whenever it is copied, the deceleration block is never lost, no block without steps |
| `planner` | four moves planned, with blocks started and finished between them and inside `recalculate`: every profile stays within its block's acceleration and nominal speed; without preemptions the plan is continuous and the fastest plan there is |
| `kill_button` | the button in all four settings among other halts and releases: unless one broadcast crosses another of the other direction, the copies of the flag agree and the positions are resynchronised; a release begins only after a press of ten ticks, no press is swallowed; a latched emergency stop ends with everything halted, except when it may also release and was latched while it was releasing |
| `ticks` | blocks of eight shapes for two motors, one of which the lathe steps as well: every motor gets exactly its steps whatever its rate rounds to and whichever ends first, has at every tick the rate the shape gives it, pulses merge only in the one window of the unstep interrupt or when lathe and block step the motor in the same tick, every block ends |
| `shell` | a USB console and two connections: the stream of a client that waits for its answers is never deleted under a command; every closed stream is deleted in the end unless nothing will mark it done; lines are never overtaken; the ring of queries yields a stale entry only from a slot that a producer overtaken inside `push_back` has skipped |
| `player` | files played, paused, aborted, suspended, resumed, homed and halted in any order: lines in order, at most one late, the state pushed by a suspend popped once, an abort ends |
| `heater` | commands, readings, checks, kills and releases by any task in any interleaving: off after a halt, a runaway caught within the timeouts, a violation heard unless its bit is being overwritten, M109 ends unless the heater stays near its target |
| `memory_pool` | every sequence of allocations and releases: blocks never overlap, a request is refused only when no gap between them would do |

Runs that end in a violation, each of something a comment or message in the code
promises (the details are under `findings` in `PROJECT.json`):

| run | what the code does |
|---|---|
| `find_heater` | a halt while M104 waits for the queue ends the wait; the target is then set on the halted machine and the next reading turns the heater on |
| `find_suspend` | the play task tests for a pause, then waits for room; the line it holds is executed when the suspend or abort is complete |

### Known disagreements without a run of their own

Each is a definition in its module with a comment that quotes the code. To see
one, add it to the INVARIANTS (the last one: PROPERTIES) of a cfg of the module's
runs; for `HaltedQueueEmpty` and `HaltResyncsPosition` a cfg like `MCMotionHalt` with a halt
from `comms`, for `ListenersAgree` and `ButtonDownKills` `MCKillButton`.

| property | what the code does |
|---|---|
| `Motion!LeavesExecutingAlone` | `calculate_trapezoid` tests `is_ticking`, computes for a while, then locks: a block fetched in between is rewritten while it executes (`robot/Planner.cpp:348-349`: "if block is currently executing, don't touch anything!") |
| `Motion!HaltedQueueEmpty` | a halt between `append_block`'s test and `queue_head` leaves a move on the halted machine's queue, and it runs after the release (`:222`) |
| `Motion!HaltResyncsPosition` | a halt between the test in `append_milestone` and the milestone update: the dropped move stays in the planner's position (`Module.cpp:99-100`) |
| `Planner!SpeedContinuous` | a tail that starts inside `recalculate` keeps its old exit speed while the next block was planned from the new one (`robot/Planner.cpp:493`) |
| `Halt!ListenersAgree` | a release in the middle of a halt's broadcast (or the reverse) leaves `Module`, `Conveyor` and `Robot` with different flags (`Module.h:42`) |
| `Shell!StreamOutlives` | the stream of a client that sends lines without waiting is deleted when its first line is done, while a later one still writes to it (`Shell.cpp:79-80`) |
| `KillButton!ButtonDownKills` | an emergency stop latched again within three ticks of being let go does not halt the machine (`KillButton.cpp:61`) |

The models show, or reading for them showed, some more:

- `broadcast_halt` tests `halted` again at its end (`Module.cpp:98`): when a release
  has come in the middle, the stopped actuators are never resynchronised
  (`lost` stays set in `Halt`);
- `KillButton` stays in `UNKILL_FIRE` while it reads a halt: a halt raised within a
  tick of the button's release is released too, with the button up;
- with `minimum_planner_speed` above a junction's speed the plan steps the speed
  at that junction (`MinSpeed = 1` and `PlannedContinuous` in `Planner`);
- a reading between the two writes of `TemperatureControl::on_halt` turns the pin on
  again after the halt (`torn`), until the next M104 or halt; a read-modify-write of the
  byte with `temp_violated` loses a violation (`Losing`); M109 waits for ever
  for a heater that stays within `runaway_range` below its target (`Near`), and every
  M104 starts the runaway timer anew;
- a stream closed without a line left to be done, or asked `$I` after its last
  one, or whose last line went into a subroutine (`Consoles.cpp:598-610`, `Forgotten`), is
  never marked done, and keeps all later ones in `gc` (`orphans`);
  `gc.push_back` does not look whether there is room (`Shell.cpp:89`);
- the ring of queries (`Consoles.cpp:47`: "a thread safe FIFO"; `RingBuffer.h:4`: for a
  "single Producer") has several producers. Two inside `push_back` lose one of the
  queries; two that both found the last place free close the ring on its tail, and all
  its queries are lost; one that is overtaken between its two readings of `head` skips a
  slot, and what an earlier query left there is popped again (`skipped`);
- G33.1 given while a block runs that steps the lathe's motor (`Lathe.cpp:198-227`): a tick
  in which both step it makes one pulse of two steps (`"doubled"`);
- `play` while a paused print's task still exists starts a second task on the same
  file handle (`second`), `Player.cpp:272-275`; a halt released between two polls of the
  play task is not seen; a suspend ended before it is complete pops the
  host's state (`hasty`);
- the step interrupt may preempt `unstep_tick` between its loop and `unstep = 0`
  (`StepTicker.cpp:143`), and the new pulse's bit is lost (`raced`).

### Bounds, and why they suffice

- `m_size = 3` (4 for a jog, which needs three queued blocks): the smallest ring
  in which the queue can be partly filled, and in which head, tail and iterator
  can all differ. Three or four moves wrap the indices around. The proofs hold
  for every size.
- `MaxSteps` is 2 in `stream` and `halt`, so a block can be interrupted in its middle,
  and a block of no steps (`n = 0` in `CmdClear`) is among the moves.
- `MaxHalts = 1`: one halt, with its release; in `halt` from the timer task, whose
  broadcast interleaves with the command thread in every way a comms task's does
  and more, in `jog` from either. The safety proofs cover any number of them.
- `MaxTravel` bounds the steps issued. It bites only in `jog`, where a block is
  repeated without end: 9 steps are two whole jogs of one step blocks, or one that
  repeats its block several times. Jogs are not checked for liveness: they end
  only when asked to.
- `Gains` and `Nominals` have two values each: a block that can stop from its
  nominal speed and one that cannot, fast after slow and slow after fast; four
  blocks let the reverse walk stop at a settled block in the middle.
- `MaxPreempts = 2`: the interrupt may start a block and finish it, and so start the
  next, within one call of `recalculate`.
- `Halt` and `KillButton` are finite as they are; nothing is bounded. The button's
  run has the timer task and one comms task, which halts and releases at every
  point of a tick and of the timer task's broadcasts; what more tasks could add is
  covered by the proofs, which hold for any.
- `StepTick`: two motors, `x` and `z`, the second of which the lathe steps, too;
  `Scale = 4` makes rates round in both directions, three steps against one or two
  make motors end in different ticks and give a ratio that does not divide, two
  blocks in a row start a motor in the tick in which another ended, and the eight
  shapes have the planner's events in every order that they can have. `MaxForced`
  is one step of the lathe. The proofs are for any of these.
- `Shell`: a queue of two places and four lines fill it; a ring of three slots has two
  places for three queries, of which two tasks push at the same time; the first
  connection sends two lines, with which it may define a subroutine, the second
  one, so that two streams can be in `gc` with one behind the other. All together send
  five lines and queries (`MaxSent`): enough to fill the queue and leave a line waiting, or
  for three queries, one of them in a slot used before, beside two lines. The proofs
  hold for any number.
- `Player`: one place in the queue and one block are full all the time, three lines
  leave one unread while one is held, three commands are a suspend with its resume and
  one in between; two plays and tasks show a second task beside the first.
- `Heater`: the targets are 3 (the second preset) and 4 (a setting of 6, clamped to
  `max_temp`), the range is 1 with no hysteresis: a reading of 2 is below the one and out of
  range of the other, 3 is at or near them, 6 and infinity are violations; the first
  preset and a setting of 0 are off. `RunawayTime` is 1 instead of 5, the timeouts are 1
  for heating and 2 for cooling: the proof has them as parameters.
- `MemoryPool`: fourteen words hold up to seven of the smallest blocks, and requests of
  one, two, three and six words leave gaps of every kind. The proof has any size.

`Planner` really ends (all blocks planned and executed), and so do `Player` and `Shell`
(all commands given, all connections gone): these runs do not check for
deadlock. In the other modules some party can always take a step.

### Fairness

- `WF(StepTick)`: the timer interrupt fires at a fixed rate and nothing masks it
  for ever.
- `WF(CmdStep)` and `WF(CmdLoop)`: the command thread is runnable whenever no
  comms task is; comms tasks block on their queues. Requests (`CmdMove`,
  `CmdFlush`, `CmdWait`) are not fair: nobody need send a command.
- `SF(CmdLoop(TRUE))`: the delay in `check_queue` is measured in wall time, so a
  loop that keeps coming round finds it elapsed at last.
- `WF(HaltStep)`: a broadcast is straight-line code.
- in `KillButton`, `SF(TickStart)`, `SF(Switch)` and `SF(Broadcast(t))`: the timer fires
  for ever, and the tasks above it wait for characters and messages in between.
  Halts, releases and the button are not fair.
- in `Shell`, `WF` of the command thread, of the steps of a push that has begun, of `Resubmit` and of the
  collector's timer; no client need send, wait or go.
- in `Player`, `WF` of the command thread, the play tasks, blocks that end and the
  release of a halt: the tasks above the play task wait most of the time.
  Commands and halts are not fair.
- in `Heater`, `WF` of the command thread and the timer task; readings, kills and
  releases are not fair, but the check runs every second whatever they do.
- `ReleaseSpec` adds that a halt is released in the end; without it a halted
  machine rightly keeps a command's moves waiting.

## 4. Proofs

Every safety property of the passing runs is proved for all values of
the constants. An invariant is proved from an inductive one
(`IInv` or `...Inv` in the module of its proofs), which TLC has checked first; an
action property from the same. The assumptions on the constants
(`SizeAssumption`, `MotionAssumption`, `PlannerAssumption`, `ConsolesAssumption`,
`PlayerAssumption`, ...) only say that the bounds are numbers and the sets are what
their comments say; TLC evaluates them on every run. Two theorems have a
hypothesis of their own, stated below: `StreamLosesNoStep` and those about plans.

### Motion_proofs

For every ring size from two, every number of moves, steps per move, halts and
steps issued, and every choice of operations and halting tasks:

| theorem | states |
|---|---|
| `Invariance` | `IInv` always holds |
| `TypeCorrect` | `TypeOK` |
| `AlwaysExecutesTail` | `ExecutesTail` |
| `NeverEmptyBlock` | `NoEmptyBlock` |
| `AlwaysSaved` | `SavedWhileContinuous` |
| `NoMotorLeft` | `NoMotorLeftMoving` |
| `AlwaysDecelerates` | `JogKeepsDeceleration` |
| `HaltsDropMoves` | the action property `HaltDropsMoves` |
| `QueueIsFifo` | `ImplementsFifo`: `Motion` implements `MotionFifo` |
| `StreamLosesNoStep` | `NoStepsLost`, when only moves and waits are asked for |

None of the properties is inductive alone. `IInv` adds:

- `HeadInv`: the block under construction has steps, is not ticking, and has its
  tick info from its own trapezoid on. It gives `NoEmptyBlock` when the block is
  committed; the interrupt cannot disturb it, since it writes queued blocks
  only.
- `HoldInv`: a held queue does not run. A jog sets the hold only when the machine
  is idle, so a block that ends finds no hold, and `block_finished` releases a
  tail that is really there.
- `HaltInv`: during a broadcast `Module::halted` has the value broadcast; a
  stopped conveyor with a running ticker means the ticker is about to be
  stopped. It is why a tick that goes on finds the conveyor not halted.
- `MovingInv`: a motor that moves is being stepped, or a broadcast that will stop it
  is under way. `NoMotorLeftMoving` alone is not inductive: a halt may end the
  block while the broadcast has yet to reach `Robot`.
- `JogInv`: `continuous_mode` is only set while the command thread is inside the
  jog and holds the saved tick info.
- `JogQueueInv`: a jog puts three blocks on a queue it found empty and holds, so
  there are three or none until the first is finished, and then two: the one
  repeated and the one that decelerates. A halt meanwhile empties the queue only
  after `continuous_mode` is reset.
- `OrderInv` and `BoundInv`: moves are numbered as they are planned, within the bound.
- `EraInv`: a queued block from before the last halt means that the halt is still
  on, and that a flush is pending and can happen, or is about to be asked for.
  It is what `HaltDropsMoves` needs.

Each conjunct has a lemma with one case per action that can disturb it and a
frame case for the others; `StepInv` puts them together and `Invariance` is the
usual induction. About the ring the proofs need a few lemmas at the start: a
commit adds the head to the queued slots, a release removes the tail, an iterator
stays in the ring, and how each changes its depth and the slot at a place.

`QueueIsFifo` maps the initial states to the empty queue, and each action to an
action of `MotionFifo` or to a stutter: `queue_head` is a commit of the next move,
the interrupt's fetch a start, its end of a block a finish followed, if there is
another, by a start, a flush a clear; everything else leaves the sequence of moves
and the executing one alone, in continuous mode too. `OrderInv` shows that the
moves on the queue are distinct and increasing, as the abstract queue has them.

`StreamLosesNoStep` needs a sum over the queue, which `StepsFrom` makes by a
recursive function on the slots. Its unfolding and the lemmas about a first,
a last or a changed summand are proved by taking the least place at which they would
fail. The hypothesis `Streaming` (no halting tasks, only moves and waits) is
what the property is about: a halt or a flush loses steps by intent, and a jog
repeats some.

### Planner_proofs

`PlannerTypes` needs no hypothesis. `PlanIsFeasible` (`Feasible`),
`PlanIsContinuous` (`PlannedContinuous`) and `PlanIsTheFastest` (`PlanIsFastest`) take
`MinSpeed = 0`, the default of `minimum_planner_speed` and what the run has: above a junction's
speed that setting really does break the plan (see the disagreements in section 3). They hold for any
sequence of moves, gains, junctions and preemptions. `IInv` follows the three walks:

- `MoveInv`: entry speeds stay below the junction's, and those below the nominal speeds on
  both sides;
- `EntryInv`: every block not yet executing can brake from its entry speed to the
  next one's at any time, also in the middle of a walk, because the reverse pass only
  raises entry speeds, within reach, and the forward pass lowers one only to an exit
  speed its predecessor can really reach; behind the forward pass a block can accelerate
  to the next one's entry, too;
- `ProfileInv`: so the trapezoid written for a block is feasible, and the last one
  ends at rest;
- `ContinuousInv`: while nothing has interrupted, profiles agree at the junctions outside the part
  a walk has yet to visit.

That nothing is faster needs more: `recalculate` visits only the blocks from the last one
without `recalculate_flag` on, and `reverse_pass` leaves alone those that enter at their limit.
`FastestInv` says why the others need no visit:

- `TightInv`: each junction's speed is fixed by something: by its own limit (`AtLimit`), by full
  acceleration through the block before (`Pushed`), or by full braking through the block behind
  (`Braked`);
- `SettledInv`: a block without the flag is not held back by what follows it, so a move
  appended later cannot make it faster: it is at its limit or pushed;
- `RaisedInv`: where the reverse pass has been, blocks are at their limit or braked, and still have the
  flag; the forward pass keeps this ahead of it and leaves `TightInv` behind it.

Suppose another drivable plan passes some junction faster. It is not at its limit there. If the
junction is pushed, the other plan is faster at the junction before, too; if it is braked, at the
next. Each of them is slower in the finished plan than the first, for gains are positive: so
the slowest of the junctions that the other plan passes faster cannot exist (`NoneFaster`). The
ends of the queue are no way out: the speed at `Open` is given, and both plans end at rest.

### Shell_proofs

For any comms tasks, streams, queue and ring sizes and numbers of lines and queries:
`ShellTypeSafe` (`TypeOK`), `LinesKeepOrder` (`LinesInOrder`), `PatientClientIsSafe`
(`PatientClientSafe`) and `OnlyGenuineQueries` (the action property `QueriesGenuine`).

- `RingInv`: a push that has read the head at a slot owns nothing yet, another task may
  store in the same slot, and the last one to move the head may move it back. A slot is
  `Covered` when it lies, counted from the tail, before the head, before any head a push
  has read, or is one a push has stored in: the head will not go further. Each covered
  slot holds a query still to be answered or is `skipped`; no two slots hold the same
  query, so that a pop leaves the others genuine; and what is pushed is `New` until
  it is stored. A push that closes the ring on its tail breaks none of this: it
  makes the ring empty, and covers nothing. So `OnlyGenuineQueries` holds without an
  assumption on how pushes fall together, with the skipped slot as its one exception.
- `OrderInv`: the lines of one stream in the queue, with the one being executed before and
  the one waiting for room after them, are numbered in order.
- `StreamInv`: a line that waits belongs to a connection that is still open, and a deleted stream
  does not come back.
- `PatientInv`: a client that waits for its answers has at most one line under way, none when
  its stream is done or deleted, and is in no slot of the ring.

The proof found one condition the model did not state: no stream is called
`"none"`, which stands for the absence of one (`ConsolesAssumption`).

### Player_proofs

For files, queues, commands, halts and tasks of any number: `PlayerTypes` (`TypeOK`),
`AtMostOneLineLate` (`OneLineLate`), `StateIsKept` (`StateKept`) and `LinesComeInOrder` (the
action property `LinesInOrder`).

- `StopInv`: until a second play task exists there is at most one; once the play
  was told to stop, or a suspend is complete, it lets no further line pass its test
  (`Guarded`). So at most one line can be on its way, the one that had passed it and waits for room
  (`LateInv`), whatever the size of the queue: an abort or a suspend becomes complete only when the
  command thread has found its queue empty (`EndInv`).
- `StackInv`: the saved state is on the stack exactly while a suspend is complete and its
  resume has not popped it.
- `OrderInv`: the lines in the queue are sorted, without a gap from the one executed last
  (`NoGap`), and the line a play task holds, or will read next, continues them
  (`Feeding`). Pauses, suspends and aborts preserve it, for they drop lines only at the end.

### KillButton_proofs

`HaltIsHeard` and `HaltIsResynced` prove `HaltHeard` and `HaltResynced` of `Halt` for any set of
tasks and any priorities. `IInv` says that,
as long as no two broadcasts have crossed, all that are under way carry the value
of `Module::halted`, that a copy that differs from it is about to be written by
one of them, and that lost positions are about to be resynchronised by one.

`ButtonTypeCorrect` (`TypeOK`) and `ReleaseNeedsLongPress` (`LongPress`) follow from the
invariant that the count of a timed press never exceeds the ticks the button was
down at; and `HaltHeard` and `HaltResynced` still hold with the button's broadcasts,
decided by a flag that may be out of date (`ButtonHaltIsHeard`).

### MemoryPool_proofs, Heater_proofs, StepTick_proofs

`MemoryPool_proofs` proves, for a pool of any size and requests of any sizes, that no two
blocks in use overlap and no header lies in one (`BlocksNeverOverlap`), and that a
refused request would fit no gap (`RoomIsAlwaysFound`). `IInv` has three parts: the
regions tile the pool (`Tiled`: every header starts a region that ends at the next header or
at the pool's end), the blocks in use are the used regions (`Held`), and two free
neighbours occur only at the end (`Merged`). The code's walks stop at the first
header whose length leads past the end, so tiling is what makes them safe.

`Heater_proofs` proves, for any temperatures, settings, limits and timeouts:

- `HaltTurnsHeaterOff`: the property itself with three facts: a target on a halted machine
  means that a task is still in `on_halt` or a command was under way (`Pending`); between
  the two writes of `on_halt` only a reading turns the pin on (`Torn`); and nothing does
  afterwards (`Dark`). `PinFollowsTarget` says that a pin that is on has a target.
- `RunawayIsCaught`: the number of checks in a row that found the heater astray is
  bounded by what the state and the timer of `check_runaway` add up to
  (`Counted`), also while the state is read or loaded but not stored (`Current`), unless a
  halt drops the target (`Caught`); the state that a check has read is still the state unless
  a command has reset it (`Switched`), and a task that is setting a target has just
  started the count anew (`Fresh`). The bound exceeds the two phases by four checks: one
  was under way when the target was set, one begins to heat or cool, and each phase
  is left by the check that finds its time over.

`StepTick_proofs` proves, for any motors, shapes, scale and lengths of blocks:

- `StepsAreExact` and `BlocksDoEnd`, from `Sound`: each motor's `step_count` is the number of
  steps issued, below `steps_to_move` while it is active; and `Scale` times the steps
  plus the fixed point sum is at least the number of ticks done, because
  `Protected` leaves every tick a rate of at least the smallest number. Rounding does not
  enter: the rates may be anything.
- `RatesFollow` (`RatesFollowShape`): `RateOK` adds, for each motor with steps left, the tick of its next event
  and what its rate changes by until then, again in closed form; `NextRate` shows that
  the closed form advances as `step_tick` does, case by case: ramps that meet, a missing ramp,
  a rate that has come down to nothing. It takes from `prepare` that a rounded share of
  a number that is not negative is not negative, and that of 0 is 0.
- `PulsesAreDistinct`, from `PulseInv`: every pin that is high has its bit in `unstep`, and
  `unstep_tick`, when it runs, has still to look at it, unless the motor's last step was made by
  a tick inside `unstep_tick` (`raced`). So either the interrupt or the failsafe of the next
  tick lowers it first, and a step finds its pin high only for the two reasons named,
  whatever ticks the callback steps in.

Only model-checked:

- liveness (`CommandReturns`, `QueueDrains`, `PressKills`, `EstopHolds`, `StreamsReleased`,
  `AbortEnds`, `ViolationHeard`, `WaitEnds`): fairness and `ENABLED` are out of the
  prover's reach. For two of the questions there is a safety theorem that bounds the time instead:
  `BlocksDoEnd` and `RunawayIsCaught`.

## 5. Plan, and what is not modelled

Done: `PlannerQueue`, `Motion`, `MotionFifo`, `Planner`, `Halt`, `KillButton`, `StepTick`, `Consoles`,
`Shell`, `Player`, `Heater`, `MemoryPool`. Proved: all their safety properties (section 4). Next, in this order:

1. `Homing` and `Probe`: detection in the fast ticker or the timer against the
   move it stops, and the position set from where the motor stopped;
2. the flag words of `Conveyor` and `Block` as read-modify-writes, as `Heater` does for
   its byte: with them split, `Motion` is too large for TLC as it stands, so this needs a
   smaller module of the flags alone;
3. `Switch`, `TemperatureSwitch`, `FilamentDetector`, `Extruder`: small state machines.

Not modelled, and why:

- kinematics, arcs, compensation, junction speeds from angles, the conversion of speeds
  to ticks, PID control and its tuning, thermistors, laser power: floating point,
  which TLC and TLAPS do not have, in code that runs in one context;
- configuration files, start up, displays, pendants, drivers: input and output,
  with no concurrency of their own;
- parsing of G code and of lines, settings and reports: sequential text processing;
- HAL, FreeRTOS, USB, TCP/IP, FatFS, the boot loaders: vendored or separate
  programs. Of these only the priorities, the queue and the one-shot timer the
  models rest on are taken, from how the firmware uses and sets them. They make up most
  of the repository's lines;
- network services other than the shell: protocols and file transfers.

## 6. Running

    tlc -config MCMotionHalt.cfg Motion.tla
    tlapm Motion_proofs.tla

Each cfg belongs to the module of its name, except `MCMotionStream`, `MCMotionHalt` and
`MCMotionJog` (`Motion`), `MCPlanner` (`Planner`), `MCPlayer` and `FindSuspend` (`Player`), `MCHeater` and
`FindHeater` (`Heater`). The largest run is `planner` with 20 million states; it, `halt`, `shell` and
`heater` take up to two minutes, `ticks`, `player` and `kill_button` about one each. The proofs take a few minutes altogether.
