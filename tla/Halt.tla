-------------------------------- MODULE Halt --------------------------------
(***************************************************************************)
(* Module::broadcast_halt called by several tasks: the timer task (limit   *)
(* switches, temperature faults, the kill button), the command thread (an  *)
(* error in a G code, M999) and the comms threads (^X, ^Y and $X).         *)
(*                                                                         *)
(* A broadcast takes no lock.  A task preempts every task of a lower       *)
(* priority, and shares the processor with those of its own, so that one   *)
(* broadcast can be run in the middle of another.  Of the listeners only   *)
(* Conveyor and Robot keep a copy of the flag; module Motion tells what    *)
(* the halt does to the moves.                                             *)
(***************************************************************************)
EXTENDS Naturals

CONSTANTS
    Tasks,        \* the tasks that call broadcast_halt
    Priority,     \* their priorities
    Untested,     \* tasks that also halt without a test of is_halted()
    Releasers     \* tasks that also release a halt

ASSUME HaltAssumption ==
    /\ Priority \in [Tasks -> Nat]
    /\ Untested \subseteq Tasks
    /\ Releasers \subseteq Tasks

VARIABLES
    module_halted,       \* Module::halted
    conveyor_halted,     \* Conveyor::halted
    robot_halted,        \* Robot::halted
    lost,                \* the actuators were stopped and the positions were
                         \* not resynchronised with them since
    step, flg,           \* each task's place in broadcast_halt, and its flag
    clashed              \* history: during the last broadcasts one was begun
                         \* in the middle of another with the other flag

copyVars == <<module_halted, conveyor_halted, robot_halted, lost>>
haltVars == <<copyVars, step, flg, clashed>>

Steps == {"idle", "begin", "conveyor", "robot", "resync"}

\* The tasks inside broadcast_halt, after its first assignment.
InBroadcast(u) == step[u] \in {"conveyor", "robot", "resync"}

HaltTypeOK ==
    /\ module_halted \in BOOLEAN
    /\ conveyor_halted \in BOOLEAN
    /\ robot_halted \in BOOLEAN
    /\ lost \in BOOLEAN
    /\ step \in [Tasks -> Steps]
    /\ flg \in [Tasks -> BOOLEAN]
    /\ clashed \in BOOLEAN

HaltInit ==
    /\ module_halted = FALSE
    /\ conveyor_halted = FALSE
    /\ robot_halted = FALSE
    /\ lost = FALSE
    /\ step = [t \in Tasks |-> "idle"]
    /\ flg = [t \in Tasks |-> FALSE]
    /\ clashed = FALSE

\* The scheduler lets t run: no task above it is busy.
Runs(t) == \A u \in Tasks : Priority[u] > Priority[t] => step[u] = "idle"

\* t is about to call broadcast_halt(f).
Call(t, f) ==
    /\ step[t] = "idle"
    /\ step' = [step EXCEPT ![t] = "begin"]
    /\ flg' = [flg EXCEPT ![t] = f]

\* A cause for a halt: ^X and most others test is_halted() first.
Raise(t) ==
    /\ Runs(t)
    /\ t \in Untested \/ ~module_halted
    /\ Call(t, TRUE)
    /\ UNCHANGED <<copyVars, clashed>>

\* ^Y, $X or M999, while halted.
Release(t) ==
    /\ Runs(t)
    /\ t \in Releasers
    /\ module_halted
    /\ Call(t, FALSE)
    /\ UNCHANGED <<copyVars, clashed>>

\* halted = flg
Begin(t) ==
    LET others == {u \in Tasks \ {t} : InBroadcast(u)}
    IN  /\ Runs(t)
        /\ step[t] = "begin"
        /\ module_halted' = flg[t]
        /\ clashed' = /\ others # {}
                      /\ clashed \/ \E u \in others : flg[u] # flg[t]
        /\ step' = [step EXCEPT ![t] = "conveyor"]
        /\ UNCHANGED <<conveyor_halted, robot_halted, lost, flg>>

\* Conveyor::on_halt
TellConveyor(t) ==
    /\ Runs(t)
    /\ step[t] = "conveyor"
    /\ conveyor_halted' = flg[t]
    /\ step' = [step EXCEPT ![t] = "robot"]
    /\ UNCHANGED <<module_halted, robot_halted, lost, flg, clashed>>

\* A mistake the checks must notice: Robot::on_halt acts on a halt only.
TellRobotHalt(t) ==
    /\ Runs(t)
    /\ step[t] = "robot"
    /\ robot_halted' = (robot_halted \/ flg[t])
    /\ lost' = (lost \/ flg[t])
    /\ step' = [step EXCEPT ![t] = "resync"]
    /\ UNCHANGED <<module_halted, conveyor_halted, flg, clashed>>

\* Robot::on_halt, which stops every actuator on a halt.
TellRobot(t) ==
    /\ Runs(t)
    /\ step[t] = "robot"
    /\ robot_halted' = flg[t]
    /\ lost' = (lost \/ flg[t])
    /\ step' = [step EXCEPT ![t] = "resync"]
    /\ UNCHANGED <<module_halted, conveyor_halted, flg, clashed>>

\* A mistake the checks must notice: a halt's end does not resynchronise.
ResyncNever(t) ==
    /\ Runs(t)
    /\ step[t] = "resync"
    /\ step' = [step EXCEPT ![t] = "idle"]
    /\ UNCHANGED <<copyVars, flg, clashed>>

\* if(halted) reset_position_from_current_actuator_position(): the flag is
\* read again, it need not be this broadcast's.
Resync(t) ==
    /\ Runs(t)
    /\ step[t] = "resync"
    /\ lost' = (lost /\ ~module_halted)
    /\ step' = [step EXCEPT ![t] = "idle"]
    /\ UNCHANGED <<module_halted, conveyor_halted, robot_halted, flg, clashed>>

Broadcast(t) == Begin(t) \/ TellConveyor(t) \/ TellRobot(t) \/ Resync(t)

HaltNext == \E t \in Tasks : Raise(t) \/ Release(t) \/ Broadcast(t)

HaltSpec == HaltInit /\ [][HaltNext]_haltVars

-----------------------------------------------------------------------------
\* No broadcast is under way.
Quiet == \A u \in Tasks : ~InBroadcast(u)

\* When the broadcasts are over and none of them crossed one of the other
\* direction, Conveyor and Robot agree with Module::halted: nothing moves on
\* a halted machine, no command hangs on a released one.
HaltHeard ==
    Quiet /\ ~clashed => /\ conveyor_halted = module_halted
                         /\ robot_halted = module_halted

\* ... and the positions were resynchronised after the last actuator had
\* been stopped, in whatever order the halts of several tasks were told.
HaltResynced == Quiet /\ ~clashed /\ module_halted => ~lost

\* What Module.h:42 says of broadcast_halt, crossed or not: it "sends the
\* on_halt event to all modules, flg is true if halt, false if cleared".
ListenersAgree ==
    Quiet => conveyor_halted = module_halted /\ robot_halted = module_halted
=============================================================================
