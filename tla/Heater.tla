------------------------------- MODULE Heater -------------------------------
(***************************************************************************)
(* One heater, modules/tools/temperaturecontrol/TemperatureControl.cpp:    *)
(* its target is set by the command thread, its pin is driven by an        *)
(* interrupt that reads the sensor, a callback of the timer task looks     *)
(* every second whether it runs away, and a halt that any task declares    *)
(* turns it off.                                                           *)
(*                                                                         *)
(* The interrupt may come between any two steps.  Of the tasks, comms      *)
(* preempts the command thread, which preempts the timer task; those two   *)
(* run only while the tasks above them wait.                               *)
(*                                                                         *)
(* runaway_state and temp_violated share a byte, so a task that writes the *)
(* one loads both and stores both.  What the controller makes of the       *)
(* temperature is left open: each reading may drive the pin either way.    *)
(***************************************************************************)
EXTENDS Integers

CONSTANTS
    Temperatures,                      \* what the sensor reads, beside Inf
    Settings,                          \* the S of an M104 or M109
    preset1, preset2, min_temp, max_temp,
    runaway_range, runaway_error_range,
    runaway_heating_timeout, runaway_cooling_timeout,
    RunawayTime,                       \* seconds out of range, 5 in the code
    MaxCommands, MaxHalts              \* bounds: commands, halts from outside

UNDEFINED == -1
Inf == 1000                            \* a reading of infinity

ASSUME HeaterAssumption ==
    /\ Temperatures \subseteq -1 .. Inf - 1 /\ Settings \subseteq Nat
    /\ min_temp \in Nat /\ max_temp \in 3 .. Inf - 1
    /\ preset1 \in 0 .. max_temp /\ preset2 \in 0 .. max_temp
    /\ runaway_range \in Nat \ {0} /\ runaway_error_range \in Nat
    /\ runaway_heating_timeout \in Nat \ {0}
    /\ runaway_cooling_timeout \in Nat \ {0}
    /\ RunawayTime \in Nat /\ MaxCommands \in Nat /\ MaxHalts \in Nat

VARIABLES
    target_temperature, pin, last_reading,
    runaway_state, temp_violated, runaway_timer,
    halted,                    \* Module::halted
    on_halt,                   \* how far each task is in on_halt
    command,                   \* what the command thread does
    check,                     \* what the timer task does
    commands, halts,           \* how many there have been
    overtaken,                 \* history: a command was under way when the
                               \*   machine halted and set its target then
    torn,                      \* history: the pin was set last by a reading
                               \*   that fell into an on_halt
    astray                     \* history: checks in a row that found the
                               \*   heater out of range of the same target

byte == <<runaway_state, temp_violated>>
history == <<overtaken, torn, astray>>
vars == <<target_temperature, pin, last_reading, byte, runaway_timer, halted,
          on_halt, command, check, commands, halts, history>>

Tasks == {"comms", "command", "timer"}
Targets == {UNDEFINED} \cup 0 .. max_temp
States == {"NOT_HEATING", "HEATING_UP", "COOLING_DOWN",
           "TARGET_TEMPERATURE_REACHED"}

\* Where a handler is, what it is about, and the byte it is to store.
Commands == [at : {"ready", "idle", "off", "load", "store", "test", "asleep",
                   "halt"},
             S : Settings \cup {0}, wait : BOOLEAN, violated : BOOLEAN]
Checks == [at : {"ready", "begun", "tested", "active", "switched", "load",
                 "clear", "store", "erase"},
           state : States, violated : BOOLEAN,
           temperature : Temperatures \cup {0}]

Ready == [at |-> "ready", S |-> 0, wait |-> FALSE, violated |-> FALSE]
Unchecked == [at |-> "ready", state |-> "NOT_HEATING", violated |-> FALSE,
              temperature |-> 0]

TypeOK ==
    /\ target_temperature \in Targets /\ pin \in BOOLEAN
    /\ last_reading \in Temperatures \cup {0, Inf}
    /\ runaway_state \in States /\ temp_violated \in BOOLEAN
    /\ runaway_timer \in Nat /\ halted \in BOOLEAN
    /\ on_halt \in [Tasks -> {"no", "pin", "target"}]
    /\ command \in Commands /\ check \in Checks
    /\ commands \in 0 .. MaxCommands /\ halts \in 0 .. MaxHalts
    /\ overtaken \in BOOLEAN /\ torn \in BOOLEAN /\ astray \in Nat

Init ==
    /\ target_temperature = UNDEFINED /\ pin = FALSE /\ last_reading = 0
    /\ runaway_state = "NOT_HEATING" /\ temp_violated = FALSE
    /\ runaway_timer = 0 /\ halted = FALSE
    /\ on_halt = [t \in Tasks |-> "no"]
    /\ command = Ready /\ check = Unchecked
    /\ commands = 0 /\ halts = 0
    /\ overtaken = FALSE /\ torn = FALSE /\ astray = 0

-----------------------------------------------------------------------------
(***************************************************************************)
(* thermistor_read_tick, the interrupt                                     *)
(***************************************************************************)

Violation(temperature) ==
    temperature = Inf \/ temperature < min_temp \/ temperature > max_temp

Violated ==
    /\ target_temperature' = UNDEFINED
    /\ pin' = FALSE /\ torn' = FALSE
    /\ temp_violated' = TRUE

pid_process ==
    /\ pin' \in BOOLEAN
    /\ torn' = \E t \in Tasks : on_halt[t] = "target"
    /\ UNCHANGED <<target_temperature, temp_violated>>

thermistor_read_tick ==
    \E temperature \in Temperatures \cup {Inf} :
        /\ last_reading' = temperature
        /\ IF target_temperature <= 2
             THEN UNCHANGED <<target_temperature, pin, temp_violated, torn>>
           ELSE IF Violation(temperature) THEN Violated ELSE pid_process
        /\ UNCHANGED <<runaway_state, runaway_timer, halted, on_halt, command,
                       check, commands, halts, overtaken, astray>>

-----------------------------------------------------------------------------
(***************************************************************************)
(* broadcast_halt(true) by any task, and TemperatureControl::on_halt       *)
(***************************************************************************)

\* The task is the one that runs: all above it wait.
Runs(t) ==
    CASE t = "comms"   -> TRUE
      [] t = "command" -> on_halt["comms"] = "no"
      [] t = "timer"   -> /\ on_halt["comms"] = "no" /\ on_halt["command"] = "no"
                          /\ command.at \in {"ready", "idle", "asleep"}

Broadcast(t) ==
    /\ halted' = TRUE
    /\ on_halt' = [on_halt EXCEPT ![t] = "pin"]
    /\ overtaken' = FALSE

PinOff(t) ==
    /\ Runs(t) /\ on_halt[t] = "pin"
    /\ on_halt' = [on_halt EXCEPT ![t] = "target"]
    /\ pin' = FALSE /\ torn' = FALSE
    /\ UNCHANGED <<target_temperature, last_reading, byte, runaway_timer, halted,
                   command, check, commands, halts, overtaken, astray>>

\* A mistake the checks must notice: on_halt is over with the pin.
TargetKept(t) ==
    /\ Runs(t) /\ on_halt[t] = "target"
    /\ on_halt' = [on_halt EXCEPT ![t] = "no"]
    /\ UNCHANGED <<target_temperature, pin, last_reading, byte, runaway_timer,
                   halted, command, check, commands, halts, history>>

TargetOff(t) ==
    /\ Runs(t) /\ on_halt[t] = "target"
    /\ on_halt' = [on_halt EXCEPT ![t] = "no"]
    /\ target_temperature' = UNDEFINED
    /\ UNCHANGED <<pin, last_reading, byte, runaway_timer, halted, command,
                   check, commands, halts, history>>

\* A control-X in a comms task, the kill button in the timer task.
Kill(t) ==
    /\ halts < MaxHalts /\ on_halt[t] = "no"
    /\ t = "timer" => Runs("timer") /\ check.at = "ready"
    /\ halts' = halts + 1
    /\ Broadcast(t)
    /\ UNCHANGED <<target_temperature, pin, last_reading, byte, runaway_timer,
                   command, check, commands, torn, astray>>

\* M999, but a control-Y or $X as well, or the kill button, while a command is
\* under way or another task in the middle of its halt.  on_halt(false) does
\* nothing here.
Release(t) ==
    /\ halted /\ Runs(t) /\ on_halt[t] = "no"
    /\ t = "command" => command.at = "ready"
    /\ t = "timer" => check.at = "ready"
    /\ halted' = FALSE
    /\ UNCHANGED <<target_temperature, pin, last_reading, byte, runaway_timer,
                   on_halt, command, check, commands, halts, history>>

-----------------------------------------------------------------------------
(***************************************************************************)
(* handle_mcode: M104 sets the target, M109 waits for it as well           *)
(***************************************************************************)

\* The dispatcher refuses both while the machine is halted.
Dispatch ==
    /\ Runs("command") /\ command.at = "ready" /\ ~halted
    /\ commands < MaxCommands /\ commands' = commands + 1
    /\ \E S \in Settings, wait \in BOOLEAN :
           command' = [at |-> "idle", S |-> S, wait |-> wait, violated |-> FALSE]
    /\ UNCHANGED <<target_temperature, pin, last_reading, byte, runaway_timer,
                   halted, on_halt, check, halts, history>>

Desired(S) ==
    LET limited == IF S > max_temp THEN max_temp ELSE S
    IN  CASE limited = 1 -> preset1
          [] limited = 2 -> preset2
          [] OTHER -> limited

\* wait_for_idle has returned, which a halt makes it do: the first write of
\* what follows, to target_temperature.
SetTarget ==
    /\ Runs("command") /\ command.at = "idle"
    /\ target_temperature' =
           IF command.S = 0 THEN UNDEFINED ELSE Desired(command.S)
    /\ command' = [command EXCEPT
           !.at = IF target_temperature' <= 0 THEN "off" ELSE "load"]
    /\ overtaken' = (overtaken \/ (halted /\ target_temperature' > 0))
    /\ astray' = 0
    /\ UNCHANGED <<pin, last_reading, byte, runaway_timer, halted, on_halt, check,
                   commands, halts, torn>>

HeaterOff ==
    /\ Runs("command") /\ command.at = "off"
    /\ pin' = FALSE /\ torn' = FALSE
    /\ command' = IF command.S = 0 THEN Ready
                                   ELSE [command EXCEPT !.at = "load"]
    /\ UNCHANGED <<target_temperature, last_reading, byte, runaway_timer, halted,
                   on_halt, check, commands, halts, overtaken, astray>>

\* runaway_state = NOT_HEATING
LoadByte ==
    /\ Runs("command") /\ command.at = "load"
    /\ command' = [command EXCEPT !.at = "store", !.violated = temp_violated]
    /\ UNCHANGED <<target_temperature, pin, last_reading, byte, runaway_timer,
                   halted, on_halt, check, commands, halts, history>>

\* A mistake the checks must notice: the flag is reset with the state.
StoreBoth ==
    /\ Runs("command") /\ command.at = "store"
    /\ runaway_state' = "NOT_HEATING" /\ temp_violated' = FALSE
    /\ command' = IF command.wait
                    THEN [command EXCEPT !.at = "test", !.violated = FALSE]
                    ELSE Ready
    /\ UNCHANGED <<target_temperature, pin, last_reading, runaway_timer, halted,
                   on_halt, check, commands, halts, history>>

StoreByte ==
    /\ Runs("command") /\ command.at = "store"
    /\ runaway_state' = "NOT_HEATING" /\ temp_violated' = command.violated
    /\ command' = IF command.wait
                    THEN [command EXCEPT !.at = "test", !.violated = FALSE]
                    ELSE Ready
    /\ UNCHANGED <<target_temperature, pin, last_reading, runaway_timer, halted,
                   on_halt, check, commands, halts, history>>

\* M109 halts if the last reading was infinite and another one is, and begins
\* to wait otherwise.
TestReading ==
    /\ Runs("command") /\ command.at = "test"
    /\ \/ /\ last_reading = Inf
          /\ Broadcast("command")
          /\ command' = [command EXCEPT !.at = "halt"]
       \/ /\ command' = IF last_reading < target_temperature
                          THEN [command EXCEPT !.at = "asleep"] ELSE Ready
          /\ UNCHANGED <<halted, on_halt, overtaken>>
    /\ UNCHANGED <<target_temperature, pin, last_reading, byte, runaway_timer,
                   check, commands, halts, torn, astray>>

HaltedItself ==
    /\ Runs("command") /\ command.at = "halt" /\ on_halt["command"] = "no"
    /\ command' = Ready
    /\ UNCHANGED <<target_temperature, pin, last_reading, byte, runaway_timer,
                   halted, on_halt, check, commands, halts, history>>

\* A mistake the checks must notice: M109 waits on through a halt.
WakeAtTarget ==
    /\ Runs("command") /\ command.at = "asleep"
    /\ target_temperature = UNDEFINED \/ last_reading >= target_temperature
    /\ command' = Ready
    /\ UNCHANGED <<target_temperature, pin, last_reading, byte, runaway_timer,
                   halted, on_halt, check, commands, halts, history>>

\* One round of M109's loop, every 200 ms.
Wake ==
    /\ Runs("command") /\ command.at = "asleep"
    /\ \/ halted \/ target_temperature = UNDEFINED
       \/ last_reading >= target_temperature
    /\ command' = Ready
    /\ UNCHANGED <<target_temperature, pin, last_reading, byte, runaway_timer,
                   halted, on_halt, check, commands, halts, history>>

-----------------------------------------------------------------------------
(***************************************************************************)
(* check_runaway, every second in the timer task                           *)
(***************************************************************************)

Checking(place) ==
    Runs("timer") /\ on_halt["timer"] = "no" /\ check.at = place

CheckBegins ==
    /\ Checking("ready") /\ ~halted
    /\ check' = [check EXCEPT !.at = "begun"]
    /\ UNCHANGED <<target_temperature, pin, last_reading, byte, runaway_timer,
                   halted, on_halt, command, commands, halts, history>>

CheckViolated ==
    /\ Checking("begun")
    /\ IF temp_violated
         THEN Broadcast("timer") /\ check' = [check EXCEPT !.at = "clear"]
         ELSE /\ check' = [check EXCEPT !.at = "tested"]
              /\ UNCHANGED <<halted, on_halt, overtaken>>
    /\ UNCHANGED <<target_temperature, pin, last_reading, byte, runaway_timer,
                   command, commands, halts, torn, astray>>

CheckOff ==
    /\ Checking("tested") /\ target_temperature <= 0
    /\ check' = [check EXCEPT !.at = "load", !.state = "NOT_HEATING"]
    /\ UNCHANGED <<target_temperature, pin, last_reading, byte, runaway_timer,
                   halted, on_halt, command, commands, halts, history>>

\* current_temperature; an infinite one is ignored.
CheckReads ==
    /\ Checking("tested") /\ target_temperature > 0
    /\ check' = IF last_reading = Inf THEN Unchecked
                ELSE [check EXCEPT !.at = "active", !.temperature = last_reading]
    /\ UNCHANGED <<target_temperature, pin, last_reading, byte, runaway_timer,
                   halted, on_halt, command, commands, halts, history>>

\* switch(runaway_state)
CheckSwitch ==
    /\ Checking("active")
    /\ check' = [check EXCEPT !.at = "switched", !.state = runaway_state]
    /\ UNCHANGED <<target_temperature, pin, last_reading, byte, runaway_timer,
                   halted, on_halt, command, commands, halts, history>>

Low(temperature, range) == temperature < target_temperature - range
High(temperature, range) == temperature > target_temperature + range

CheckedLow(range) == Low(check.temperature, range)
CheckedHigh(range) == High(check.temperature, range)

Reached ==
    \/ check.state = "HEATING_UP" /\ ~CheckedLow(runaway_error_range)
    \/ check.state = "COOLING_DOWN" /\ ~CheckedHigh(runaway_error_range)

Timeout == IF check.state = "HEATING_UP" THEN runaway_heating_timeout
                                           ELSE runaway_cooling_timeout

Alarm == [state |-> "NOT_HEATING", timer |-> 0, alarm |-> TRUE]
Stay(s, timer) == [state |-> s, timer |-> timer, alarm |-> FALSE]

\* A mistake the checks must notice: the time out of range is not counted.
Forgiving ==
    CASE check.state = "NOT_HEATING" -> Stay("HEATING_UP", 0)
      [] check.state = "TARGET_TEMPERATURE_REACHED" -> Stay(check.state, 0)
      [] OTHER -> IF Reached THEN Stay("TARGET_TEMPERATURE_REACHED", 0)
                  ELSE IF runaway_timer >= Timeout THEN Alarm
                  ELSE Stay(check.state, runaway_timer + 1)

\* What check_runaway makes of the state and the temperature it has read.
Verdict ==
    CASE check.state = "NOT_HEATING" ->
           Stay(IF target_temperature >= check.temperature
                  THEN "HEATING_UP" ELSE "COOLING_DOWN", 0)
      [] check.state = "TARGET_TEMPERATURE_REACHED" ->
           IF ~CheckedLow(runaway_range) /\ ~CheckedHigh(runaway_range)
             THEN Stay(check.state, 0)
           ELSE IF runaway_timer >= RunawayTime THEN Alarm
           ELSE Stay(check.state, runaway_timer + 1)
      [] OTHER ->
           IF Reached THEN Stay("TARGET_TEMPERATURE_REACHED", 0)
           ELSE IF runaway_timer >= Timeout THEN Alarm
           ELSE Stay(check.state, runaway_timer + 1)

CheckRunaway ==
    /\ Checking("switched")
    /\ LET verdict == Verdict
       IN  /\ runaway_timer' = verdict.timer
           /\ IF verdict.alarm THEN Broadcast("timer")
                               ELSE UNCHANGED <<halted, on_halt, overtaken>>
           /\ check' = IF verdict.state = check.state THEN Unchecked
                       ELSE [Unchecked EXCEPT !.at = "load",
                                              !.state = verdict.state]
    /\ astray' = IF CheckedLow(runaway_range) \/ CheckedHigh(runaway_range)
                   THEN astray + 1 ELSE 0
    /\ UNCHANGED <<target_temperature, pin, last_reading, byte, command, commands,
                   halts, torn>>

\* The write of runaway_state, or of temp_violated when the halt is declared.
LoadChecked ==
    /\ Runs("timer") /\ on_halt["timer"] = "no" /\ check.at \in {"load", "clear"}
    /\ check' =
         IF check.at = "load"
           THEN [check EXCEPT !.at = "store", !.violated = temp_violated]
           ELSE [check EXCEPT !.at = "erase", !.state = runaway_state]
    /\ UNCHANGED <<target_temperature, pin, last_reading, byte, runaway_timer,
                   halted, on_halt, command, commands, halts, history>>

StoreChecked ==
    /\ Runs("timer") /\ check.at \in {"store", "erase"}
    /\ runaway_state' = check.state /\ temp_violated' = check.violated
    /\ check' = Unchecked
    /\ UNCHANGED <<target_temperature, pin, last_reading, runaway_timer, halted,
                   on_halt, command, commands, halts, history>>

-----------------------------------------------------------------------------
OnHalt(t) == PinOff(t) \/ TargetOff(t)

CommandThread == \/ OnHalt("command")
                 \/ SetTarget \/ HeaterOff \/ LoadByte \/ StoreByte
                 \/ TestReading \/ HaltedItself \/ Wake

TimerTask == \/ OnHalt("timer")
             \/ CheckBegins \/ CheckViolated \/ CheckOff
             \/ CheckReads \/ CheckSwitch \/ CheckRunaway
             \/ LoadChecked \/ StoreChecked

Next == \/ thermistor_read_tick
        \/ \E t \in {"comms", "timer"} : Kill(t)
        \/ \E t \in Tasks : Release(t)
        \/ OnHalt("comms") \/ Dispatch
        \/ CommandThread \/ TimerTask

\* The tasks go on; nothing makes an operator command, kill or release, nor the
\* sensor change.
Spec == /\ Init /\ [][Next]_vars
        /\ WF_vars(OnHalt("comms"))
        /\ WF_vars(CommandThread) /\ WF_vars(TimerTask)

-----------------------------------------------------------------------------
(***************************************************************************)
(* Properties                                                              *)
(***************************************************************************)

Quiet == \A t \in Tasks : on_halt[t] = "no"

\* A halt turns the heater off (on_halt, 275-277) whatever the command thread,
\* the timer task and the interrupt are in the middle of: when no task is in
\* on_halt any more the target is gone, and the pin with it.  The two
\* exceptions are real: a command that was under way sets its target after the
\* halt, and a reading between the two writes of on_halt drives the pin again.
HaltTurnsOff ==
    halted /\ Quiet /\ ~overtaken
        => target_temperature <= 0 /\ (pin => torn)

\* The pin is on only under a target: every way of dropping the target (a
\* halt, a violation, M104 S0, a preset of 0) turns the pin off as well, with
\* M104 half done and a reading torn as the only moments in between.
PinNeedsTarget ==
    pin /\ ~torn => target_temperature > 0 \/ command.at = "off"

\* check_runaway is a watchdog: a heater that one check after the other finds
\* out of range of the same target is halted within the time the two phases of
\* the check allow, however readings, commands and kills fall between its steps.
\* A check that was under way when the target was set counts, too; hence the 4.
RunawayCaught ==
    LET longest == IF runaway_heating_timeout >= runaway_cooling_timeout
                     THEN runaway_heating_timeout ELSE runaway_cooling_timeout
    IN  astray <= longest + RunawayTime + 4

\* A task has loaded the byte before the interrupt flagged a violation in it
\* and is about to store it back, or the timer task, which has halted the machine
\* for one violation, is still to clear the flag when M999 has been given and the
\* next violation comes: that violation will be lost.
Losing == /\ temp_violated
          /\ \/ command.at = "store" /\ ~command.violated
             \/ check.at = "store" /\ ~check.violated
             \/ check.at \in {"clear", "erase"}

\* A reading out of the permitted range halts the machine in the end, though
\* the interrupt that sees it only leaves a flag for the timer task, unless a
\* task is writing the byte that the flag shares with runaway_state.
ViolationHeard == temp_violated ~> (halted \/ Losing)

Near == ~Low(last_reading, runaway_range) /\ ~High(last_reading, runaway_range)

\* M109 does not wait for ever: it ends by the target reached, by a kill, or
\* because the watchdog halts a heater that does not come near its target.
\* (Near it, below the target, nothing ends the wait.)
WaitEnds == command.at = "asleep" ~> (command.at = "ready" \/ Near)

\* A halted machine does not heat: "turn off heater" (TemperatureControl.cpp,
\* on_halt), "All mosfets have been turned off until HALT is cleared".
HaltedHeaterOff == halted /\ Quiet /\ ~torn => ~pin
=============================================================================
