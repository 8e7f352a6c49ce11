---------------------------- MODULE Heater_proofs ----------------------------
(***************************************************************************)
(* Proofs about Heater, for every temperature, setting and timeout.        *)
(*                                                                         *)
(* HaltTurnsOff needs to know who may still put things right while the     *)
(* target is set on a halted machine (Pending), and that the pin stays off *)
(* or torn once an on_halt has turned it off (Dark).  RunawayCaught needs  *)
(* the number of checks the states of check_runaway have taken so far, as  *)
(* they are or as the timer task is about to write them (Counted).         *)
(***************************************************************************)
EXTENDS Heater, TLAPS

\* The actions, one by one.
Actions ==
    \/ thermistor_read_tick \/ Dispatch
    \/ \E t \in Tasks : Release(t)
    \/ \E t \in {"comms", "timer"} : Kill(t)
    \/ \E t \in Tasks : PinOff(t) \/ TargetOff(t)
    \/ SetTarget \/ HeaterOff \/ LoadByte \/ StoreByte
    \/ TestReading \/ HaltedItself \/ Wake
    \/ CheckBegins \/ CheckViolated \/ CheckOff \/ CheckReads \/ CheckSwitch
    \/ CheckRunaway \/ LoadChecked \/ StoreChecked

\* A step is one of the actions, the disjunctions of the tasks taken apart.
LEMMA StepIsAction == Next => Actions
BY DEF Next, Actions, CommandThread, TimerTask, OnHalt, Tasks

-----------------------------------------------------------------------------
(***************************************************************************)
(* Types.                                                                  *)
(***************************************************************************)

\* What M104 asks for never passes max_temp (the clamp of set_desired_temperature).
LEMMA DesiredType == \A S \in Settings \cup {0} : Desired(S) \in 0 .. max_temp
<1> SUFFICES ASSUME NEW S \in Settings \cup {0} PROVE Desired(S) \in 0 .. max_temp
  OBVIOUS
<1> DEFINE limited == IF S > max_temp THEN max_temp ELSE S
<1>1. S \in Nat /\ max_temp \in Nat
  BY HeaterAssumption
<1>2. limited \in 0 .. max_temp
  BY <1>1
<1>3. Desired(S) = CASE limited = 1 -> preset1 [] limited = 2 -> preset2
                     [] OTHER -> limited
  BY DEF Desired
<1> HIDE DEF limited
<1>4. CASE limited = 1
  BY <1>3, <1>4, HeaterAssumption
<1>5. CASE limited = 2
  BY <1>3, <1>5, HeaterAssumption
<1>6. CASE limited # 1 /\ limited # 2
  BY <1>2, <1>3, <1>6
<1> QED BY <1>4, <1>5, <1>6

\* What a check decides: a state, a timer that is a number.
LEMMA VerdictType ==
    ASSUME TypeOK
    PROVE  /\ Verdict.state \in States /\ Verdict.timer \in Nat
           /\ Verdict.alarm \in BOOLEAN
<1>1. Alarm.state \in States /\ Alarm.timer \in Nat /\ Alarm.alarm \in BOOLEAN
  BY DEF Alarm, States
<1>2. \A s \in States, n \in Nat :
          /\ Stay(s, n).state \in States /\ Stay(s, n).timer \in Nat
          /\ Stay(s, n).alarm \in BOOLEAN
  BY DEF Stay
<1>3. /\ check.state \in States /\ runaway_timer + 1 \in Nat
      /\ {"HEATING_UP", "COOLING_DOWN", "TARGET_TEMPERATURE_REACHED"}
             \subseteq States /\ 0 \in Nat
  BY DEF TypeOK, States, Checks
<1>4. CASE check.state = "NOT_HEATING"
  <2>1. Verdict = Stay(IF target_temperature >= check.temperature
                         THEN "HEATING_UP" ELSE "COOLING_DOWN", 0)
    BY <1>4 DEF Verdict
  <2> QED BY <2>1, <1>2, <1>3
<1>5. CASE check.state = "TARGET_TEMPERATURE_REACHED"
  <2>1. \/ Verdict = Stay(check.state, 0) \/ Verdict = Alarm
        \/ Verdict = Stay(check.state, runaway_timer + 1)
    BY <1>5 DEF Verdict
  <2> QED BY <2>1, <1>1, <1>2, <1>3
<1>6. CASE check.state \notin {"NOT_HEATING", "TARGET_TEMPERATURE_REACHED"}
  <2>1. \/ Verdict = Stay("TARGET_TEMPERATURE_REACHED", 0) \/ Verdict = Alarm
        \/ Verdict = Stay(check.state, runaway_timer + 1)
    BY <1>6 DEF Verdict
  <2> QED BY <2>1, <1>1, <1>2, <1>3
<1> QED BY <1>4, <1>5, <1>6

\* The types hold initially ...
LEMMA HeaterTypeInit == Init => TypeOK
<1> SUFFICES ASSUME Init PROVE TypeOK
  OBVIOUS
<1>1. command \in Commands /\ check \in Checks
  BY DEF Init, Commands, Checks, Ready, Unchecked, States
<1>2. on_halt \in [Tasks -> {"no", "pin", "target"}]
  BY DEF Init
<1>3. commands \in 0 .. MaxCommands /\ halts \in 0 .. MaxHalts
  BY HeaterAssumption DEF Init
<1>4. /\ target_temperature \in Targets /\ runaway_state \in States
      /\ last_reading \in Temperatures \cup {0, Inf}
  BY DEF Init, Targets, States
<1> QED BY <1>1, <1>2, <1>3, <1>4 DEF Init, TypeOK

\* ... and every action keeps them.
LEMMA HeaterTypeStep == TypeOK /\ [Next]_vars => TypeOK'
<1> SUFFICES ASSUME TypeOK, [Next]_vars PROVE TypeOK'
  OBVIOUS
<1> USE DEF byte, history, vars
<1>1. CASE thermistor_read_tick
  BY <1>1 DEF thermistor_read_tick, Violated, pid_process, TypeOK, Targets
<1>2. ASSUME NEW t \in Tasks, Release(t) PROVE TypeOK'
  BY <1>2 DEF Release, TypeOK
<1>3. CASE Dispatch
  <2>1. command' \in Commands
    BY <1>3 DEF Dispatch, Commands
  <2>2. commands' \in 0 .. MaxCommands
    BY <1>3, HeaterAssumption DEF Dispatch, TypeOK
  <2> QED BY <1>3, <2>1, <2>2 DEF Dispatch, TypeOK
<1>4. ASSUME NEW t \in {"comms", "timer"}, Kill(t) PROVE TypeOK'
  <2>1. halts' \in 0 .. MaxHalts
    BY <1>4, HeaterAssumption DEF Kill, TypeOK
  <2> QED BY <1>4, <2>1 DEF Kill, Broadcast, TypeOK
<1>5. ASSUME NEW t \in Tasks, PinOff(t) PROVE TypeOK'
  BY <1>5 DEF PinOff, TypeOK
<1>6. ASSUME NEW t \in Tasks, TargetOff(t) PROVE TypeOK'
  BY <1>6 DEF TargetOff, TypeOK, Targets
<1>7. CASE SetTarget
  <2>1. command.S \in Settings \cup {0}
    BY DEF TypeOK, Commands
  <2>2. target_temperature' \in Targets
    BY <1>7, <2>1, DesiredType DEF SetTarget, Targets
  <2>3. command' \in Commands
    BY <1>7 DEF SetTarget, TypeOK, Commands
  <2> QED BY <1>7, <2>2, <2>3 DEF SetTarget, TypeOK
<1>8. CASE HeaterOff
  <2>1. command' \in Commands
    BY <1>8 DEF HeaterOff, TypeOK, Commands, Ready
  <2> QED BY <1>8, <2>1 DEF HeaterOff, TypeOK
<1>9. CASE LoadByte
  <2>1. command' \in Commands
    BY <1>9 DEF LoadByte, TypeOK, Commands
  <2> QED BY <1>9, <2>1 DEF LoadByte, TypeOK
<1>10. CASE StoreByte
  <2>1. command' \in Commands /\ temp_violated' \in BOOLEAN
    BY <1>10 DEF StoreByte, TypeOK, Commands, Ready
  <2> QED BY <1>10, <2>1 DEF StoreByte, TypeOK, States
<1>11. CASE TestReading
  <2>1. command' \in Commands
    <3>1. /\ [command EXCEPT !.at = "halt"] \in Commands
          /\ [command EXCEPT !.at = "asleep"] \in Commands /\ Ready \in Commands
      BY DEF TypeOK, Commands, Ready
    <3>2. \/ command' = [command EXCEPT !.at = "halt"]
          \/ command' = [command EXCEPT !.at = "asleep"] \/ command' = Ready
      BY <1>11 DEF TestReading
    <3> QED BY <3>1, <3>2
  <2>2. /\ halted' \in BOOLEAN /\ overtaken' \in BOOLEAN
        /\ on_halt' \in [Tasks -> {"no", "pin", "target"}]
    BY <1>11 DEF TestReading, Broadcast, TypeOK, Tasks
  <2> QED BY <1>11, <2>1, <2>2 DEF TestReading, TypeOK
<1>12. CASE HaltedItself
  <2>1. command' \in Commands
    BY <1>12 DEF HaltedItself, Commands, Ready
  <2> QED BY <1>12, <2>1 DEF HaltedItself, TypeOK
<1>13. CASE Wake
  <2>1. command' \in Commands
    BY <1>13 DEF Wake, Commands, Ready
  <2> QED BY <1>13, <2>1 DEF Wake, TypeOK
<1>14. CASE CheckViolated
  <2>1. check' \in Checks
    BY <1>14 DEF CheckViolated, TypeOK, Checks
  <2> QED BY <1>14, <2>1 DEF CheckViolated, Broadcast, TypeOK, Tasks
<1>15. CASE CheckOff
  <2>1. check' \in Checks
    BY <1>15 DEF CheckOff, TypeOK, Checks, States
  <2> QED BY <1>15, <2>1 DEF CheckOff, TypeOK
<1>s. CASE CheckBegins \/ CheckReads \/ CheckSwitch
  <2>1. check' \in Checks
    <3>1. CASE CheckReads
      <4>1. last_reading # Inf =>
                [check EXCEPT !.at = "active", !.temperature = last_reading]
                    \in Checks
        BY DEF TypeOK, Checks
      <4>2. Unchecked \in Checks
        BY DEF Unchecked, Checks, States
      <4> QED BY <3>1, <4>1, <4>2 DEF CheckReads
    <3>2. CASE CheckBegins \/ CheckSwitch
      BY <3>2 DEF CheckBegins, CheckSwitch, TypeOK, Checks
    <3> QED BY <1>s, <3>1, <3>2
  <2> QED BY <1>s, <2>1 DEF CheckBegins, CheckReads, CheckSwitch, TypeOK
<1>16. CASE CheckRunaway
  <2>1. /\ Verdict.state \in States /\ Verdict.timer \in Nat
        /\ Verdict.alarm \in BOOLEAN
    BY VerdictType
  <2>2. runaway_timer' \in Nat
    BY <1>16, <2>1 DEF CheckRunaway
  <2>3. check' \in Checks
    BY <1>16, <2>1 DEF CheckRunaway, TypeOK, Checks, Unchecked, States
  <2>4. /\ halted' \in BOOLEAN /\ overtaken' \in BOOLEAN
        /\ on_halt' \in [Tasks -> {"no", "pin", "target"}]
    BY <1>16, <2>1 DEF CheckRunaway, Broadcast, TypeOK, Tasks
  <2>5. astray' \in Nat
    BY <1>16 DEF CheckRunaway, TypeOK
  <2> QED BY <1>16, <2>2, <2>3, <2>4, <2>5 DEF CheckRunaway, TypeOK
<1>17. CASE LoadChecked
  <2>1. check' \in Checks
    BY <1>17 DEF LoadChecked, TypeOK, Checks
  <2> QED BY <1>17, <2>1 DEF LoadChecked, TypeOK
<1>18. CASE StoreChecked
  <2>1. /\ runaway_state' \in States /\ temp_violated' \in BOOLEAN
        /\ check' \in Checks
    BY <1>18 DEF StoreChecked, TypeOK, Checks, Unchecked, States
  <2> QED BY <1>18, <2>1 DEF StoreChecked, TypeOK
<1>19. CASE UNCHANGED vars
  BY <1>19 DEF TypeOK
<1> QED
  BY <1>1, <1>2, <1>3, <1>4, <1>5, <1>6, <1>7, <1>8, <1>9, <1>10, <1>11, <1>12,
     <1>13, <1>14, <1>15, <1>s, <1>16, <1>17, <1>18, <1>19, StepIsAction
     DEF Actions

\* Every variable keeps its type; what an M104 sets never passes max_temp,
\* which the model has the presets respect.
THEOREM HeaterTypeCorrect == Spec => []TypeOK
BY HeaterTypeInit, HeaterTypeStep, PTL DEF Spec

-----------------------------------------------------------------------------
(***************************************************************************)
(* A halt turns the heater off.                                            *)
(***************************************************************************)

Running == \E t \in Tasks : on_halt[t] # "no"

\* A target on a halted machine is a command's that was under way, or an
\* on_halt is still to drop it.
Pending == halted /\ ~overtaken /\ target_temperature > 0 => Running

\* Once one on_halt has turned the pin off, only a reading turns it on again.
Torn == (\E t \in Tasks : on_halt[t] = "target") => (pin => torn)

Dark == halted /\ ~overtaken /\ ~Running => (pin => torn)

HInv == TypeOK /\ Pending /\ Torn /\ Dark /\ PinNeedsTarget

\* The invariant behind HaltTurnsOff holds initially ...
LEMMA HaltInit == Init => HInv
<1> SUFFICES ASSUME Init PROVE HInv
  OBVIOUS
<1> QED BY HeaterTypeInit
      DEF Init, HInv, Pending, Torn, Dark, PinNeedsTarget

\* ... and every action keeps it.
LEMMA HaltStep == HInv /\ [Next]_vars => HInv'
<1> SUFFICES ASSUME HInv, [Next]_vars PROVE HInv'
  OBVIOUS
<1>0. TypeOK /\ TypeOK'
  BY HeaterTypeStep DEF HInv
<1> USE DEF byte, history, vars
<1>1. CASE thermistor_read_tick
  <2>1. \/ UNCHANGED <<target_temperature, pin, torn>>
        \/ /\ target_temperature' = UNDEFINED /\ ~pin'
        \/ /\ target_temperature' = target_temperature /\ target_temperature > 2
           /\ torn' = \E t \in Tasks : on_halt[t] = "target"
    <3>1. PICK temperature \in Temperatures \cup {Inf} :
            IF target_temperature <= 2
              THEN UNCHANGED <<target_temperature, pin, temp_violated, torn>>
            ELSE IF Violation(temperature) THEN Violated ELSE pid_process
      BY <1>1 DEF thermistor_read_tick
    <3>2. ~(target_temperature <= 2) => target_temperature > 2
      BY <1>0 DEF TypeOK, Targets, UNDEFINED
    <3>3. Violated => target_temperature' = UNDEFINED /\ ~pin'
      BY DEF Violated
    <3>4. pid_process =>
             /\ target_temperature' = target_temperature
             /\ torn' = \E t \in Tasks : on_halt[t] = "target"
      BY Zenon DEF pid_process
    <3> QED BY <3>1, <3>2, <3>3, <3>4, Zenon
  <2>2. UNCHANGED <<halted, on_halt, overtaken, command>>
    BY <1>1 DEF thermistor_read_tick
  <2>3. CASE UNCHANGED <<target_temperature, pin, torn>>
    BY <1>0, <2>2, <2>3 DEF HInv, Pending, Torn, Dark, PinNeedsTarget, Running
  <2>4. CASE target_temperature' = UNDEFINED /\ ~pin'
    BY <1>0, <2>2, <2>4
      DEF HInv, Pending, Torn, Dark, PinNeedsTarget, Running, UNDEFINED
  <2>5. CASE /\ target_temperature' = target_temperature
             /\ target_temperature > 2
             /\ torn' = \E t \in Tasks : on_halt[t] = "target"
    <3>1. target_temperature > 0
      BY <2>5, <1>0 DEF TypeOK, Targets, UNDEFINED
    <3> QED BY <1>0, <2>2, <2>5, <3>1
              DEF HInv, Pending, Torn, Dark, PinNeedsTarget, Running
  <2> QED BY <2>1, <2>3, <2>4, <2>5
<1>2. ASSUME NEW t \in Tasks, Release(t) PROVE HInv'
  BY <1>0, <1>2 DEF Release, HInv, Pending, Torn, Dark, PinNeedsTarget
<1>3. CASE Dispatch
  <2>1. command.at # "off" /\ ~halted /\ UNCHANGED <<halted, on_halt, overtaken>>
    BY <1>3 DEF Dispatch
  <2> QED BY <1>0, <1>3, <2>1
            DEF Dispatch, HInv, Pending, Torn, Dark, PinNeedsTarget
<1>4. ASSUME NEW t \in {"comms", "timer"}, Kill(t) PROVE HInv'
  <2>1. /\ on_halt'[t] # "no" /\ t \in Tasks
        /\ \A u \in Tasks : on_halt'[u] = "target" => on_halt[u] = "target"
    BY <1>0, <1>4 DEF Kill, Broadcast, TypeOK, Tasks
  <2>2. UNCHANGED <<target_temperature, pin, torn, command>>
    BY <1>4 DEF Kill
  <2> QED BY <1>0, <2>1, <2>2
            DEF HInv, Pending, Torn, Dark, PinNeedsTarget, Running
<1>5. ASSUME NEW t \in Tasks, PinOff(t) PROVE HInv'
  <2>1. /\ on_halt'[t] # "no" /\ ~pin'
        /\ UNCHANGED <<target_temperature, halted, overtaken, command>>
    BY <1>0, <1>5 DEF PinOff, TypeOK
  <2> QED BY <1>0, <2>1 DEF HInv, Pending, Torn, Dark, PinNeedsTarget, Running
<1>6. ASSUME NEW t \in Tasks, TargetOff(t) PROVE HInv'
  <2>1. /\ on_halt[t] = "target" /\ ~(target_temperature' > 0)
        /\ \A u \in Tasks : on_halt'[u] = "target" => on_halt[u] = "target"
        /\ UNCHANGED <<pin, torn, halted, overtaken, command>>
    BY <1>0, <1>6 DEF TargetOff, TypeOK, UNDEFINED
  <2>2. pin => torn
    BY <2>1 DEF HInv, Torn
  <2> QED BY <1>0, <2>1, <2>2 DEF HInv, Pending, Torn, Dark, PinNeedsTarget
<1>7. CASE SetTarget
  <2>1. /\ UNCHANGED <<pin, torn, halted, on_halt>>
        /\ overtaken' = (overtaken \/ (halted /\ target_temperature' > 0))
    BY <1>7 DEF SetTarget
  <2>2. target_temperature' > 0 \/ command'.at = "off"
    BY <1>0, <1>7 DEF SetTarget, TypeOK, Commands, Targets, UNDEFINED
  <2> QED BY <1>0, <2>1, <2>2
            DEF HInv, Pending, Torn, Dark, PinNeedsTarget, Running
<1>8. CASE HeaterOff
  BY <1>0, <1>8 DEF HeaterOff, HInv, Pending, Torn, Dark, PinNeedsTarget, Running
<1>9. CASE LoadByte \/ StoreByte \/ HaltedItself \/ Wake
  <2>1. /\ command.at # "off"
        /\ UNCHANGED <<target_temperature, pin, torn, halted, on_halt, overtaken>>
    BY <1>9 DEF LoadByte, StoreByte, HaltedItself, Wake
  <2> QED BY <1>0, <2>1 DEF HInv, Pending, Torn, Dark, PinNeedsTarget, Running
<1>10. CASE TestReading
  <2>1. command.at # "off" /\ UNCHANGED <<target_temperature, pin, torn>>
    BY <1>10 DEF TestReading
  <2>2. \/ UNCHANGED <<halted, on_halt, overtaken>>
        \/ /\ on_halt'["command"] = "pin" /\ "command" \in Tasks
           /\ \A u \in Tasks : on_halt'[u] = "target" => on_halt[u] = "target"
    BY <1>0, <1>10 DEF TestReading, Broadcast, TypeOK, Tasks
  <2> QED BY <1>0, <2>1, <2>2
            DEF HInv, Pending, Torn, Dark, PinNeedsTarget, Running
<1>11. CASE CheckViolated \/ CheckRunaway
  <2>1. UNCHANGED <<target_temperature, pin, torn, command>>
    BY <1>11 DEF CheckViolated, CheckRunaway
  <2>2. \/ UNCHANGED <<halted, on_halt, overtaken>>
        \/ /\ on_halt'["timer"] = "pin" /\ "timer" \in Tasks
           /\ \A u \in Tasks : on_halt'[u] = "target" => on_halt[u] = "target"
    BY <1>0, <1>11 DEF CheckViolated, CheckRunaway, Broadcast, TypeOK, Tasks
  <2> QED BY <1>0, <2>1, <2>2
            DEF HInv, Pending, Torn, Dark, PinNeedsTarget, Running
<1>12. CASE \/ CheckBegins \/ CheckOff \/ CheckReads \/ CheckSwitch
            \/ LoadChecked \/ StoreChecked \/ UNCHANGED vars
  <2>1. UNCHANGED <<target_temperature, pin, torn, command, halted, on_halt,
                    overtaken>>
    BY <1>12 DEF CheckBegins, CheckOff, CheckReads, CheckSwitch, LoadChecked,
                 StoreChecked
  <2> QED BY <1>0, <2>1 DEF HInv, Pending, Torn, Dark, PinNeedsTarget, Running
<1> QED
  BY <1>1, <1>2, <1>3, <1>4, <1>5, <1>6, <1>7, <1>8, <1>9, <1>10, <1>11, <1>12,
     StepIsAction DEF Actions

\* So the heater of a halted machine is off or about to be, but for the two
\* exceptions of HaltTurnsOff.
LEMMA HaltInvariant == Spec => []HInv
BY HaltInit, HaltStep, PTL DEF Spec

\* Whenever no task is in on_halt on a halted machine, the heater's target is
\* gone and its pin is off, but for a command that was under way and a reading
\* that fell between the two writes of on_halt.
THEOREM HaltTurnsHeaterOff == Spec => []HaltTurnsOff
<1>1. HInv => HaltTurnsOff
  BY DEF HInv, TypeOK, Targets, UNDEFINED, Pending, Dark, HaltTurnsOff, Running,
         Quiet
<1> QED BY <1>1, HaltInvariant, PTL

\* No way of dropping the target leaves the pin on.
THEOREM PinFollowsTarget == Spec => []PinNeedsTarget
<1>1. HInv => PinNeedsTarget
  BY DEF HInv
<1> QED BY <1>1, HaltInvariant, PTL

-----------------------------------------------------------------------------
(***************************************************************************)
(* The watchdog.                                                           *)
(***************************************************************************)

Longest == IF runaway_heating_timeout >= runaway_cooling_timeout
             THEN runaway_heating_timeout ELSE runaway_cooling_timeout

\* The state check_runaway is in, has read, or will be in once the timer task has
\* written it.
Current == IF check.at \in {"switched", "load", "store"} THEN check.state
                                                         ELSE runaway_state

\* The checks so far, where each of them was counted: one that was under way when
\* the target was set, one to begin, one for each second of the two phases, one
\* to reach the target.
Counted ==
    \/ Current = "NOT_HEATING" /\ astray <= 1
    \/ /\ Current \in {"HEATING_UP", "COOLING_DOWN"}
       /\ astray <= 2 + runaway_timer /\ runaway_timer <= Longest
    \/ /\ Current = "TARGET_TEMPERATURE_REACHED"
       /\ astray <= 3 + Longest + runaway_timer
       /\ runaway_timer <= RunawayTime

\* Where they are not, a halt drops the target or a command has just set it; a
\* check that has found a target is counted even if the target is gone meanwhile.
Caught ==
    /\ astray <= Longest + RunawayTime + 4
    /\ \/ astray = 0
       \/ check.at \notin {"clear", "erase"} /\ Counted
       \/ /\ check.at \notin {"active", "switched"}
          /\ target_temperature <= 0 \/ on_halt["timer"] # "no"

\* The state a check has read is still the state, unless a command has set a
\* target and reset it.
Switched ==
    check.at = "switched" => \/ runaway_state = check.state
                             \/ runaway_state = "NOT_HEATING" /\ astray = 0

\* While the command thread sets a target the timer task does not run.
Fresh == command.at \in {"off", "load", "store"} => astray = 0

RInv == TypeOK /\ Caught /\ Switched /\ Fresh

\* Each of the two timeouts is at most the longer one.
LEMMA LongestTimeout ==
    /\ Longest \in Nat /\ Longest + RunawayTime + 4 \in Nat
    /\ Timeout <= Longest /\ Timeout \in Nat
BY HeaterAssumption DEF Longest, Timeout

\* A step that leaves the checks alone and the target on or off.
LEMMA CaughtUnchanged ==
    ASSUME TypeOK, Caught, target_temperature' <= 0 \/ UNCHANGED target_temperature,
           UNCHANGED <<astray, check, runaway_state, runaway_timer>>,
           on_halt["timer"] # "no" => on_halt'["timer"] # "no"
    PROVE  Caught' /\ (Switched => Switched')
BY DEF Caught, Counted, Current, Longest, Switched

\* The invariant behind RunawayCaught holds initially ...
LEMMA RunawayInit == Init => RInv
<1> SUFFICES ASSUME Init PROVE RInv
  OBVIOUS
<1>1. Caught /\ Switched /\ Fresh
  BY LongestTimeout DEF Init, Caught, Switched, Fresh, Unchecked
<1> QED BY <1>1, HeaterTypeInit DEF RInv

\* ... and every action keeps it.
LEMMA RunawayStep == RInv /\ [Next]_vars => RInv'
<1> SUFFICES ASSUME RInv, [Next]_vars PROVE Caught' /\ Switched' /\ Fresh'
  BY HeaterTypeStep DEF RInv
<1>0. TypeOK /\ TypeOK' /\ Caught /\ Switched /\ Fresh
  BY HeaterTypeStep DEF RInv
<1>r. /\ \A t \in Tasks : Runs(t) /\ t = "timer" =>
            command.at \in {"ready", "idle", "asleep"}
      /\ "timer" \in Tasks
  BY DEF Runs, Tasks
<1> USE DEF byte, history, vars
<1>1. CASE thermistor_read_tick
  <2>1. \/ UNCHANGED target_temperature \/ target_temperature' <= 0
    <3>1. \/ UNCHANGED target_temperature \/ Violated \/ pid_process
      BY <1>1 DEF thermistor_read_tick
    <3>2. Violated => target_temperature' <= 0
      BY DEF Violated, UNDEFINED
    <3>3. pid_process => UNCHANGED target_temperature
      BY Zenon DEF pid_process
    <3> QED BY <3>1, <3>2, <3>3
  <2>2. UNCHANGED <<astray, check, runaway_state, runaway_timer, on_halt, command>>
    BY <1>1 DEF thermistor_read_tick
  <2> QED BY <1>0, <2>1, <2>2, CaughtUnchanged DEF Fresh
<1>2. CASE \/ \E t \in Tasks : Release(t)
           \/ Dispatch \/ HeaterOff \/ LoadByte \/ Wake \/ HaltedItself
           \/ UNCHANGED vars
  <2>1. /\ UNCHANGED <<target_temperature, astray, check, runaway_state,
                       runaway_timer, on_halt>>
        /\ \/ command'.at \notin {"off", "load", "store"}
           \/ command.at \in {"off", "load", "store"}
           \/ command' = command
    BY <1>2, <1>0 DEF Release, Dispatch, HeaterOff, LoadByte, Wake, HaltedItself,
                      Ready, TypeOK, Commands
  <2> QED BY <1>0, <2>1, CaughtUnchanged DEF Fresh
<1>3. ASSUME NEW t \in {"comms", "timer"}, Kill(t) PROVE Caught' /\ Switched' /\ Fresh'
  <2>1. /\ UNCHANGED <<target_temperature, astray, check, runaway_state,
                       runaway_timer, command>>
        /\ on_halt["timer"] # "no" => on_halt'["timer"] # "no"
    BY <1>0, <1>3 DEF Kill, Broadcast, TypeOK, Tasks
  <2> QED BY <1>0, <2>1, CaughtUnchanged DEF Fresh
<1>4. ASSUME NEW t \in Tasks, PinOff(t) PROVE Caught' /\ Switched' /\ Fresh'
  <2>1. /\ UNCHANGED <<target_temperature, astray, check, runaway_state,
                       runaway_timer, command>>
        /\ on_halt["timer"] # "no" => on_halt'["timer"] # "no"
    BY <1>0, <1>4 DEF PinOff, TypeOK, Tasks
  <2> QED BY <1>0, <2>1, CaughtUnchanged DEF Fresh
<1>5. ASSUME NEW t \in Tasks, TargetOff(t) PROVE Caught' /\ Switched' /\ Fresh'
  <2>1. /\ target_temperature' <= 0
        /\ UNCHANGED <<astray, command, check, runaway_state, runaway_timer>>
    BY <1>5 DEF TargetOff, UNDEFINED
  <2> QED BY <1>0, <2>1 DEF Caught, Counted, Current, Switched, Fresh, Longest
<1>6. CASE SetTarget
  <2>1. astray' = 0 /\ UNCHANGED <<check, runaway_state>>
    BY <1>6 DEF SetTarget
  <2> QED BY <1>0, <2>1, LongestTimeout DEF Caught, Switched, Fresh, Longest
<1>7. CASE StoreByte
  <2>1. /\ astray' = 0 /\ astray = 0 /\ runaway_state' = "NOT_HEATING"
    BY <1>0, <1>7 DEF StoreByte, Fresh
  <2> QED BY <2>1, LongestTimeout DEF Caught, Switched, Fresh, Longest
<1>8. CASE TestReading
  <2>1. /\ UNCHANGED <<target_temperature, astray, check, runaway_state,
                       runaway_timer>>
        /\ on_halt["timer"] # "no" => on_halt'["timer"] # "no"
    BY <1>0, <1>8 DEF TestReading, Broadcast, TypeOK, Tasks
  <2>2. command'.at \notin {"off", "load", "store"}
    BY <1>0, <1>8 DEF TestReading, Ready, TypeOK, Commands
  <2> QED BY <1>0, <2>1, <2>2, CaughtUnchanged DEF Fresh
<1>9. CASE CheckBegins \/ CheckViolated \/ CheckOff
  <2>1. /\ UNCHANGED <<target_temperature, astray, command, runaway_state,
                       runaway_timer>>
        /\ check.at \in {"ready", "begun", "tested"}
        /\ on_halt["timer"] = "no"
    BY <1>9 DEF CheckBegins, CheckViolated, CheckOff, Checking
  <2>2. \/ check'.at = "clear" /\ on_halt'["timer"] # "no"
        \/ check'.at \in {"begun", "tested"}
        \/ check'.at = "load" /\ target_temperature <= 0
    BY <1>0, <1>9, <1>r
      DEF CheckBegins, CheckViolated, CheckOff, Broadcast, TypeOK, Checks
  <2>3. check'.at \in {"begun", "tested"} => Counted' = Counted
    BY <2>1 DEF Counted, Current, Longest
  <2> QED BY <1>0, <2>1, <2>2, <2>3 DEF Caught, Switched, Fresh, Longest
<1>10. CASE CheckReads \/ CheckSwitch
  <2>1. /\ UNCHANGED <<target_temperature, astray, command, runaway_state,
                       runaway_timer>>
        /\ on_halt["timer"] = "no" /\ check.at \in {"tested", "active"}
        /\ check.at = "tested" => target_temperature > 0
    BY <1>10 DEF CheckReads, CheckSwitch, Checking
  <2>2. \/ check'.at \in {"ready", "active"}
        \/ check'.at = "switched" /\ check'.state = runaway_state
    <3>1. CASE CheckReads
      <4>1. \/ check' = Unchecked
            \/ check' = [check EXCEPT !.at = "active",
                                      !.temperature = last_reading]
        BY <3>1 DEF CheckReads
      <4>2. Unchecked.at = "ready"
        BY DEF Unchecked
      <4>3. [check EXCEPT !.at = "active",
                          !.temperature = last_reading].at = "active"
        BY <1>0 DEF TypeOK, Checks
      <4> QED BY <4>1, <4>2, <4>3
    <3>2. CASE CheckSwitch
      BY <1>0, <3>2 DEF CheckSwitch, TypeOK, Checks
    <3> QED BY <1>10, <3>1, <3>2
  <2>3. Counted' = Counted
    BY <2>1, <2>2 DEF Counted, Current, Longest
  <2>4. astray = 0 \/ Counted
    BY <1>0, <2>1 DEF Caught, TypeOK, Targets, UNDEFINED
  <2> QED BY <1>0, <2>1, <2>2, <2>3, <2>4 DEF Caught, Switched, Fresh, Longest
<1>11. CASE CheckRunaway
  <2>1. /\ check.at = "switched" /\ on_halt["timer"] = "no"
        /\ command.at \in {"ready", "idle", "asleep"} /\ command' = command
        /\ UNCHANGED <<runaway_state, target_temperature>>
        /\ runaway_timer' = Verdict.timer
        /\ astray' = astray + 1 \/ astray' = 0
    BY <1>11, <1>r DEF CheckRunaway, Checking
  <2>3. /\ astray = 0 \/ Counted
        /\ \/ runaway_state = check.state
           \/ runaway_state = "NOT_HEATING" /\ astray = 0
    BY <1>0, <2>1 DEF Caught, Switched
  <2>4. /\ Verdict.alarm => on_halt'["timer"] # "no"
        /\ IF Verdict.state = check.state THEN check' = Unchecked
           ELSE check'.at = "load" /\ check'.state = Verdict.state
    BY <1>0, <1>11, <1>r DEF CheckRunaway, Broadcast, TypeOK, Checks, Unchecked
  <2>2. Fresh' /\ Switched' /\ check'.at \in {"ready", "load"}
    BY <2>1, <2>4 DEF Fresh, Switched, Unchecked
  <2>6. Current = check.state
    BY <2>1 DEF Current
  <2>7. /\ astray \in Nat /\ astray' \in Nat /\ runaway_timer \in Nat
        /\ Timeout <= Longest /\ Longest \in Nat /\ RunawayTime \in Nat
        /\ Longest' = Longest /\ Timeout \in Nat
    BY <1>0, LongestTimeout, HeaterAssumption DEF TypeOK, Longest
  <2>5. \/ Current' = Verdict.state
        \/ Current' = "NOT_HEATING" /\ astray' <= 1
    BY <2>1, <2>3, <2>4, <2>7 DEF Current, Unchecked
  <2>c. ASSUME Current' = "NOT_HEATING" /\ astray' <= 1 PROVE Caught'
    BY <2>2, <2>7, <2>c DEF Caught, Counted
  <2>8. CASE Verdict = Alarm
    <3>1. astray <= 3 + Longest + RunawayTime
      BY <2>3, <2>7 DEF Counted
    <3> QED BY <2>1, <2>2, <2>4, <2>7, <2>8, <3>1 DEF Caught, Alarm
  <2>9. CASE check.state = "NOT_HEATING"
    <3>1. astray <= 1
      BY <2>3, <2>6, <2>7, <2>9 DEF Counted
    <3>2. /\ Verdict.state \in {"HEATING_UP", "COOLING_DOWN"} /\ Verdict.timer = 0
      BY <2>9 DEF Verdict, Stay
    <3> QED BY <2>1, <2>2, <2>5, <2>c, <2>7, <3>1, <3>2 DEF Caught, Counted
  <2>10. CASE check.state = "TARGET_TEMPERATURE_REACHED" /\ Verdict # Alarm
    <3>1. astray <= 3 + Longest + runaway_timer
      BY <2>3, <2>6, <2>7, <2>10 DEF Counted
    <3>2. \/ ~CheckedLow(runaway_range) /\ ~CheckedHigh(runaway_range)
             /\ Verdict = Stay(check.state, 0)
          \/ ~(runaway_timer >= RunawayTime)
             /\ Verdict = Stay(check.state, runaway_timer + 1)
      BY <2>10 DEF Verdict
    <3>3. ~CheckedLow(runaway_range) /\ ~CheckedHigh(runaway_range) => astray' = 0
      BY <1>11 DEF CheckRunaway
    <3>4. CASE astray' = 0 /\ Verdict = Stay(check.state, 0)
      BY <2>1, <2>2, <2>7, <3>4 DEF Caught, Stay
    <3>5. CASE /\ ~(runaway_timer >= RunawayTime)
               /\ Verdict = Stay(check.state, runaway_timer + 1)
      <4>1. /\ Verdict.state = "TARGET_TEMPERATURE_REACHED"
            /\ runaway_timer' = runaway_timer + 1 /\ runaway_timer < RunawayTime
        BY <2>1, <2>7, <2>10, <3>5 DEF Stay
      <4> QED BY <2>1, <2>2, <2>5, <2>c, <2>7, <3>1, <4>1 DEF Caught, Counted
    <3> QED BY <3>2, <3>3, <3>4, <3>5
  <2>11. CASE check.state \in {"HEATING_UP", "COOLING_DOWN"} /\ Verdict # Alarm
    <3>1. astray <= 2 + runaway_timer
      BY <2>3, <2>6, <2>7, <2>11 DEF Counted
    <3>2. astray <= 2 + Longest
      BY <2>3, <2>6, <2>7, <2>11 DEF Counted
    <3>3. \/ Verdict = Stay("TARGET_TEMPERATURE_REACHED", 0)
          \/ ~(runaway_timer >= Timeout)
             /\ Verdict = Stay(check.state, runaway_timer + 1)
      BY <2>11 DEF Verdict
    <3>4. CASE Verdict = Stay("TARGET_TEMPERATURE_REACHED", 0)
      <4>1. Verdict.state = "TARGET_TEMPERATURE_REACHED" /\ runaway_timer' = 0
        BY <2>1, <3>4 DEF Stay
      <4> QED BY <2>1, <2>2, <2>5, <2>c, <2>7, <3>2, <4>1 DEF Caught, Counted
    <3>5. CASE /\ ~(runaway_timer >= Timeout)
               /\ Verdict = Stay(check.state, runaway_timer + 1)
      <4>1. /\ Verdict.state \in {"HEATING_UP", "COOLING_DOWN"}
            /\ runaway_timer' = runaway_timer + 1 /\ runaway_timer < Longest
        BY <2>1, <2>7, <2>11, <3>5 DEF Stay
      <4> QED BY <2>1, <2>2, <2>5, <2>c, <2>7, <3>1, <4>1 DEF Caught, Counted
    <3> QED BY <3>3, <3>4, <3>5
  <2>12. check.state \in States
    BY <1>0 DEF TypeOK, Checks
  <2> QED BY <2>2, <2>8, <2>9, <2>10, <2>11, <2>12 DEF States
<1>12. CASE LoadChecked
  <2>1. /\ UNCHANGED <<target_temperature, astray, runaway_state, runaway_timer,
                       on_halt, command>>
        /\ on_halt["timer"] = "no" /\ check.at \in {"load", "clear"}
        /\ check.at = "load" => check'.at = "store" /\ check'.state = check.state
        /\ check.at = "clear" => check'.at = "erase"
    BY <1>0, <1>12 DEF LoadChecked, TypeOK, Checks
  <2>2. check.at = "load" /\ Counted => Counted'
    BY <2>1 DEF Counted, Current, Longest
  <2> QED BY <1>0, <2>1, <2>2 DEF Caught, Switched, Fresh, Longest
<1>13. CASE StoreChecked
  <2>1. /\ UNCHANGED <<target_temperature, astray, runaway_timer, on_halt, command>>
        /\ check.at \in {"store", "erase"} /\ check'.at = "ready"
        /\ runaway_state' = check.state
    BY <1>0, <1>13 DEF StoreChecked, Unchecked
  <2>2. check.at = "store" /\ Counted => Counted'
    BY <2>1 DEF Counted, Current, Longest
  <2> QED BY <1>0, <2>1, <2>2 DEF Caught, Switched, Fresh, Longest
<1> QED
  BY <1>1, <1>2, <1>3, <1>4, <1>5, <1>6, <1>7, <1>8, <1>9, <1>10, <1>11, <1>12,
     <1>13, StepIsAction DEF Actions

\* A heater that is out of range of its target check after check is halted
\* within the timeouts, whatever their values and however commands, kills,
\* releases and readings fall between the steps of the checks.
THEOREM RunawayIsCaught == Spec => []RunawayCaught
<1>1. RInv => RunawayCaught
  BY DEF RInv, Caught, RunawayCaught, Longest
<1> QED BY <1>1, RunawayInit, RunawayStep, PTL DEF Spec
=============================================================================
