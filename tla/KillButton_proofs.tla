-------------------------- MODULE KillButton_proofs -------------------------
(***************************************************************************)
(* Theorems about Halt, for any tasks and any priorities: the priorities   *)
(* are never used; and about KillButton, for both settings of the button.  *)
(***************************************************************************)
EXTENDS KillButton, TLAPS

-----------------------------------------------------------------------------
(***************************************************************************)
(* The broadcasts.                                                         *)
(***************************************************************************)

\* A broadcast that has not yet told Conveyor, or Robot.
ConveyorPending == \E u \in Tasks : step[u] = "conveyor"
RobotPending == \E u \in Tasks : step[u] \in {"conveyor", "robot"}

\* While no broadcast crosses one of the other direction they all carry the
\* value of Module::halted, and a copy that differs from it is about to be
\* written by one of them.
SameWay == \A u \in Tasks : InBroadcast(u) => flg[u] = module_halted

IInv ==
    /\ HaltTypeOK
    /\ ~clashed =>
          /\ SameWay
          /\ conveyor_halted = module_halted \/ ConveyorPending
          /\ robot_halted = module_halted \/ RobotPending
          /\ module_halted /\ lost => \E u \in Tasks : InBroadcast(u)

\* Every step of every task preserves the type invariant.
LEMMA TypeStep == HaltTypeOK /\ [HaltNext]_haltVars => HaltTypeOK'
<1> SUFFICES ASSUME HaltTypeOK, [HaltNext]_haltVars PROVE HaltTypeOK'
    OBVIOUS
<1> USE DEF HaltTypeOK, Steps
<1>1. CASE UNCHANGED haltVars
    BY <1>1 DEF haltVars, copyVars
<1>2. ASSUME NEW t \in Tasks, Raise(t) PROVE HaltTypeOK'
    BY <1>2 DEF Raise, Call, copyVars
<1>3. ASSUME NEW t \in Tasks, Release(t) PROVE HaltTypeOK'
    BY <1>3 DEF Release, Call, copyVars
<1>4. ASSUME NEW t \in Tasks, Begin(t) PROVE HaltTypeOK'
    BY <1>4 DEF Begin
<1>5. ASSUME NEW t \in Tasks, TellConveyor(t) PROVE HaltTypeOK'
    BY <1>5 DEF TellConveyor
<1>6. ASSUME NEW t \in Tasks, TellRobot(t) PROVE HaltTypeOK'
    BY <1>6 DEF TellRobot
<1>7. ASSUME NEW t \in Tasks, Resync(t) PROVE HaltTypeOK'
    BY <1>7 DEF Resync
<1> QED
    BY <1>1, <1>2, <1>3, <1>4, <1>5, <1>6, <1>7 DEF HaltNext, Broadcast

\* A task that is about to call broadcast_halt disturbs nothing, whatever flag
\* it has read.
LEMMA CallStep ==
    ASSUME IInv, NEW t \in Tasks, NEW f \in BOOLEAN, Call(t, f),
           UNCHANGED <<copyVars, clashed>>
    PROVE  IInv'
<1>1. HaltTypeOK'
    BY DEF IInv, HaltTypeOK, Steps, Call, copyVars
<1>2. \A u \in Tasks : /\ InBroadcast(u)' <=> InBroadcast(u)
                       /\ InBroadcast(u) => flg'[u] = flg[u]
                       /\ step[u] = "conveyor" => step'[u] = "conveyor"
                       /\ step[u] = "robot" => step'[u] = "robot"
    BY DEF IInv, HaltTypeOK, Call, InBroadcast
<1> QED
    BY <1>1, <1>2 DEF IInv, SameWay, ConveyorPending, RobotPending, copyVars

\* Nor does a step that is none of Halt's.
LEMMA UnchangedStep == IInv /\ UNCHANGED haltVars => IInv'
BY DEF IInv, HaltTypeOK, SameWay, ConveyorPending, RobotPending, InBroadcast,
       haltVars, copyVars

\* Every step of every task preserves the inductive invariant.
LEMMA IInvStep == IInv /\ [HaltNext]_haltVars => IInv'
<1> SUFFICES ASSUME IInv, [HaltNext]_haltVars, ~clashed'
             PROVE  /\ SameWay'
                    /\ (conveyor_halted = module_halted \/ ConveyorPending)'
                    /\ (robot_halted = module_halted \/ RobotPending)'
                    /\ (module_halted /\ lost
                            => \E u \in Tasks : InBroadcast(u))'
    BY TypeStep DEF IInv
<1> DEFINE Goal == /\ SameWay'
                   /\ (conveyor_halted = module_halted \/ ConveyorPending)'
                   /\ (robot_halted = module_halted \/ RobotPending)'
                   /\ (module_halted /\ lost
                           => \E u \in Tasks : InBroadcast(u))'
<1> USE DEF IInv, HaltTypeOK, Steps, SameWay, ConveyorPending, RobotPending,
            InBroadcast
<1>1. CASE UNCHANGED haltVars
    BY <1>1, UnchangedStep
<1>2. ASSUME NEW t \in Tasks, Raise(t) \/ Release(t) PROVE Goal
    BY <1>2, CallStep DEF Raise, Release
<1>3. ASSUME NEW t \in Tasks, Begin(t) PROVE Goal
  <2>1. step[t] = "begin" /\ module_halted' = flg[t] /\ flg' = flg
        /\ step' = [step EXCEPT ![t] = "conveyor"]
    BY <1>3 DEF Begin
  <2>2. step'[t] = "conveyor"
    BY <2>1
  <2>3. ASSUME NEW u \in Tasks, step'[u] \in {"conveyor", "robot", "resync"}
        PROVE  flg'[u] = module_halted'
    BY <1>3, <2>1, <2>3 DEF Begin
  <2> QED
    BY <2>2, <2>3
<1>4. ASSUME NEW t \in Tasks, TellConveyor(t) PROVE Goal
    BY <1>4 DEF TellConveyor
<1>5. ASSUME NEW t \in Tasks, TellRobot(t) PROVE Goal
    BY <1>5 DEF TellRobot
<1>6. ASSUME NEW t \in Tasks, Resync(t) PROVE Goal
    BY <1>6 DEF Resync
<1> QED
    BY <1>1, <1>2, <1>3, <1>4, <1>5, <1>6 DEF HaltNext, Broadcast

\* No broadcast has begun in the initial state.
LEMMA InitIInv == HaltInit => IInv
BY DEF HaltInit, IInv, HaltTypeOK, Steps, SameWay, InBroadcast

\* When no broadcast is under way the inductive invariant leaves the two
\* properties.
LEMMA IInvSafe == IInv => HaltHeard /\ HaltResynced
BY DEF IInv, HaltHeard, HaltResynced, Quiet, InBroadcast, ConveyorPending,
       RobotPending

\* The inductive invariant holds in every state broadcast_halt reaches.
THEOREM HaltInvariance == HaltSpec => []IInv
BY InitIInv, IInvStep, PTL DEF HaltSpec

\* broadcast_halt, called by any tasks in any order of their steps: once the
\* broadcasts are over, if none crossed one of the other direction, Conveyor
\* and Robot have the flag of Module.
THEOREM HaltIsHeard == HaltSpec => []HaltHeard
BY HaltInvariance, IInvSafe, PTL

\* ... and the machine is left halted only with its positions resynchronised
\* after the last Robot::on_halt.
THEOREM HaltIsResynced == HaltSpec => []HaltResynced
BY HaltInvariance, IInvSafe, PTL

-----------------------------------------------------------------------------
(***************************************************************************)
(* The button: the count of a press is never ahead of the press itself.    *)
(***************************************************************************)

\* While a press is timed the count is at most the number of successive ticks
\* at which the button was down.
IInvButton ==
    /\ TypeOK
    /\ state = "UNKILL_TIMING_BUTTON_DOWN" => unkill_timer <= held

\* The length of a press.
LEMMA PressTicksValue == PressTicks = 10
BY DEF PressTicks

\* Enter leaves a state of the machine, and at most asks for a broadcast.
LEMMA EnterType ==
    ASSUME TypeOK, NEW s \in States, Enter(s)
    PROVE  /\ state' = s
           /\ step' \in [Tasks -> Steps] /\ flg' \in [Tasks -> BOOLEAN]
BY DEF TypeOK, HaltTypeOK, Enter, Call, Steps

\* What every tick does besides its state: the copies of the halt flag and
\* the button stay, and the ticks the button was down at are counted.
LEMMA InType ==
    ASSUME TypeOK, NEW s, In(s)
    PROVE  /\ UNCHANGED <<module_halted, conveyor_halted, robot_halted, lost,
                          clashed, settings, pressed, killed>>
           /\ ticking' = FALSE /\ state = s
           /\ held' \in 0 .. PressTicks
           /\ pressed /\ held < PressTicks => held' = held + 1
           /\ pressed => held' >= held
BY PressTicksValue DEF TypeOK, In, copyVars, settings

\* A tick keeps the types, whatever state it leaves.
LEMMA TickType ==
    ASSUME TypeOK, NEW s, In(s), NEW z \in States, Enter(z),
           unkill_timer' \in 0 .. PressTicks + 1
    PROVE  TypeOK'
<1>1. HaltTypeOK'
    BY EnterType, InType DEF TypeOK, HaltTypeOK
<1> QED
    BY <1>1, EnterType, InType DEF TypeOK, settings

\* The rest of button_tick preserves the invariant, and it goes to
\* UNKILL_FIRE from the timing state only at the end of a long press.
LEMMA SwitchStep ==
    ASSUME IInvButton, Switch
    PROVE  /\ IInvButton'
           /\ ~toggle_enable /\ state # "UNKILL_FIRE" /\ state' = "UNKILL_FIRE"
                => held = PressTicks
<1> DEFINE Goal ==
      /\ IInvButton'
      /\ ~toggle_enable /\ state # "UNKILL_FIRE" /\ state' = "UNKILL_FIRE"
           => held = PressTicks
<1> USE DEF IInvButton
<1>0. TypeOK /\ unkill_timer \in 0 .. PressTicks + 1
    BY DEF TypeOK
<1>a. ASSUME NEW s, In(s), NEW z \in States, Enter(z), UNCHANGED unkill_timer,
             z # "UNKILL_TIMING_BUTTON_DOWN"
      PROVE  IInvButton' /\ state' = z
    BY <1>a, <1>0, TickType, EnterType
<1>1. CASE Idle
  <2> DEFINE z == IF pressed THEN "KILL_BUTTON_DOWN"
                  ELSE IF unkill_enable /\ ~toggle_enable /\ killed
                         THEN "KILLED_BUTTON_UP"
                  ELSE "IDLE"
  <2>1. z \in States \ {"UNKILL_TIMING_BUTTON_DOWN", "UNKILL_FIRE"}
    BY DEF States
  <2>2. In("IDLE") /\ Enter(z) /\ UNCHANGED unkill_timer
    BY <1>1 DEF Idle
  <2> HIDE DEF z
  <2> QED
    BY <2>1, <2>2, <1>a
<1>2. CASE KillButtonDown
  <2> DEFINE z == IF killed THEN "KILLED_BUTTON_DOWN" ELSE "KILL_BUTTON_DOWN"
  <2>1. z \in States \ {"UNKILL_TIMING_BUTTON_DOWN", "UNKILL_FIRE"}
    BY DEF States
  <2>2. In("KILL_BUTTON_DOWN") /\ Enter(z) /\ UNCHANGED unkill_timer
    BY <1>2 DEF KillButtonDown
  <2> HIDE DEF z
  <2> QED
    BY <2>1, <2>2, <1>a
<1>3. CASE KilledButtonDown
  <2> DEFINE z == IF ~pressed THEN "KILLED_BUTTON_UP"
                  ELSE IF toggle_enable /\ ~killed THEN "KILL_BUTTON_DOWN"
                  ELSE "KILLED_BUTTON_DOWN"
  <2>1. z \in States \ {"UNKILL_TIMING_BUTTON_DOWN", "UNKILL_FIRE"}
    BY DEF States
  <2>2. In("KILLED_BUTTON_DOWN") /\ Enter(z) /\ UNCHANGED unkill_timer
    BY <1>3 DEF KilledButtonDown
  <2> HIDE DEF z
  <2> QED
    BY <2>1, <2>2, <1>a
<1>4. CASE KilledButtonUp
  <2> DEFINE z == IF unkill_enable /\ toggle_enable THEN "UNKILL_FIRE"
                  ELSE IF unkill_enable /\ pressed THEN "UNKILL_BUTTON_DOWN"
                  ELSE IF ~killed THEN "IDLE"
                  ELSE "KILLED_BUTTON_UP"
  <2>1. z \in States \ {"UNKILL_TIMING_BUTTON_DOWN"}
    BY DEF States
  <2>2. In("KILLED_BUTTON_UP") /\ Enter(z) /\ UNCHANGED unkill_timer
    BY <1>4 DEF KilledButtonUp
  <2>3. z = "UNKILL_FIRE" => toggle_enable
    OBVIOUS
  <2> HIDE DEF z
  <2> QED
    BY <2>1, <2>2, <2>3, <1>a
<1>5. CASE UnkillButtonDown
  <2>1. In("UNKILL_BUTTON_DOWN") /\ Enter("UNKILL_TIMING_BUTTON_DOWN")
        /\ unkill_timer' = 0
    BY <1>5 DEF UnkillButtonDown
  <2>2. "UNKILL_TIMING_BUTTON_DOWN" \in States /\ 0 \in 0 .. PressTicks + 1
    BY PressTicksValue DEF States
  <2>3. TypeOK'
    BY <2>1, <2>2, <1>0, TickType
  <2>4. state' = "UNKILL_TIMING_BUTTON_DOWN" /\ held' \in 0 .. PressTicks
    BY <2>1, <2>2, <1>0, EnterType, InType
  <2> QED
    BY <2>1, <2>3, <2>4
<1>6. CASE UnkillTimingButtonDown
  <2> DEFINE z == IF ~killed THEN "IDLE"
                  ELSE IF unkill_timer' > PressTicks THEN "UNKILL_FIRE"
                  ELSE "UNKILL_TIMING_BUTTON_DOWN"
  <2>1. /\ In("UNKILL_TIMING_BUTTON_DOWN") /\ Enter(z)
        /\ unkill_timer' = IF unkill_timer < PressTicks /\ ~pressed
                             THEN 0 ELSE unkill_timer + 1
    BY <1>6 DEF UnkillTimingButtonDown
  <2>2. z \in States
    BY DEF States
  <2>3. /\ held \in 0 .. PressTicks /\ unkill_timer <= held
        /\ held' \in 0 .. PressTicks
        /\ pressed /\ held < PressTicks => held' = held + 1
        /\ pressed => held' >= held
    BY <2>1, <1>0, InType DEF TypeOK
  <2>4. unkill_timer' \in 0 .. PressTicks + 1
    BY <2>1, <2>3, <1>0, PressTicksValue
  <2>5. TypeOK' /\ state' = z
    BY <2>1, <2>2, <2>4, <1>0, TickType, EnterType
  <2>6. z = "UNKILL_TIMING_BUTTON_DOWN" => unkill_timer' <= held'
    <3>1. CASE unkill_timer' = 0
      BY <2>3, <3>1, PressTicksValue
    <3>2. CASE pressed /\ unkill_timer' = unkill_timer + 1
      BY <2>3, <2>4, <3>2, <1>0, PressTicksValue
    <3> QED
      BY <2>1, <2>3, <2>4, <3>1, <3>2, <1>0, PressTicksValue
  <2>7. z = "UNKILL_FIRE" => held = PressTicks
    BY <2>1, <2>3, <1>0, PressTicksValue
  <2> HIDE DEF z
  <2> QED
    BY <2>5, <2>6, <2>7
<1>7. CASE UnkillFire
  <2> DEFINE z == IF killed THEN "UNKILL_FIRE" ELSE "UNKILLED_BUTTON_DOWN"
  <2>1. z \in States \ {"UNKILL_TIMING_BUTTON_DOWN"}
    BY DEF States
  <2>2. In("UNKILL_FIRE") /\ Enter(z) /\ UNCHANGED unkill_timer
    BY <1>7 DEF UnkillFire
  <2>3. state = "UNKILL_FIRE"
    BY <2>2, <1>0, InType
  <2> HIDE DEF z
  <2> QED
    BY <2>1, <2>2, <2>3, <1>a
<1>8. CASE UnkilledButtonDown
  <2> DEFINE z == IF ~pressed THEN "IDLE" ELSE "UNKILLED_BUTTON_DOWN"
  <2>1. z \in States \ {"UNKILL_TIMING_BUTTON_DOWN", "UNKILL_FIRE"}
    BY DEF States
  <2>2. In("UNKILLED_BUTTON_DOWN") /\ Enter(z) /\ UNCHANGED unkill_timer
    BY <1>8 DEF UnkilledButtonDown
  <2> HIDE DEF z
  <2> QED
    BY <2>1, <2>2, <1>a
<1> QED
    BY <1>1, <1>2, <1>3, <1>4, <1>5, <1>6, <1>7, <1>8 DEF Switch

\* Steps outside the tick's switch leave the state and its counts alone.
LEMMA OtherSteps ==
    ASSUME IInvButton, Press \/ TickStart \/ Others \/ UNCHANGED vars
    PROVE  IInvButton' /\ state' = state
<1> USE DEF IInvButton, TypeOK, buttonVars, settings
<1>1. CASE Press
    BY <1>1 DEF Press, haltVars, copyVars, HaltTypeOK
<1>2. CASE TickStart
    BY <1>2 DEF TickStart, haltVars, copyVars, HaltTypeOK
<1>3. CASE Others
  <2>1. HaltNext /\ UNCHANGED <<buttonVars, pressed>>
    BY <1>3 DEF Others, HaltNext
  <2>2. HaltTypeOK'
    BY <2>1, TypeStep
  <2> QED
    BY <2>1, <2>2
<1>4. CASE UNCHANGED vars
    BY <1>4 DEF vars, haltVars, copyVars, HaltTypeOK
<1> QED
    BY <1>1, <1>2, <1>3, <1>4

\* The types are kept and the count stays behind the press.
THEOREM ButtonInvariance == Spec => []IInvButton
<1>1. Init => IInvButton
  <2>1. HaltInit => HaltTypeOK
    BY DEF HaltInit, HaltTypeOK, Steps
  <2>2. 0 \in 0 .. PressTicks /\ 0 \in 0 .. PressTicks + 1
    BY PressTicksValue
  <2>3. Init => TypeOK
    BY <2>1, <2>2 DEF Init, TypeOK, States
  <2> QED
    BY <2>3 DEF Init, IInvButton
<1>2. IInvButton /\ [Next]_vars => IInvButton'
    BY SwitchStep, OtherSteps DEF Next
<1> QED
    BY <1>1, <1>2, PTL DEF Spec

\* TypeOK of KillButton and of the broadcasts, for any tasks.
THEOREM ButtonTypeCorrect == Spec => []TypeOK
<1>1. IInvButton => TypeOK
    BY DEF IInvButton
<1> QED
    BY <1>1, ButtonInvariance, PTL

\* button_tick begins to release a halt only after a press of ten successive
\* ticks, whatever the other tasks broadcast meanwhile.
THEOREM ReleaseNeedsLongPress == Spec => LongPress
<1>1. IInvButton /\ [Next]_vars =>
        [~toggle_enable /\ state # "UNKILL_FIRE" /\ state' = "UNKILL_FIRE"
            => held = PressTicks]_vars
    BY SwitchStep, OtherSteps DEF Next
<1> QED
    BY <1>1, ButtonInvariance, PTL DEF Spec, LongPress

\* The halts and releases the button asks for by a flag read earlier, perhaps
\* out of date, cross those of others no worse than theirs do: what HaltHeard
\* and HaltResynced say of broadcast_halt holds with the button too.
THEOREM ButtonHaltIsHeard == Spec => [](HaltHeard /\ HaltResynced)
<1>1. Init => IInv
    BY InitIInv DEF Init
<1>2. ASSUME IInv, [Next]_vars PROVE IInv'
  <2>1. ASSUME NEW s, In(s), NEW z, Enter(z) PROVE IInv'
    <3>1. CASE UNCHANGED <<step, flg>>
      BY <1>2, <2>1, <3>1, UnchangedStep DEF In, haltVars
    <3>2. CASE \E f \in BOOLEAN : Call(timer, f)
      <4>1. PICK f \in BOOLEAN : Call(timer, f)
        BY <3>2
      <4>2. UNCHANGED <<copyVars, clashed>>
        BY <2>1 DEF In
      <4> QED
        BY <1>2, <4>1, <4>2, CallStep, KillButtonAssumption
    <3> QED
      BY <2>1, <3>1, <3>2 DEF Enter
  <2>2. CASE Switch
    BY <2>1, <2>2 DEF Switch, Idle, KillButtonDown, KilledButtonDown,
        KilledButtonUp, UnkillButtonDown, UnkillTimingButtonDown, UnkillFire,
        UnkilledButtonDown
  <2>3. CASE Others
    BY <2>3, <1>2, IInvStep DEF Others, HaltNext
  <2>4. CASE Press \/ TickStart \/ UNCHANGED vars
    BY <2>4, <1>2, UnchangedStep DEF Press, TickStart, vars
  <2> QED
    BY <1>2, <2>2, <2>3, <2>4 DEF Next
<1>3. IInv => HaltHeard /\ HaltResynced
    BY IInvSafe
<1> QED
    BY <1>1, <1>2, <1>3, PTL DEF Spec
=============================================================================
