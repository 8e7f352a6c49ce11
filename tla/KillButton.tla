----------------------------- MODULE KillButton -----------------------------
(***************************************************************************)
(* KillButton::button_tick, called by the timer task five times a second,  *)
(* with module Halt for the broadcasts it makes and for those of others.   *)
(*                                                                         *)
(* A tick reads Module::halted first and decides by that copy; a task of a *)
(* higher priority may change the flag before the tick ends.  The messages *)
(* it prints are left out, and with them estop_still_pressed.              *)
(***************************************************************************)
EXTENDS Halt

timer == "timer"         \* the task that calls button_tick

PressTicks == 5 * 2      \* "2 second press"

ASSUME KillButtonAssumption == timer \in Tasks

VARIABLES
    toggle_enable,       \* a locking emergency stop instead of a button
    unkill_enable,       \* the button may release a halt
    state, unkill_timer,
    pressed,             \* the button: kill_button.get() is its negation
    ticking, killed,     \* inside button_tick, and its local
    held                 \* history: successive ticks the button was down at,
                         \* up to PressTicks

settings == <<toggle_enable, unkill_enable>>
buttonVars == <<settings, state, unkill_timer, ticking, killed, held>>
vars == <<haltVars, buttonVars, pressed>>

States == {"IDLE", "KILL_BUTTON_DOWN", "KILLED_BUTTON_DOWN",
           "KILLED_BUTTON_UP", "UNKILL_BUTTON_DOWN",
           "UNKILL_TIMING_BUTTON_DOWN", "UNKILL_FIRE",
           "UNKILLED_BUTTON_DOWN"}

TypeOK ==
    /\ HaltTypeOK
    /\ toggle_enable \in BOOLEAN /\ unkill_enable \in BOOLEAN
    /\ state \in States
    /\ unkill_timer \in 0 .. PressTicks + 1          \* six bits
    /\ pressed \in BOOLEAN
    /\ ticking \in BOOLEAN /\ killed \in BOOLEAN
    /\ held \in 0 .. PressTicks

\* The settings are read from the configuration before the timers start.
Init ==
    /\ HaltInit
    /\ toggle_enable \in BOOLEAN /\ unkill_enable \in BOOLEAN
    /\ state = "IDLE" /\ unkill_timer = 0
    /\ pressed = FALSE
    /\ ticking = FALSE /\ killed = FALSE
    /\ held = 0

\* The button is pressed or let go; it says nothing to anybody.
Press ==
    /\ pressed' = ~pressed
    /\ UNCHANGED <<haltVars, buttonVars>>

\* bool killed = is_halted()
TickStart ==
    /\ Runs(timer) /\ step[timer] = "idle"
    /\ ~ticking
    /\ ticking' = TRUE
    /\ killed' = module_halted
    /\ UNCHANGED <<haltVars, settings, state, unkill_timer, held, pressed>>

-----------------------------------------------------------------------------
(***************************************************************************)
(* The rest of the tick: one action for each state.                        *)
(***************************************************************************)

\* The end of the tick, in the state the switch has left: it broadcasts a
\* halt, or a release, only if the flag it read says that there is one to
\* make.
Enter(s) ==
    LET asks == {f \in BOOLEAN : IF f THEN s = "KILL_BUTTON_DOWN" /\ ~killed
                                      ELSE s = "UNKILL_FIRE" /\ killed}
    IN  /\ state' = s
        /\ IF asks = {} THEN UNCHANGED <<step, flg>>
                        ELSE \E f \in asks : Call(timer, f)

\* The switch in state s; the pin is read at most once.
In(s) ==
    /\ Runs(timer)
    /\ ticking /\ state = s
    /\ ticking' = FALSE
    /\ held' = IF ~pressed THEN 0
               ELSE IF held < PressTicks THEN held + 1 ELSE held
    /\ UNCHANGED <<copyVars, clashed, settings, pressed, killed>>

Idle ==
    /\ In("IDLE")
    /\ Enter(IF pressed THEN "KILL_BUTTON_DOWN"
             ELSE IF unkill_enable /\ ~toggle_enable /\ killed
                    THEN "KILLED_BUTTON_UP"  \* another source's halt
             ELSE "IDLE")
    /\ UNCHANGED unkill_timer

KillButtonDown ==
    /\ In("KILL_BUTTON_DOWN")
    /\ Enter(IF killed THEN "KILLED_BUTTON_DOWN" ELSE "KILL_BUTTON_DOWN")
    /\ UNCHANGED unkill_timer

\* A mistake the checks must notice: a latched stop does not halt again.
KilledOnce ==
    /\ In("KILLED_BUTTON_DOWN")
    /\ Enter(IF ~pressed THEN "KILLED_BUTTON_UP" ELSE "KILLED_BUTTON_DOWN")
    /\ UNCHANGED unkill_timer

KilledButtonDown ==
    /\ In("KILLED_BUTTON_DOWN")
    /\ Enter(IF ~pressed THEN "KILLED_BUTTON_UP"
             ELSE IF toggle_enable /\ ~killed THEN "KILL_BUTTON_DOWN"
             ELSE "KILLED_BUTTON_DOWN")
    /\ UNCHANGED unkill_timer

KilledButtonUp ==
    /\ In("KILLED_BUTTON_UP")
    /\ Enter(IF unkill_enable /\ toggle_enable THEN "UNKILL_FIRE"
             ELSE IF unkill_enable /\ pressed THEN "UNKILL_BUTTON_DOWN"
             ELSE IF ~killed THEN "IDLE"
             ELSE "KILLED_BUTTON_UP")
    /\ UNCHANGED unkill_timer

\* A mistake the checks must notice: the count goes on from the last press.
UnkillNotReset ==
    /\ In("UNKILL_BUTTON_DOWN")
    /\ Enter("UNKILL_TIMING_BUTTON_DOWN")
    /\ UNCHANGED unkill_timer

UnkillButtonDown ==
    /\ In("UNKILL_BUTTON_DOWN")
    /\ Enter("UNKILL_TIMING_BUTTON_DOWN")
    /\ unkill_timer' = 0

\* Mistakes the checks must notice: letting go does not restart the count;
\* a halt released by others does not end it.
TimingRunsOn ==
    /\ In("UNKILL_TIMING_BUTTON_DOWN")
    /\ unkill_timer' = unkill_timer + 1
    /\ Enter(IF ~killed THEN "IDLE"
             ELSE IF unkill_timer' > PressTicks THEN "UNKILL_FIRE"
             ELSE "UNKILL_TIMING_BUTTON_DOWN")

TimingDeaf ==
    /\ In("UNKILL_TIMING_BUTTON_DOWN")
    /\ unkill_timer' = IF unkill_timer < PressTicks /\ ~pressed
                         THEN 0 ELSE unkill_timer + 1
    /\ Enter(IF unkill_timer' > PressTicks THEN "UNKILL_FIRE"
             ELSE "UNKILL_TIMING_BUTTON_DOWN")

\* The pin is not read by the tick at which the count is full.
UnkillTimingButtonDown ==
    /\ In("UNKILL_TIMING_BUTTON_DOWN")
    /\ unkill_timer' = IF unkill_timer < PressTicks /\ ~pressed
                         THEN 0 ELSE unkill_timer + 1
    /\ Enter(IF ~killed THEN "IDLE"
             ELSE IF unkill_timer' > PressTicks THEN "UNKILL_FIRE"
             ELSE "UNKILL_TIMING_BUTTON_DOWN")

UnkillFire ==
    /\ In("UNKILL_FIRE")
    /\ Enter(IF killed THEN "UNKILL_FIRE" ELSE "UNKILLED_BUTTON_DOWN")
    /\ UNCHANGED unkill_timer

UnkilledButtonDown ==
    /\ In("UNKILLED_BUTTON_DOWN")
    /\ Enter(IF ~pressed THEN "IDLE" ELSE "UNKILLED_BUTTON_DOWN")
    /\ UNCHANGED unkill_timer

Switch ==
    \/ Idle \/ KillButtonDown \/ KilledButtonDown \/ KilledButtonUp
    \/ UnkillButtonDown \/ UnkillTimingButtonDown
    \/ UnkillFire \/ UnkilledButtonDown

\* The timer task runs one callback at a time.
Others ==
    /\ \E t \in Tasks :
          \/ (t # timer \/ ~ticking) /\ Raise(t)
          \/ t # timer /\ Release(t)
          \/ Broadcast(t)
    /\ UNCHANGED <<buttonVars, pressed>>

Next == Press \/ TickStart \/ Switch \/ Others

\* Timer callbacks are called again and again, and end, although tasks of a
\* higher priority interrupt them (strong fairness: those tasks wait for
\* characters, or for a message, in between).
Spec ==
    /\ Init /\ [][Next]_vars
    /\ SF_vars(TickStart) /\ SF_vars(Switch)
    /\ \A t \in Tasks : SF_vars(Broadcast(t) /\ UNCHANGED <<buttonVars, pressed>>)

-----------------------------------------------------------------------------
\* Without toggle_enable the button releases a halt only after it has been
\* down at ten ticks in a row, the "2 second press" of KillButton.cpp:62;
\* letting go in between starts the count again.
LongPress ==
    [][~toggle_enable /\ state # "UNKILL_FIRE" /\ state' = "UNKILL_FIRE"
          => held = PressTicks]_vars

\* A press of a plain button halts the machine wherever the state machine is,
\* unless it is the press that has released the halt or the one that made it:
\* a halt released by others while the press was being timed does not swallow
\* the press.
PressKills ==
    ~toggle_enable /\ pressed
      /\ state \in {"IDLE", "KILLED_BUTTON_UP", "UNKILL_BUTTON_DOWN",
                   "UNKILL_TIMING_BUTTON_DOWN"}
        ~> \/ module_halted \/ ~pressed
           \/ state = "UNKILL_FIRE" /\ killed

AllHalted == module_halted /\ conveyor_halted /\ robot_halted

\* The stop stays down and nobody else is broadcasting any more.
Latched == <>[](pressed /\ \A t \in Tasks \ {timer} : step[t] = "idle")

\* A latched emergency stop halts the machine, every module of it, however
\* often and wherever others have released the halt before, even in the
\* middle of the button's broadcast; only not if it may release as well and
\* was pressed again while a tick was releasing the halt of the press before.
EstopHolds ==
    toggle_enable /\ Latched =>
        <>[](AllHalted \/ /\ unkill_enable
                          /\ state \in {"UNKILL_FIRE", "UNKILLED_BUTTON_DOWN"})

\* What KillButton.cpp:61 says: in toggle mode "button down will kill".
ButtonDownKills == toggle_enable /\ Latched => <>[]AllHalted
=============================================================================
