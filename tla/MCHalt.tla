------------------------------- MODULE MCHalt -------------------------------
(***************************************************************************)
(* Halt for TLC: the tasks of the firmware with their priorities, COMMS_PRI*)
(* and CMDTHRD_PRI of Consoles.h and the timer task's of FreeRTOSConfig.h. *)
(***************************************************************************)
EXTENDS Halt

MCPriority ==
    [t \in Tasks |-> CASE t = "timer"   -> 1
                       [] t = "command" -> 2
                       [] OTHER         -> 3]
=============================================================================
