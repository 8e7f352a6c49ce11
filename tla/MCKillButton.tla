---------------------------- MODULE MCKillButton ----------------------------
(***************************************************************************)
(* KillButton for TLC, with the tasks and priorities of MCHalt.            *)
(***************************************************************************)
EXTENDS KillButton, MCHalt
=============================================================================
