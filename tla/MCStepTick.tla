----------------------------- MODULE MCStepTick -----------------------------
(***************************************************************************)
(* Shapes of blocks for TLC: each order in which the planner's events can  *)
(* fall, and the rates that round worst.                                   *)
(***************************************************************************)
EXTENDS StepTick

Shape(i, m, f, a, d, t) ==
    [initial |-> i, maximum |-> m, final |-> f, accelerate_until |-> a,
     decelerate_after |-> d, total_move_ticks |-> t]

MCShapes == {
    Shape(0, 3, 0, 1, 3, 4),        \* a trapezoid
    Shape(1, 3, 0, 2, 2, 4),        \* a triangle
    Shape(0, 3, 3, 2, 3, 3),        \* acceleration, then the plateau
    Shape(1, 4, 4, 2, 2, 2),        \* acceleration to the end
    Shape(3, 3, 1, 0, 1, 3),        \* the plateau, then deceleration
    Shape(3, 3, 0, 0, 0, 2),        \* deceleration from the start
    Shape(3, 3, 3, 0, 2, 2),        \* a constant rate
    Shape(0, 1, 0, 0, 0, 0)}        \* less than a tick
=============================================================================
