---------------------------- MODULE MCCtrlTask ----------------------------
(* Instance of CtrlTask for TLC: two faults with one press of the button,  *)
(* or one fault with two presses, which start an update and terminate it.  *)
EXTENDS CtrlTask

MCBudgets == {[faults |-> 2, updates |-> 1, moves |-> 2],
              [faults |-> 1, updates |-> 1, moves |-> 4]}
=============================================================================
