---- MODULE MCMenuComponent ----
(***************************************************************************)
(* The five shapes of component the menu creates: an on/off option, an     *)
(* 8-bit enum, an int enum, an int with a lower limit (the wheel's delay,  *)
(* 1..40, shortened) and the int laid over mCurPattern.                    *)
(***************************************************************************)
EXTENDS MenuComponent

MCDescs ==
    { [width |-> "s8",  lower |-> 0, upper |-> 1, aliased |-> FALSE],
      [width |-> "u8",  lower |-> 0, upper |-> 2, aliased |-> FALSE],
      [width |-> "int", lower |-> 0, upper |-> 3, aliased |-> FALSE],
      [width |-> "int", lower |-> 1, upper |-> 3, aliased |-> FALSE],
      [width |-> "int", lower |-> 0, upper |-> 2, aliased |-> TRUE] }

MCPadStates == SUBSET {"Left", "Right", "L"}
====
