---- MODULE MCQuickActionMenu ----
(***************************************************************************)
(* The wheel with two directions, fully open after two frames and with     *)
(* delays of up to two frames: growing beyond fully open, shrinking from   *)
(* it, a retreat cut short by a new press and delays above and below the   *)
(* time pressed all occur.                                                 *)
(***************************************************************************)
EXTENDS QuickActionMenu
====
