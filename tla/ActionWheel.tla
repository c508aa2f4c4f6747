---- MODULE ActionWheel ----
(***************************************************************************)
(* What the quick action wheel promises: it is opened, aimed any number of *)
(* times and let go; letting go fires the direction that was aimed at last *)
(* once, or nothing; and it has to go back before it can be opened again.  *)
(* QuickActionMenu implements this.                                        *)
(***************************************************************************)
CONSTANTS
    Directions,  (* the actions of the wheel                               *)
    None         (* no direction                                           *)

VARIABLES
    mode,        (* "idle", "open" or "back"                               *)
    aim,         (* the direction aimed at, while open                     *)
    fired        (* the direction fired by the last step                   *)

vars == <<mode, aim, fired>>

Init == mode = "idle" /\ aim = None /\ fired = None

Open ==
    /\ mode \in {"idle", "back"}
    /\ mode' = "open"
    /\ aim' \in Directions \cup {None}
    /\ fired' = None

Aim ==
    /\ mode = "open"
    /\ aim' \in Directions \cup {None}
    /\ fired' = None
    /\ UNCHANGED mode

LetGo ==
    /\ mode = "open"
    /\ mode' = "back"
    /\ fired' = aim
    /\ aim' = None

Return ==
    /\ mode = "back"
    /\ mode' \in {"idle", "back"}
    /\ fired' = None
    /\ UNCHANGED aim

(* A frame in which the wheel does nothing.                                *)
Rest == fired' = None /\ UNCHANGED <<mode, aim>>

Next == Open \/ Aim \/ LetGo \/ Return \/ Rest

Spec == Init /\ [][Next]_vars
====
