---- MODULE MCTimer ----
(* Two stages and five ticks: a run, a split, a restart before the split    *)
(* has gone, and a tick after that.                                         *)
EXTENDS Timer

MCStages == {"cap", "cascade"}
MCNoStage == ""
MCNone == "None"
====
