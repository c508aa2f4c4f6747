---- MODULE MCPractice ----
(* Three scenes: one to save, map and fly in, one to carry that into, and   *)
(* one more after it.  Two actions fall into a frame.                       *)
EXTENDS Practice

MCOptions == {Noclip, NoDamage, "mIsAllCheckpointsEnabled"}
MCNerves == {"Play", "Demo", "Pause", WarpToCheckpoint}
====
