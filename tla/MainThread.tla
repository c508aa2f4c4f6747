---- MODULE MainThread ----
(***************************************************************************)
(* How far the main thread has come in starting the program, and whether   *)
(* the process still runs.                                                 *)
(***************************************************************************)
VARIABLES
    phase,      \* what the main thread does next
    status      \* "running", or for good "aborted", or "lost" to a data race

processVars == <<phase, status>>

Running == status = "running"

(* A failed assertion, R_ABORT_UNLESS or exl_abort: no return from it, and *)
(* no other thread gets further than its next fault.                       *)
Abort == status' = "aborted" /\ UNCHANGED phase

(* What the program does after two threads have written over each other's  *)
(* data is not followed.                                                   *)
Lose == status' = "lost" /\ UNCHANGED phase

Continue(p) == phase' = p /\ UNCHANGED status
====
