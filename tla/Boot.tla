---- MODULE Boot ----
(***************************************************************************)
(* The program from its entry to the pictures of the game: its start finds *)
(* memory and the process's handle and installs the hooks, the game makes  *)
(* its graphics and presents pictures, and the overlay takes part.  The    *)
(* run-time loader is the console's own at a start of its own.             *)
(*                                                                         *)
(* focus, a bound, lets only one part vary in a behaviour: "start" the     *)
(* memory and the kernel, up to where the game begins; after a start on    *)
(* one memory and kernel, "graphics" how the game makes its graphics,      *)
(* "frames" what it and the overlay show, "inputs" what the player does;   *)
(* "loading" the modules the loader is given.                              *)
(***************************************************************************)
EXTENDS Startup, Overlay, Rtld

CONSTANTS
    PlainMap,       \* the memory, and
    PlainKernel     \* the kernel, where the start does not matter

VARIABLE focus

bootStateVars == <<startVars, overlayVars, rtldVars, focus>>

BootInit ==
    /\ focus \in {"start", "graphics", "frames", "inputs", "loading"}
    /\ StartInit
    /\ focus # "start" => memory = PlainMap /\ kernel = PlainKernel /\ mesosphere
    /\ OverlayInit
    /\ IF focus = "loading" THEN RtldInit ELSE RtldNone

Starting == StartNext /\ focus # "loading" /\ UNCHANGED <<overlayVars, rtldVars, focus>>

(* Where how the graphics are made does not matter, the game looks all     *)
(* functions up first, makes its command buffers one after another, and    *)
(* makes nothing more once the overlay began.                              *)
AllGiven == BootstrapNames \cup ProcNames \subseteq given
PlainMakings == Makings /\ AllGiven /\ ~overlapped' /\ ~hasInitImGui

Playing ==
    /\ Running
    /\ phase = "game"
    /\ \/ Lookups /\ focus \in {"graphics", "frames", "inputs"}
       \/ Makings /\ focus = "graphics"
       \/ PlainMakings /\ focus \in {"frames", "inputs"}
       \/ WindowCalls /\ focus = "frames"
       \/ InputCalls /\ focus = "inputs"
       \/ Presenting /\ (focus = "frames" \/ (focus = "inputs" /\ begun' = 0))
    /\ UNCHANGED <<layoutVars, handleVars, rtldVars, focus>>

Loading ==
    /\ focus = "loading"
    /\ Running
    /\ RtldNext
    /\ UNCHANGED <<layoutVars, handleVars, overlayVars, focus>>

Next == Starting \/ Playing \/ Loading

ClientTurn == ClientRuns /\ UNCHANGED <<overlayVars, rtldVars, focus>>
ServerTurn == ServerRuns /\ UNCHANGED <<overlayVars, rtldVars, focus>>

(* The threads of the process's handle are scheduled; nothing else must    *)
(* happen.                                                                 *)
Spec == BootInit /\ [][Next]_bootStateVars /\ WF_bootStateVars(ClientTurn) /\ WF_bootStateVars(ServerTurn)
====
