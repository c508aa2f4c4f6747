---- MODULE CodeChanges ----
(***************************************************************************)
(* What the program changes in the game's code while it starts: call sites *)
(* by patchers, functions by hooks, one after the other on one thread (a   *)
(* patcher lives for one statement, and installing a hook is one call).    *)
(***************************************************************************)
EXTENDS CodePatcher, HookEngine

vars == <<patchVars, hookVars>>

Init == PatchInit /\ HookInit

(* Bound: a behaviour patches or hooks.  Neither reads what the other      *)
(* writes.                                                                 *)
PatchesOnly == job = NoJob /\ tried = {}
HooksOnly == ~open /\ \A a \in Words : mem[a] = Original

Next ==
    \/ PatchesOnly /\ PatchNext /\ UNCHANGED hookVars
    \/ HooksOnly /\ HookNext /\ UNCHANGED patchVars

Spec == Init /\ [][Next]_vars
====
