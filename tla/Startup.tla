---- MODULE Startup ----
(***************************************************************************)
(* The start of the program on the main thread: exl_init finds the layout  *)
(* of memory and maps the game's code for the patchers, for which it needs *)
(* the process's handle; exl_main installs the hooks.                      *)
(***************************************************************************)
EXTENDS MemLayout, ProcHandle

startVars == <<processVars, layoutVars, handleVars>>

StartInit ==
    /\ phase = "walk"
    /\ status = "running"
    /\ LayoutInit
    /\ HandleInit

(* InitPatcherImpl claims the main module's code (RwPages says how).       *)
InitPatcherImpl ==
    /\ Running
    /\ phase = "patcher"
    /\ IF HasModuleInfo(s_MainModuleIdx)
       THEN Continue("handle") /\ client' = "get"
       ELSE Abort /\ UNCHANGED client
    /\ UNCHANGED <<layoutVars, mesosphere, s_Handle, server, session, threadOpen>>

PatcherMapped ==
    /\ Running
    /\ phase = "handle"
    /\ client = "done"
    /\ Continue("main")
    /\ UNCHANGED <<layoutVars, handleVars>>

(* Static constructors come between; none of them is the program's own.    *)
(* exl_main maps the pools for hooks, which needs the handle again.        *)
HookInitialize ==
    /\ Running
    /\ phase = "main"
    /\ client' = "get"
    /\ Continue("pools")
    /\ UNCHANGED <<layoutVars, mesosphere, s_Handle, server, session, threadOpen>>

(* It installs the hooks (HookEngine says how) and adds the one function   *)
(* that draws (addDrawFunc takes none twice).                              *)
exl_main ==
    /\ Running
    /\ phase = "pools"
    /\ client = "done"
    /\ Continue("game")
    /\ UNCHANGED <<layoutVars, handleVars>>

StartNext ==
    \/ Running /\ LayoutNext /\ UNCHANGED handleVars
    \/ HandleNext /\ UNCHANGED layoutVars
    \/ InitPatcherImpl
    \/ PatcherMapped
    \/ HookInitialize
    \/ exl_main

(* Each thread that can run, runs: neither waits for anything but the      *)
(* other.                                                                  *)
ClientRuns == ClientStep /\ UNCHANGED layoutVars
ServerRuns == ServerStep /\ UNCHANGED layoutVars

(* Whoever asks for the process's handle gets it, unless a call fails      *)
(* that must not: no thread waits for the other for ever, and the first    *)
(* keeps its frame, with the second's stack in it, until the second is     *)
(* done (GetViaIpcTrick).                                                  *)
HandleArrives ==
    /\ (client = "get") ~> (client = "done" \/ status = "aborted")
    /\ []StackOutlivesThread
====
