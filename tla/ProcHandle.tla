---- MODULE ProcHandle ----
(***************************************************************************)
(* How the process gets a handle to itself (cur_proc_handle.cpp): it asks  *)
(* the kernel, and where the kernel cannot say, a second thread receives a *)
(* request of the first that carries the handle.  The second thread runs   *)
(* on a stack within the first one's frame.                                *)
(***************************************************************************)
EXTENDS MainThread

CONSTANT Mesospheres    \* the answers kernels give: whether they know the handle

VARIABLES
    mesosphere,         \* whether this one does
    s_Handle,           \* "none" or "own"
    client, server,     \* where the two threads are
    session,            \* of the session: which ends are open, and the request
    threadOpen          \* the handle of the second thread is open

handleVars == <<mesosphere, s_Handle, client, server, session, threadOpen>>

Closed == [server |-> FALSE, client |-> FALSE, request |-> "none"]

HandleInit ==
    /\ mesosphere \in Mesospheres
    /\ s_Handle = "none"
    /\ client = "idle"
    /\ server = "none"
    /\ session = Closed
    /\ threadOpen = FALSE

ClientAt(from, to) == client = from /\ client' = to

(* What R_ABORT_UNLESS stands around may fail.                             *)
MayFail == {"create", "thread", "start", "wait"}

----
(* The thread that wants the handle                                        *)

(* GetViaMesosphere writes what it is told, or falls back.                 *)
Get ==
    \/ /\ s_Handle = "own"
       /\ ClientAt("get", "done")
       /\ UNCHANGED s_Handle
    \/ /\ s_Handle = "none"
       /\ mesosphere
       /\ s_Handle' = "own"
       /\ ClientAt("get", "done")
    \/ /\ s_Handle = "none"
       /\ ~mesosphere
       /\ ClientAt("get", "create")
       /\ UNCHANGED s_Handle

CreateSession ==
    /\ ClientAt("create", "thread")
    /\ session' = [server |-> TRUE, client |-> TRUE, request |-> "none"]

CreateThread == ClientAt("thread", "start") /\ threadOpen' = TRUE

StartThread == ClientAt("start", "send") /\ server' = "receive"

SendRequest ==
    /\ ClientAt("send", "answer")
    /\ session' = [session EXCEPT !.request = "sent"]

(* The request returns when the other end is closed, with an error that    *)
(* is not looked at; so is one for a request the kernel cannot send.       *)
RequestReturns ==
    /\ ClientAt("answer", "close")
    /\ ~session.server \/ session.request = "sent"
    /\ session' = IF session.server THEN [session EXCEPT !.request = "failed"] ELSE session

CloseClientEnd == ClientAt("close", "wait") /\ session' = [session EXCEPT !.client = FALSE]

WaitForThread == ClientAt("wait", "closeThread") /\ server = "exited"

CloseThread == ClientAt("closeThread", "done") /\ threadOpen' = FALSE

ClientStep ==
    /\ Running
    /\ UNCHANGED mesosphere
    /\ \/ Get /\ UNCHANGED <<server, session, threadOpen>>
       \/ CreateSession /\ UNCHANGED <<s_Handle, server, threadOpen>>
       \/ CreateThread /\ UNCHANGED <<s_Handle, server, session>>
       \/ StartThread /\ UNCHANGED <<s_Handle, session, threadOpen>>
       \/ SendRequest /\ UNCHANGED <<s_Handle, server, threadOpen>>
       \/ RequestReturns /\ UNCHANGED <<s_Handle, server, threadOpen>>
       \/ CloseClientEnd /\ UNCHANGED <<s_Handle, server, threadOpen>>
       \/ WaitForThread /\ UNCHANGED <<s_Handle, server, session, threadOpen>>
       \/ CloseThread /\ UNCHANGED <<s_Handle, server, session>>
    /\ UNCHANGED processVars

CallFails == Running /\ client \in MayFail /\ Abort /\ UNCHANGED handleVars

----
(* ReceiveProcessHandleThreadMain                                          *)

Receive ==
    /\ server = "receive"
    /\ session.request = "sent"
    /\ server' = "store"
    /\ session' = [session EXCEPT !.request = "received"]
    /\ UNCHANGED s_Handle

StoreHandle ==
    /\ server = "store"
    /\ s_Handle' = "own"
    /\ server' = "closeSession"
    /\ UNCHANGED session

(* Mutant: the second thread ends without closing its end.                 *)
LeaveServerEndOpen ==
    /\ server = "closeSession"
    /\ server' = "exit"
    /\ UNCHANGED <<s_Handle, session>>

CloseServerEnd ==
    /\ server = "closeSession"
    /\ session' = [session EXCEPT !.server = FALSE]
    /\ server' = "exit"
    /\ UNCHANGED s_Handle

ExitThread ==
    /\ server = "exit"
    /\ server' = "exited"
    /\ UNCHANGED <<s_Handle, session>>

(* Nobody is there any more to receive from.                               *)
ReceiveFromClosed ==
    /\ server = "receive"
    /\ ~session.client
    /\ Abort
    /\ UNCHANGED <<server, s_Handle, session>>

ServerStep ==
    /\ Running
    /\ \/ (Receive \/ StoreHandle \/ CloseServerEnd \/ ExitThread) /\ UNCHANGED processVars
       \/ ReceiveFromClosed
    /\ UNCHANGED <<mesosphere, client, threadOpen>>

ReceiveFails == Running /\ server = "receive" /\ Abort /\ UNCHANGED handleVars

HandleNext == ClientStep \/ CallFails \/ ServerStep \/ ReceiveFails

----
(* Properties                                                              *)

(* The second thread's stack is in the frame of GetViaIpcTrick: that does  *)
(* not return while the thread runs, and leaves no handle open.            *)
StackOutlivesThread ==
    /\ server \notin {"none", "exited"} => client \in {"send", "answer", "close", "wait"}
    /\ client = "done" => s_Handle = "own" /\ session.server = session.client /\ ~session.client
                          /\ ~threadOpen
====
