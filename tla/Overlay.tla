---- MODULE Overlay ----
(***************************************************************************)
(* The overlay in the game's graphics (imgui_nvn.cpp, main.cpp,            *)
(* InputHelper.cpp): how the hooked lookup of the graphics API hands the   *)
(* game its own functions, how device, queue and command buffer are caught *)
(* as the game makes them, when the overlay begins, and what happens when  *)
(* the game presents a picture.                                            *)
(*                                                                         *)
(* The game is external: it looks functions up before it calls them, makes *)
(* command buffers on several threads and presents from one of them.       *)
(***************************************************************************)
EXTENDS NvnBackend

CONSTANTS Makers,       \* the threads that make command buffers
          CmdBufs,      \* the command buffers, numbered from 1
          WindowSizes   \* the sizes of the game's window

(* A command buffer's place is not the null pointer, and no window is      *)
(* empty.                                                                  *)
ASSUME CmdBufsAssumption == CmdBufs \subseteq Nat \ {0}
ASSUME WindowSizesAssumption == WindowSizes \subseteq (Nat \ {0}) \X (Nat \ {0})

VARIABLES
    given,              \* the functions the game was given in place of its own
    nvnDevice, nvnQueue, nvnCmdBuf, \* what was caught last, or 0
    hasInitImGui,
    maker,              \* of each thread, how far it is in cmdBufInit
    entries,            \* history: how often InitImGui went ahead
    overlapped,         \* history: a command buffer made while another was being made
    forgotten,          \* history: FALSE stored in hasInitImGui over another thread's TRUE
    late,               \* history: a command buffer made after device and queue
    presenting,         \* how far the presenting thread is
    presents,           \* pictures presented with the overlay, counted to 2
    shown,              \* history: the window size set last since the beginning
    isReadInput, toggleInput,
    held,               \* a key is held on the keyboard
    cur, prev,          \* as InputHelper knows it, now and one frame ago
    imKey,              \* as ImGui knows it
    emptied,            \* history: presents during which a game's read was emptied
    sequence,           \* how far the game's sequence and the menu are made
    menuDrawn           \* the last picture shows the menu

caughtVars == <<nvnDevice, nvnQueue, nvnCmdBuf>>
makerVars == <<hasInitImGui, maker, entries, overlapped, forgotten, late>>
bootVars == <<given, caughtVars, makerVars>>
inputVars == <<isReadInput, toggleInput, held, cur, prev, imKey, emptied>>
frameVars == <<presenting, presents, shown, sequence, menuDrawn>>

overlayVars == <<backendVars, bootVars, inputVars, frameVars>>

OverlayInit ==
    /\ BackendInit
    /\ given = {}
    /\ nvnDevice = 0 /\ nvnQueue = 0 /\ nvnCmdBuf = 0
    /\ hasInitImGui = FALSE
    /\ maker = [t \in Makers |-> "idle"]
    /\ entries = 0 /\ overlapped = FALSE /\ forgotten = FALSE /\ late = FALSE
    /\ presenting = "idle" /\ presents = 0 /\ shown = Unset
    /\ isReadInput = TRUE /\ toggleInput = TRUE
    /\ held = FALSE /\ cur = FALSE /\ prev = FALSE /\ imKey = FALSE
    /\ emptied = {}
    /\ sequence = "none" /\ menuDrawn = FALSE

----
(* What the game looks up, and calls                                       *)

BootstrapNames == {"nvnDeviceInitialize", "nvnDeviceGetProcAddress"}
ProcNames == {"nvnQueueInitialize", "nvnCommandBufferInitialize", "nvnWindowSetCrop",
              "nvnQueuePresentTexture"}

NvnBootstrapHook(funcName) ==
    /\ given' = given \cup ({funcName} \cap BootstrapNames)
    /\ UNCHANGED <<caughtVars, makerVars>>

(* The device it is called for may be the first the program hears of.      *)
getProc(device, procName) ==
    /\ "nvnDeviceGetProcAddress" \in given
    /\ nvnDevice' = IF nvnDevice = 0 THEN device ELSE nvnDevice
    /\ given' = given \cup ({procName} \cap ProcNames)
    /\ UNCHANGED <<nvnQueue, nvnCmdBuf, makerVars>>

deviceInit(device) ==
    /\ BootstrapNames \subseteq given
    /\ nvnDevice' = device
    /\ UNCHANGED <<given, nvnQueue, nvnCmdBuf, makerVars>>

queueInit(queue) ==
    /\ "nvnQueueInitialize" \in given
    /\ nvnQueue' = queue
    /\ UNCHANGED <<given, nvnDevice, nvnCmdBuf, makerVars>>

(* Mutant: the queue is not asked for.                                     *)
DeviceAndBufferCaught == nvnDevice # 0 /\ nvnCmdBuf # 0

AllCaught == nvnDevice # 0 /\ nvnQueue # 0 /\ nvnCmdBuf # 0

MakerTo(t, from, to) == maker[t] = from /\ maker' = [maker EXCEPT ![t] = to]

(* Threads make command buffers side by side, and nothing keeps one from   *)
(* another: the buffer is caught, hasInitImGui looked at, what was caught  *)
(* looked at, and the answer of InitImGui stored, each a step of its own.  *)
cmdBufInit(t, buffer, device) ==
    /\ "nvnCommandBufferInitialize" \in given
    /\ MakerTo(t, "idle", "check")
    /\ nvnCmdBuf' = buffer
    /\ nvnDevice' = IF nvnDevice = 0 THEN device ELSE nvnDevice
    /\ late' = (late \/ (nvnDevice' # 0 /\ nvnQueue # 0))
    /\ overlapped' = (overlapped \/ \E u \in Makers : maker[u] # "idle")
    /\ UNCHANGED <<given, nvnQueue, hasInitImGui, entries, forgotten>>

CheckInitImGui(t) ==
    /\ MakerTo(t, "check", IF hasInitImGui THEN "idle" ELSE "look")
    /\ UNCHANGED <<hasInitImGui, entries, forgotten, backendVars, processVars>>

InitImGui(t) ==
    /\ MakerTo(t, "look", IF AllCaught THEN "create" ELSE "fail")
    /\ entries' = IF AllCaught THEN entries + 1 ELSE entries
    /\ UNCHANGED <<hasInitImGui, forgotten, backendVars, processVars>>

InImGui == {"create", "assert", "data", "setup", "end"}

(* ImGui's current context is for a moment the new one, or stays it: who   *)
(* else works with ImGui then may find another's, or half of one.          *)
Disturbs(t) == hasInitImGui \/ \E u \in Makers \ {t} : maker[u] \in InImGui

CreateContext(t) ==
    /\ MakerTo(t, "create", "assert")
    /\ UNCHANGED processVars \/ (Disturbs(t) /\ Lose)
    /\ UNCHANGED <<hasInitImGui, entries, forgotten, backendVars>>

AssertNotInitialized(t) ==
    /\ MakerTo(t, "assert", "data")
    /\ IF AlreadyInitialized THEN Abort ELSE UNCHANGED processVars
    /\ UNCHANGED <<hasInitImGui, entries, forgotten, backendVars>>

(* Data of a second thread that passed the assertion takes the place of    *)
(* the first's, in use by now.                                             *)
InitBackend(t) ==
    /\ MakerTo(t, "data", "setup")
    /\ IF bd.exists THEN Lose /\ UNCHANGED backendVars
       ELSE CreateBackend(nvnDevice, nvnQueue, nvnCmdBuf) /\ UNCHANGED processVars
    /\ UNCHANGED <<hasInitImGui, entries, forgotten>>

SetupImGui(t) ==
    /\ MakerTo(t, "setup", "end")
    /\ SetupBackend
    /\ UNCHANGED <<hasInitImGui, entries, forgotten>>

(* The answer of InitImGui is stored, whatever was stored meanwhile.       *)
StoreInitImGui(t) ==
    /\ \/ MakerTo(t, "end", "idle") /\ hasInitImGui' = TRUE
       \/ MakerTo(t, "fail", "idle") /\ hasInitImGui' = FALSE
    /\ forgotten' = (forgotten \/ (hasInitImGui /\ ~hasInitImGui'))
    /\ UNCHANGED <<entries, backendVars, processVars>>

Lookups ==
    /\ \/ \E name \in BootstrapNames : NvnBootstrapHook(name)
       \/ \E name \in ProcNames, device \in {0, 1} : getProc(device, name)
    /\ UNCHANGED <<backendVars, inputVars, frameVars, processVars>>

Makings ==
    /\ \/ /\ \/ deviceInit(1)
             \/ queueInit(1)
             \/ \E t \in Makers, b \in CmdBufs, device \in {0, 1} : cmdBufInit(t, b, device)
          /\ UNCHANGED <<backendVars, processVars>>
       \/ /\ \E t \in Makers :
                \/ CheckInitImGui(t) \/ InitImGui(t) \/ CreateContext(t) \/ AssertNotInitialized(t)
                \/ InitBackend(t) \/ SetupImGui(t) \/ StoreInitImGui(t)
          /\ UNCHANGED <<given, caughtVars, overlapped, late>>
    /\ UNCHANGED <<inputVars, frameVars>>

----
(* The window, the game's pads and the game's sequence                     *)

setCrop(size) ==
    /\ "nvnWindowSetCrop" \in given
    /\ presenting = "idle"
    /\ IF hasInitImGui THEN ResizeDisplay(size) /\ shown' = size
       ELSE UNCHANGED <<backendVars, shown>>
    /\ UNCHANGED <<presenting, presents, sequence, menuDrawn>>

(* The game reads a pad on whatever thread it likes.                       *)
disableButtons ==
    /\ emptied' = IF ~isReadInput /\ toggleInput THEN emptied \cup {presents} ELSE emptied
    /\ UNCHANGED <<isReadInput, toggleInput, held, cur, prev, imKey>>

PlayerUsesKey ==
    /\ held' = ~held
    /\ UNCHANGED <<isReadInput, toggleInput, cur, prev, imKey, emptied>>

(* The sequence is known before the menu's heap, and the heap before the   *)
(* menu.  A later sequence finds both made.                                *)
HakoniwaSequenceInit ==
    /\ sequence' = (CASE sequence = "none" -> "sequence"
                      [] sequence = "sequence" -> "heap"
                      [] sequence \in {"heap", "menu"} -> "menu")
    /\ UNCHANGED <<presenting, presents, shown, menuDrawn>>

----
(* presentTexture and procDraw                                             *)

PresentTo(from, to) == presenting = from /\ presenting' = to

(* updatePadState, tryGetContState: while the program reads the pad for    *)
(* itself the hooks let it.                                                *)
BeginFrame ==
    /\ "nvnQueuePresentTexture" \in given
    /\ hasInitImGui
    /\ PresentTo("idle", "pad")
    /\ presents' = IF presents = 2 THEN 2 ELSE presents + 1
    /\ isReadInput' = TRUE
    /\ UNCHANGED <<toggleInput, held, cur, prev, imKey, emptied, shown, sequence, menuDrawn>>

PadRead ==
    /\ PresentTo("pad", "keys")
    /\ isReadInput' = FALSE
    /\ UNCHANGED <<toggleInput, held, cur, prev, imKey, emptied, presents, shown, sequence, menuDrawn>>

(* Mutant: the state of one frame ago is taken after the new one is read.  *)
KeysReadFirst ==
    /\ PresentTo("keys", "events")
    /\ prev' = held
    /\ cur' = held
    /\ toggleInput' = FALSE
    /\ UNCHANGED <<isReadInput, held, imKey, emptied, presents, shown, sequence, menuDrawn>>

KeysRead ==
    /\ PresentTo("keys", "events")
    /\ prev' = cur
    /\ cur' = held
    /\ toggleInput' = FALSE
    /\ UNCHANGED <<isReadInput, held, imKey, emptied, presents, shown, sequence, menuDrawn>>

isKeyPress == cur /\ ~prev
isKeyRelease == ~cur /\ prev

(* updateInput.  The pad's buttons are passed on while input is toggled.   *)
AddEvents ==
    /\ PresentTo("events", "draw")
    /\ imKey' = IF isKeyPress THEN TRUE ELSE IF isKeyRelease THEN FALSE ELSE imKey
    /\ UNCHANGED <<isReadInput, toggleInput, held, cur, prev, emptied, presents, shown, sequence,
                   menuDrawn>>

(* The draw functions, then ImGui::Render.                                 *)
drawDbgGui ==
    /\ PresentTo("draw", "render")
    /\ menuDrawn' = (sequence = "menu")
    /\ UNCHANGED <<inputVars, presents, shown, sequence>>

renderDrawData ==
    /\ PresentTo("render", "rendering")
    /\ BeginRender \/ NothingToRender
    /\ UNCHANGED <<display, prevScale, window, inputVars, presents, shown, sequence, menuDrawn>>

Present ==
    /\ PresentTo("rendering", "idle")
    /\ drawing.step = "none"
    /\ UNCHANGED <<inputVars, presents, shown, sequence, menuDrawn>>

WindowCalls ==
    /\ \E size \in WindowSizes : setCrop(size)
    /\ UNCHANGED <<bootVars, inputVars, processVars>>

InputCalls ==
    /\ \/ (disableButtons \/ PlayerUsesKey) /\ UNCHANGED frameVars
       \/ HakoniwaSequenceInit /\ UNCHANGED inputVars
    /\ UNCHANGED <<backendVars, bootVars, processVars>>

Presenting ==
    /\ \/ (BeginFrame \/ PadRead \/ KeysRead \/ AddEvents \/ drawDbgGui \/ Present)
          /\ UNCHANGED backendVars
       \/ renderDrawData
       \/ RenderStep /\ UNCHANGED <<inputVars, frameVars>>
       \/ FinishFrame /\ UNCHANGED <<inputVars, frameVars>>
    /\ UNCHANGED <<bootVars, processVars>>

----
(* Properties                                                              *)

(* The overlay begins once a command buffer is made after device and       *)
(* queue, with all three known; a thread that still answers it lacked one  *)
(* may only make it forgotten again.  It begins twice, is forgotten or     *)
(* loses its data to another thread only where two threads made command    *)
(* buffers at the same time, and it draws nothing before every part is     *)
(* made (cmdBufInit, InitImGui, InitBackend).                              *)
OverlayBegunWhole ==
    /\ entries > 1 \/ forgotten \/ status = "lost" => overlapped
    /\ Running /\ late /\ (\A t \in Makers : maker[t] = "idle") => hasInitImGui \/ forgotten
    /\ hasInitImGui => bd.exists
    /\ bd.exists => bd.device # 0 /\ bd.queue # 0 /\ bd.cmdBuf # 0
    /\ begun > 0 => bd.made = Parts
    /\ menuDrawn => sequence = "menu" /\ bd.exists

(* A read of a pad by the game is emptied only while the first picture of  *)
(* the overlay is prepared, and ImGui's keys are the keyboard's of the     *)
(* last picture (disableButtons, updatePadState).                          *)
InputsKept ==
    /\ emptied \subseteq {1}
    /\ presenting \in {"idle", "draw", "render", "rendering"} => imKey = cur

(* The overlay is laid out for the window last shown, or for one that has  *)
(* its width or its height: a change of only one of them is overlooked.    *)
(* It is projected for what it is laid out for, but not at all before a    *)
(* window differs from the default size in both; and windows lose at most  *)
(* a pixel however often the console is docked and undocked (setCrop,      *)
(* updateScale).                                                           *)
ScreenFollowsWindow ==
    bd.exists =>
        /\ shown # Unset => display[1] = shown[1] \/ display[2] = shown[2]
        /\ bd.proj = display \/ (bd.proj = Unset /\ display = DefaultSize)
        /\ prevScale = (IF bd.proj = Unset THEN 0 ELSE IF display = UndockedSize THEN 2 ELSE 3)
        /\ prevScale # 3 => window \in {WindowWidth - 1, WindowWidth}
        /\ prevScale = 3 => window \in {Scaled(WindowWidth - 1, 3), Scaled(WindowWidth, 3)}
====
