---- MODULE NvnBackend ----
(***************************************************************************)
(* The renderer of the overlay (imgui_impl_nvn.cpp, MemoryBuffer.cpp,      *)
(* ImguiShaderCompiler.cpp): its initialisation part by part, what it      *)
(* keeps of the window, and how the buffers of vertices and indices are    *)
(* made, filled, handed to the graphics processor and given back.          *)
(*                                                                         *)
(* The graphics API is external: what it makes may fail to be made, and    *)
(* the processor works off the submitted frames in order, at any time      *)
(* later.  Sizes of buffers are in pages.                                  *)
(***************************************************************************)
EXTENDS MainThread, Integers, Sequences, FiniteSets

CONSTANTS Demands,      \* the pages of vertices and of indices a frame may need
          MaxFrames,    \* bound: the frames with something to draw
          MaxFailures,  \* bound: the things the API fails to make
          MaxInFlight,  \* the frames the window's textures let wait for the processor
          WindowWidth   \* the width of a window of ImGui, unscaled

ASSUME DemandsAssumption == \A d \in Demands : d.vtx \in Nat \ {0} /\ d.idx \in Nat \ {0}
ASSUME WidthAssumption == WindowWidth \in Nat \ {0}

VARIABLES
    bd,             \* the backend's data, or NoBackend
    display,        \* io.DisplaySize
    prevScale,      \* the scale last set, in halves, or 0
    window,         \* the width of ImGui's window
    buffers,        \* every vertex or index buffer made so far
    drawing,        \* the frame being rendered: [step, need]
    begun,          \* the frames begun
    gpu,            \* the frames submitted and not finished
    failures        \* what failed to be made so far

backendVars == <<bd, display, prevScale, window, buffers, drawing, begun, gpu, failures>>

NoBackend == [exists |-> FALSE]

(* Made one after the other by setupShaders and setupFont.                 *)
ShaderParts == <<"shaderProgram", "shaderMemory", "uniformMemory">>
FontParts == <<"sampTexMemPool", "samplerPool", "texPool", "fontMemPool", "fontTexture",
               "fontSampler">>
Parts == ShaderParts \o FontParts

Unset == <<0, 0>>
DefaultSize == <<1920, 1080>>
UndockedSize == <<1280, 720>>
Idle == [step |-> "none", need |-> [vtx |-> 0, idx |-> 0]]

BackendInit ==
    /\ bd = NoBackend
    /\ display = Unset
    /\ prevScale = 0
    /\ window = WindowWidth
    /\ buffers = <<>>
    /\ drawing = Idle
    /\ begun = 0
    /\ gpu = <<>>
    /\ failures = 0

----
(* InitBackend.  The initialising thread creates the context and the data, *)
(* then loads, compiles and makes the parts.                               *)

CreateBackend(device, queue, cmdBuf) ==
    /\ ~bd.exists
    /\ bd' = [exists |-> TRUE, device |-> device, queue |-> queue, cmdBuf |-> cmdBuf,
              isInitialized |-> FALSE, made |-> <<>>, proj |-> Unset, vtx |-> 0, idx |-> 0]
    /\ display' = DefaultSize
    /\ UNCHANGED <<prevScale, window, buffers, drawing, begun, gpu, failures>>

AlreadyInitialized == bd.exists

(* A file that cannot be opened or read stops the program, and an empty    *)
(* one is no failure; nor is a compiler that does not start, but one that  *)
(* does not compile is.                                                    *)
loadFileFromPath == {"stop", "none", "loaded"}
CompileShader == {"stop", "none", "compiled"}

(* The shaders are compiled if the device has a compiler, or loaded; the   *)
(* font is loaded before them.                                             *)
createShaders == CompileShader \cup loadFileFromPath

(* The parts are made in order, up to the first that fails.                *)
MadeUpTo(n) == SubSeq(Parts, 1, n)

SetupParts(n) ==
    /\ n = Len(Parts) \/ failures < MaxFailures
    /\ failures' = IF n = Len(Parts) THEN failures ELSE failures + 1
    /\ bd' = [bd EXCEPT !.made = MadeUpTo(n), !.isInitialized = n = Len(Parts)]

SetupBackend ==
    \E font \in loadFileFromPath, shaders \in createShaders :
        /\ IF "stop" \in {font, shaders} THEN Abort /\ UNCHANGED <<bd, failures>>
           ELSE /\ IF shaders = "none" THEN UNCHANGED <<bd, failures>>
                   ELSE \E n \in 0 .. Len(Parts) : SetupParts(n)
                /\ UNCHANGED processVars
        /\ UNCHANGED <<display, prevScale, window, buffers, drawing, begun, gpu>>

----
(* The size of the window                                                  *)

(* ImFloor of a product with a scale of one and a half or one.             *)
Scaled(width, halves) == (width * halves) \div 2
Unscaled(width, halves) == IF halves = 0 THEN width ELSE (width * 2) \div halves

updateProjection(size) == bd' = [bd EXCEPT !.proj = size]

(* Mutant: the windows are scaled from where they are.                     *)
updateScaleAgain(isDocked) ==
    LET scale == IF isDocked THEN 3 ELSE 2
    IN  /\ window' = Scaled(window, scale)
        /\ prevScale' = scale

updateScale(isDocked) ==
    LET scale == IF isDocked THEN 3 ELSE 2
    IN  /\ window' = Scaled(Unscaled(window, prevScale), scale)
        /\ prevScale' = scale

(* A window that differs in one dimension only is taken for the same.      *)
ResizeDisplay(size) ==
    /\ IF display[1] # size[1] /\ display[2] # size[2]
       THEN /\ display' = size
            /\ updateProjection(size)
            /\ updateScale(size # UndockedSize)
       ELSE UNCHANGED <<display, bd, window, prevScale>>
    /\ UNCHANGED <<buffers, drawing, begun, gpu, failures>>

----
(* MemoryBuffer                                                            *)

(* A pool or a buffer that fails to be made leaves the rest as it was in   *)
(* fresh memory.                                                           *)
Outcomes == {"pool fails", "buffer fails", "ready"}

MemoryBuffer(kind, pages, outcome) ==
    [kind |-> kind, pages |-> pages, pool |-> outcome # "pool fails", ready |-> outcome = "ready",
     allocated |-> TRUE, frame |-> 0]

Finalize(id) == [buffers EXCEPT ![id].allocated = FALSE]

(* The size of a pool that was not made is whatever the memory held.       *)
MayBeTooSmall(id, need) ==
    IF id = 0 THEN {TRUE}
    ELSE IF buffers[id].pool THEN {buffers[id].pages < need} ELSE BOOLEAN

(* Makes the buffer of a kind if there is none or it is too small, after   *)
(* giving back the old one.                                                *)
Resize(kind) ==
    \E tooSmall \in MayBeTooSmall(bd[kind], drawing.need[kind]), outcome \in Outcomes :
        IF ~tooSmall
        THEN outcome = "ready" /\ UNCHANGED <<bd, buffers, failures>>
        ELSE LET kept == IF bd[kind] = 0 THEN buffers ELSE Finalize(bd[kind])
             IN  /\ outcome = "ready" \/ failures < MaxFailures
                 /\ failures' = IF outcome = "ready" THEN failures ELSE failures + 1
                 /\ buffers' = Append(kept, MemoryBuffer(kind, drawing.need[kind], outcome))
                 /\ bd' = [bd EXCEPT ![kind] = Len(buffers) + 1]

----
(* renderDrawData, from one thread                                         *)

StepTo(from, to) == drawing.step = from /\ drawing' = [drawing EXCEPT !.step = to]

(* ImGui hands over lists of commands, or none.                            *)
BeginRender ==
    /\ begun < MaxFrames
    /\ bd.isInitialized
    /\ \E need \in Demands : drawing' = [step |-> "vtx", need |-> need]
    /\ begun' = begun + 1
    /\ UNCHANGED <<bd, buffers, gpu, failures>>

NothingToRender == UNCHANGED <<bd, buffers, drawing, begun, gpu, failures>>

ResizeVertices == StepTo("vtx", "idx") /\ Resize("vtx") /\ UNCHANGED <<begun, gpu>>
ResizeIndices == StepTo("idx", "copy") /\ Resize("idx") /\ UNCHANGED <<begun, gpu>>

(* Mutant: only the vertices' buffer is looked at.                         *)
VertexBufferReady == buffers[bd.vtx].ready

BuffersReady == buffers[bd.vtx].ready /\ buffers[bd.idx].ready

CopyLists ==
    /\ StepTo("copy", "submit")
    /\ BuffersReady
    /\ buffers' = [buffers EXCEPT ![bd.vtx].frame = begun, ![bd.idx].frame = begun]
    /\ UNCHANGED <<bd, begun, gpu, failures>>

GiveUp ==
    /\ drawing.step = "copy"
    /\ ~BuffersReady
    /\ drawing' = Idle
    /\ UNCHANGED <<bd, buffers, begun, gpu, failures>>

SubmitCommands ==
    /\ Len(gpu) < MaxInFlight
    /\ drawing.step = "submit"
    /\ drawing' = Idle
    /\ gpu' = Append(gpu, [frame |-> begun, vtx |-> bd.vtx, idx |-> bd.idx, need |-> drawing.need])
    /\ UNCHANGED <<bd, buffers, begun, failures>>

RenderStep ==
    /\ ResizeVertices \/ ResizeIndices \/ CopyLists \/ GiveUp \/ SubmitCommands
    /\ UNCHANGED <<display, prevScale, window>>

(* The processor is done with the oldest frame.                            *)
FinishFrame ==
    /\ gpu # <<>>
    /\ gpu' = Tail(gpu)
    /\ UNCHANGED <<bd, display, prevScale, window, buffers, drawing, begun, failures>>

----
(* Properties                                                              *)

Intact(f) ==
    /\ buffers[f.vtx].allocated /\ buffers[f.idx].allocated
    /\ buffers[f.vtx].frame = f.frame /\ buffers[f.idx].frame = f.frame

(* A buffer is given back only for a larger one of its kind.               *)
Outgrown(id) ==
    \E later \in id + 1 .. Len(buffers) :
        buffers[later].kind = buffers[id].kind /\ buffers[later].pages > buffers[id].pages

(* The processor finds the frame it works on as it was submitted, in       *)
(* buffers that were ready and large enough, unless the program has begun  *)
(* a later frame meanwhile; the memory itself is gone only if a later      *)
(* frame needed more of it.  Nothing in the program waits for the          *)
(* processor (renderDrawData, MemoryBuffer::Finalize).                     *)
FramesReadTheirData ==
    \A i \in DOMAIN gpu :
        LET f == gpu[i]
        IN  /\ begun = f.frame => Intact(f)
            /\ buffers[f.vtx].ready /\ buffers[f.vtx].pages >= f.need.vtx
            /\ buffers[f.idx].ready /\ buffers[f.idx].pages >= f.need.idx
            /\ \A id \in {f.vtx, f.idx} : ~buffers[id].allocated => Outgrown(id)
====
