---- MODULE MemLayout ----
(***************************************************************************)
(* What the program learns of its address space while it starts: the       *)
(* modules, from a walk over all ranges of memory (FindModules), and the   *)
(* regions, once for mem_layout (FindRegions) and once more for the        *)
(* virtual memory manager (virtmemSetup).                                  *)
(*                                                                         *)
(* A range of memory is its place in the walk, its kind is "text" (static  *)
(* code, read and execute), "rodata" (static code, read), "data" (mutable  *)
(* code, read and write) or "other".  Sizes and addresses of regions are   *)
(* in units of 2 MB.                                                       *)
(***************************************************************************)
EXTENDS MainThread, Integers, Sequences

CONSTANTS Maps,         \* memories: [ranges: their kinds, self: where this module begins]
          Kernels,      \* kernels: [knows: the regions they tell, unmap: how they refuse]
          MaxModules    \* s_MaxModules

Regions == {"alias", "heap", "aslr", "stack"}

Kinds == {"text", "rodata", "data", "other"}

(* The last range is what the kernel reports behind the address space.     *)
ASSUME MapsAssumption ==
    \A m \in Maps : /\ m.ranges \in Seq(Kinds)
                    /\ Len(m.ranges) >= 2 /\ m.ranges[Len(m.ranges)] = "other"
                    /\ m.self \in 1 .. Len(m.ranges)
ASSUME MaxModulesAssumption == MaxModules \in Nat \ {0}
ASSUME KernelsAssumption ==
    \A k \in Kernels : k.knows \subseteq Regions /\ k.unmap \in {"state", "range", "other"}

VARIABLES
    memory,             \* the memory the program was loaded into
    kernel,             \* the kernel it runs on
    walk,               \* the walk: where it is, what it has begun to recognise
    s_ModuleInfos,      \* the modules found
    s_SelfModuleIdx,    \* which of them is this one, from 0, or -1
    layout,             \* mem_layout's regions, <<start, size>>
    g_Regions,          \* the memory manager's, <<start, end>>
    g_IsLegacyKernel

layoutVars == <<memory, kernel, walk, s_ModuleInfos, s_SelfModuleIdx, layout, g_Regions,
                g_IsLegacyKernel>>

Nowhere == <<0, 0>>

Looking == [state |-> "LookingForCodeStatic", text |-> 0, rodata |-> 0]

LayoutInit ==
    /\ memory \in Maps
    /\ kernel \in Kernels
    /\ walk = [at |-> 0, found |-> Looking]
    /\ s_ModuleInfos = <<>>
    /\ s_SelfModuleIdx = -1
    /\ layout = [r \in Regions |-> Nowhere]
    /\ g_Regions = [r \in Regions |-> Nowhere]
    /\ g_IsLegacyKernel = FALSE

----
(* FindModules                                                             *)

(* The range queried next; after the last comes the first again.           *)
NextRange == IF walk.at < Len(memory.ranges) THEN walk.at + 1 ELSE 1

(* Mutant: a range that is not expected is passed over without starting    *)
(* again.                                                                  *)
RecogniseOn(found, kind, at) ==
    CASE found.state = "LookingForCodeStatic" /\ kind = "text" ->
            [state |-> "ExpectingRodata", text |-> at, rodata |-> 0]
      [] found.state = "ExpectingRodata" /\ kind = "rodata" ->
            [state |-> "ExpectingData", text |-> found.text, rodata |-> at]
      [] OTHER -> IF found.state = "ExpectingData" THEN Looking ELSE found

(* What the state machine makes of a range.  A range that is not the one   *)
(* expected is passed over, whatever it is.                                *)
Recognise(found, kind, at) ==
    CASE found.state = "LookingForCodeStatic" /\ kind = "text" ->
            [state |-> "ExpectingRodata", text |-> at, rodata |-> 0]
      [] found.state = "ExpectingRodata" /\ kind = "rodata" ->
            [state |-> "ExpectingData", text |-> found.text, rodata |-> at]
      [] OTHER -> Looking

CompletesModule(found, kind) == found.state = "ExpectingData" /\ kind = "data"

TableFull == Len(s_ModuleInfos) >= MaxModules

FindModules ==
    /\ phase = "walk"
    /\ ~TableFull
    /\ LET at == NextRange
           kind == memory.ranges[at]
           begun == walk.found
           more == at >= walk.at
       IN  /\ walk' = [at |-> at, found |-> Recognise(begun, kind, at)]
           /\ IF CompletesModule(begun, kind)
              THEN /\ s_ModuleInfos' = Append(s_ModuleInfos,
                        [text |-> begun.text, rodata |-> begun.rodata, data |-> at])
                   /\ s_SelfModuleIdx' = IF begun.text = memory.self THEN Len(s_ModuleInfos)
                                         ELSE s_SelfModuleIdx
              ELSE UNCHANGED <<s_ModuleInfos, s_SelfModuleIdx>>
           /\ IF more THEN UNCHANGED processVars
              ELSE IF s_SelfModuleIdx' # -1 /\ s_SelfModuleIdx' < MaxModules /\ s_ModuleInfos' # <<>>
              THEN Continue("regions")
              ELSE Abort
    /\ UNCHANGED <<memory, kernel, layout, g_Regions, g_IsLegacyKernel>>

TooManyStaticModules ==
    /\ phase = "walk"
    /\ TableFull
    /\ Abort
    /\ UNCHANGED layoutVars

----
(* FindRegions and virtmemSetup                                            *)

KernelRange(r) ==
    CASE r = "alias" -> <<4096, 2048>>
      [] r = "heap"  -> <<8192, 3072>>
      [] r = "aslr"  -> <<64, 30000>>
      [] r = "stack" -> <<12288, 1024>>

(* The second numbers mem_layout takes for sizes, the manager for ends.    *)
Inferred(r) ==
    IF kernel.unmap = "state"
    THEN IF r = "aslr" THEN <<1, 2048>> ELSE <<1, 512>>
    ELSE IF r = "aslr" THEN <<64, 32768>> ELSE <<64, 1024>>

InferAslrAndStack == kernel.unmap \in {"state", "range"}

FindRegions ==
    /\ phase = "regions"
    /\ LET told == {"aslr", "stack"} \subseteq kernel.knows
       IN  IF {"alias", "heap"} \subseteq kernel.knows /\ (told \/ InferAslrAndStack)
           THEN /\ layout' = [r \in Regions |->
                                IF r \in {"alias", "heap"} \/ told THEN KernelRange(r) ELSE Inferred(r)]
                /\ Continue("virtmem")
           ELSE Abort /\ UNCHANGED layout
    /\ UNCHANGED <<memory, kernel, walk, s_ModuleInfos, s_SelfModuleIdx, g_Regions, g_IsLegacyKernel>>

Ends(range) == <<range[1], range[1] + range[2]>>

(* A kernel that tells of the aslr region must tell of the stack's.        *)
virtmemSetup ==
    /\ phase = "virtmem"
    /\ LET told == "aslr" \in kernel.knows
       IN  IF {"alias", "heap"} \subseteq kernel.knows
              /\ IF told THEN "stack" \in kernel.knows ELSE InferAslrAndStack
           THEN /\ g_Regions' = [r \in Regions |->
                                   IF r \in {"alias", "heap"} \/ told THEN Ends(KernelRange(r))
                                   ELSE Inferred(r)]
                /\ g_IsLegacyKernel' = ~told
                /\ Continue("patcher")
           ELSE Abort /\ UNCHANGED <<g_Regions, g_IsLegacyKernel>>
    /\ UNCHANGED <<memory, kernel, walk, s_ModuleInfos, s_SelfModuleIdx, layout>>

----
(* GetModuleInfo stops the program at an index beyond the modules found.   *)
HasModuleInfo(i) == i < Len(s_ModuleInfos)
s_MainModuleIdx == 1

LayoutNext == FindModules \/ TooManyStaticModules \/ FindRegions \/ virtmemSetup

----
(* Properties                                                              *)

BeginsModule(i) ==
    /\ i + 2 <= Len(memory.ranges)
    /\ memory.ranges[i] = "text"
    /\ memory.ranges[i + 1] = "rodata"
    /\ memory.ranges[i + 2] = "data"

ModuleAt(i) == [text |-> i, rodata |-> i + 1, data |-> i + 2]

(* Every range of code belongs to a whole module, as the loader leaves it. *)
WholeModules ==
    \A i \in DOMAIN memory.ranges : memory.ranges[i] = "text" => BeginsModule(i)

Modules == {ModuleAt(i) : i \in {j \in DOMAIN memory.ranges : BeginsModule(j)}}

Walked == phase # "walk"

(* What the walk keeps is a module, in the order of memory, and this       *)
(* module's index is its own; after the walk no module is missing, if the  *)
(* loader left no broken one, and this module is known (FindModules).      *)
ModulesFound ==
    LET found == {s_ModuleInfos[i] : i \in DOMAIN s_ModuleInfos}
    IN  /\ found \subseteq Modules
        /\ \A i, j \in DOMAIN s_ModuleInfos : i < j => s_ModuleInfos[i].data < s_ModuleInfos[j].text
        /\ s_SelfModuleIdx # -1 => s_ModuleInfos[s_SelfModuleIdx + 1].text = memory.self
        /\ Walked => s_SelfModuleIdx # -1 /\ (WholeModules => found = Modules)

(* The table is never written past its end, and the program gives up when  *)
(* and only when the table's last entry was taken: one module fewer than   *)
(* the table holds can be had (mem_layout.cpp, the check before a query).  *)
TableHolds ==
    /\ Len(s_ModuleInfos) <= MaxModules
    /\ Walked => Len(s_ModuleInfos) < MaxModules

(* mem_layout and the memory manager know the same regions, but for a      *)
(* kernel that does not tell where they are: there mem_layout takes the    *)
(* ends for sizes.                                                         *)
RegionsAgree ==
    phase \notin {"walk", "regions", "virtmem"} =>
        \A r \in Regions :
            LET late == IF g_IsLegacyKernel /\ r \in {"aslr", "stack"} THEN g_Regions[r][1] ELSE 0
            IN  Ends(layout[r]) = <<g_Regions[r][1], g_Regions[r][2] + late>>

(* The program knows the address space it was loaded into.                 *)
LayoutIsTheMemory == ModulesFound /\ TableHolds /\ RegionsAgree
====
