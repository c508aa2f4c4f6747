# A model of the practice mod

TLA+ modules, TLC runs and machine-checked proofs about smo-practice-2, a
practice mod for a console game. The mod is loaded into the game's process,
hooks some of its functions, draws a menu over its frames, and lets the player
edit options, save and load positions, restart scenes, and time runs.

Paths below are relative to the repository (`src/program/...`,
`include/pe/...`); `PROJECT.json` maps every definition to its lines.

## Inventory

| part | state | what is hard | correct when |
|---|---|---|---|
| **Practice menu**: `Menu.cpp`, `MenuComponent.h`, `MenuDPadDisable.cpp` | open, category, index, expanded, focused; a focus flag in each component | one fact in two flags; the index outlives its category; game, menu and binds read one pad | the cursor is on a component wherever it is used, focus and highlight agree, one press goes one way |
| **Value components**: `EnumMenuComponent.h`, `IntMenuComponent.h`, `BoolMenuComponent` | a pointer into the configuration, two counts of held frames | bytes that wrap, a repeat that a third button freezes, an `int` over a one-byte field | a value stays in its table and moves only under a press |
| **Quick action wheel**: `QuickActionMenu.cpp` | frames open, retreating, direction, press timer | selection and release lie frames apart; the open menu freezes both | one release fires what was aimed at, once; the wheel comes back |
| **Timer**: `Timer.cpp` | ticks of start, end and split; running | buttons, actions, scene changes, cloud skip and moon hooks in any order | a result stays; a run times one stage |
| **Practice actions and hooks**: `Menu.cpp` (`callAction`, the buttons), `PracticeHacks.cpp` | saved position, noclip's and cloud skip's statics, map target, options | several actions in one frame against one scene; state that outlives its scene | a puppet is let go, a scene is killed once, no null player is used |
| **Saved configuration**: `UserConfig.cpp`, `fsHelper.cpp` | one object, one file | delete, create, open, write, close may each fail; power loss | the file is whole and saves arrive |
| **RwPages, memory manager**: `rw_pages.*`, `virtmem.c` | reservation list, kernel mappings | unlinking in any order, alignment, one range of several | claims are disjoint, exact and leave nothing |
| **Hook engine**: `lib/hook` | two pools, the patched code, `OrigRef`, inline entries | installing is not atomic; moved instructions refer to each other | a call runs its hooks, then the function; moved code means what it meant |
| **Patchers, encoders**: `lib/patch`, `lib/armv8` | a place in the code, what is not flushed | fields that overlap, operands that do not fit | what is written means what was asked for, and is flushed |
| **Run-time loader**: `lib/reloc` | module list, relocated words, bound slots | modules resolved while others are missing; lazy and eager binding | calls reach their symbol; a word is relocated once |
| **Start**: `mem_layout.*`, `cur_proc_handle.cpp`, `init.cpp` | module table, regions, the process's handle, two threads | a walk over unknown memory; threads that wait for each other | the layout is the memory's; the handle arrives |
| **Graphics**: `imgui_nvn.cpp`, `imgui_backend`, `InputHelper.cpp`, `main.cpp` | captured device, queue and command buffer; backend parts; buffers; screen size; keys | the game's order and threads are its own; the graphics processor works later | the overlay begins whole, frames read their data, inputs are not lost |

Interaction. `exl_init` and `exl_main` run on the game's main thread before the
game begins: they find memory and the process's handle, claim writable views of
the code, patch call sites and install hooks. From then on everything happens
in hooked functions. While the game runs a frame it calls the practice hooks,
which consult the configuration, and reads its pads behind the D-pad filter.
When it presents the frame, `drawDbgGui` (`main.cpp:87-103`) calls
`Menu::update`, then `Menu::draw`: `updateInput`; every `IComponent`, the wheel
first; the information windows; then either the key binds (menu closed) or the
menu with its components (menu open). The pad is sampled once per frame, so
every handler of a frame sees the same presses.

## Modules

| module | models | kind |
|---|---|---|
| `Menu` | the menu's input and drawing, the D-pad filter | component |
| `MenuComponent` | enum, bool and int components | component |
| `ActionWheel` | what the wheel promises | abstract |
| `QuickActionMenu` | the wheel as coded | component |
| `Timer` | the timer and what drives it | component |
| `GameHooks` | what each hook answers for the options that are on | operators |
| `Practice` | actions, buttons, noclip, damage, map target | component |
| `ConfigFile` | saving, with failing calls and restarts | component |
| `AddressSpace` | what claims of address space promise | abstract |
| `RwPages` | claims, reservations, mapping | component |
| `Relocation` | moving instructions into a trampoline | component |
| `Encoders` | the words the encoder classes build, bit by bit | operators |
| `A64` | what the processor makes of a word; what a caller means | operators |
| `CodePatcher` | writing instructions and flushing them | component |
| `HookEngine` | installing hooks, and calling a hooked function | component |
| `CodeChanges` | `CodePatcher` with `HookEngine` | composition |
| `MainThread` | the phase of the start; whether the process runs | shared |
| `MemLayout` | the walk for modules; the regions of memory | component |
| `ProcHandle` | two threads obtain the process's handle | component |
| `Startup` | `MemLayout` with `ProcHandle`, in `exl_init`'s order | composition |
| `NvnBackend` | the renderer: parts, projection, buffers | component |
| `Overlay` | bootstrap, pads and frames over `NvnBackend` | composition |
| `Rtld` | relocating and binding modules | component |
| `Boot` | `Startup`, `Overlay` and `Rtld` | composition |

`MC...` modules are instances for TLC; `...Proofs` modules hold theorems. An
operator whose comment begins "A mistake", "Mistakes", "Mutant" or "A plausible
error" is not part of the model. It is a wrong version of the definition after
it, kept to confirm that each property notices such a mistake.

### Menu

One frame is three steps. `Poll` samples the pad: `held` and its rising edge
`trig`, the `isPadHold*` and `isPadTrigger*` of `JoyPadUtil.cpp`; `seen` is what
the game's own reads let through (`GameSees`: the four hooks of
`MenuDPadDisable.cpp`). `UpdateInput` is `Menu::updateInput` with its three
paths: the chord that toggles the menu and returns, a collapsed menu that moves
over categories, and an expanded one that moves over components and then
updates both focus flags. `Draw` is the rest of `Menu::draw`. The cursor and
the flags keep the code's names. `focused` is the set of components whose own
`mIsFocused` is set. Three variables record what a step touched: `accessed`
(the `components[i]` evaluated), `reacted` (components that acted on the pad),
and `fired` (binds). `Bound` are the binds set to an action. What a button's
functor does is left to `Practice`; none touches the menu's own state.

### MenuComponent

One component, its field, and the byte after the field. `Load` and
`DrawFocused` model the `reinterpret_cast<int*>` over `mCurPattern`
(`Menu.cpp:222`): the value read contains `mIsNoclipEnabled` as its second
byte and storing a clamped value clears it. `Truncate` keeps the width of the
field. The held counts are unbounded in the code; beyond the delay only their
parity matters, so `Tick` goes back by two. The menu appears as `MenuTurn`,
which may give or take the focus in any frame; the other writers of the same
two bytes are `ChangePattern` and `ToggleNoclip`, and `PatternTaken` is what the
game itself looks up through the patched calls.

### QuickActionMenu and ActionWheel

`Draw` has one disjunct per path through `QuickActionMenu::draw`: menu open,
growing, shrinking, released (the `goto`), and idle. The direction pointed at
is an input. Two counters are capped where no comparison can tell them apart:
`mStickPressTimer` at the largest delay and `mActiveFrames` at one more than
fully open. `ActionWheel` has three modes and the direction aimed at; the
refinement (`ImplementsActionWheel`) maps the mode from `mIsRetreating` and
`mActiveFrames`. Its specification is `WheelSpec`.

### Timer

`Start`, `Stop`, `Reset`, `ShowSplit` and `Event` are the methods of `Timer`;
the actions below them are their callers. `Update` is the part of
`Menu::update` that notices a new stage; `stage` is the stage of the live scene
with a player, or none. `TimeShown` is the time that `draw` puts on the screen.
`mTimerStartType` is a constant because the program never changes it. The hook
on the world map that would stop the timer (`PracticeHacks.cpp:304-311`) is
defined but never installed and is not modelled. `timed` is a history of the
stages seen since the last start. The clock may stand still between calls.

### GameHooks and Practice

`Answer(hook, options)` is what a hooked function of the game returns: its own
answer, a fixed one, or none because the call is skipped, by the first option
that is on in the order the code asks (`seedGrowTime` asks for growing before
refreshing). `Practice` lets game and mod take turns. The game's steps make and
end scenes, change their nerve, capture with the player, show a map target,
hurt the player, and move it (`Movement` is `NoclipHook::Callback`). In a frame
of the mod the menu may be toggled and up to `MaxMoves` of these follow: an
action through a bind or the wheel, a button, or an option switched. `Obeys` is
the test at the head of `callAction`, `PressButton` the buttons that ask less.
The damage button is three steps (`ClearNoDamage`, `applyDamagePlayer`,
`RestoreNoDamage`): it remembers the option and clears it, the game hurts the
player through the hook, and the option is put back. `chosen` is a history of
what the player switched, so `OptionsHold` can compare what every hook answers
with what the player asked for, also while one option is cleared.
`puppet` says whether the player is between `startDemoPuppetable` and
`endDemoPuppetable`; ending a demo that this player is not in is the event
"unpaired end". `startDemoPuppetableSuperReal` is taken to enter the same mode,
and the null recovery player that a warp may be handed is the game's affair.

### ConfigFile

`Frame` is the part of `Menu::update` that counts and saves; the five calls of
`writeFileToPath` after `isFileExist` are steps of their own, each of which may
fail where the code looks at the result or not. A restart can fall between any
two. `writeFileToPath` reports a failure on success too (`ConstructResult(1)`),
which nothing reads. Nothing calls `loadConfig`: each run begins with the
defaults and its first frame overwrites what the last run saved. This is why
`HoldsLastAttempt` speaks of one run.

### RwPages and AddressSpace

`Find`, `Reserve`, one `MapRange` per memory range and `Compare` are the
constructor; `Destroy`, one `UnmapRange` per range and `Unreserve` are the
destructor. One thread runs them, and several objects live at once. The
reservation list is modelled link by link, since that is where an error would
hide. `svcQueryMemory` splits the module at `RangeStarts`;
`svcMapProcessMemory` refuses a target in use and `svcUnmapProcessMemory` pages
that are not mapped as stated. A failed assertion ends in `aborted`, where the
program stops; this is why these two configurations do not check deadlock. The
random search may fail although space is left, as the code's may; its inner
redraw (`virtmem.c:137`) is taken to find an address outside the regions it
avoids. `AddressSpace` says that holders of pages are disjoint; the pages held
are mapped from the reservations.

### Relocation

A program of a few instructions and the address of a trampoline are chosen at
the start; each step is one round of the loop in `__fix_instructions`, one
disjunct per class of instruction, and the last step writes the jump back.
Addresses count words. An instruction is its class and its target; what is
written for it is a record that says how the target is held, not its bits.
`fmap` holds the forward references that wait. `WideLimit` and `NarrowLimit` are
how far `b`/`bl` and the others reach, `TestLimit` how far `tbz` and `tbnz` do.
Its specification is `RelocationSpec`. Where the code's bit arithmetic goes wrong
the model does what the bits do: `Referred` (the address that the code takes an
instruction to refer to, from an offset without its sign; `HighWords` are the
4 GiB it is then wrong by), `NearForm` and `FixAdr` (bits of an offset that fall
into the size of a load or the number of a register: the form "spilled"), `FixAdrp`
(a place noted in the writable view). A copy of a literal is told by the address it
is read from; that this memory may not exist when it is 4 GiB off is not.

### Encoders, A64 and CodePatcher

Each encoder class is an operator of the same name that applies its `SetBits`
calls in the order of the constructors, since fields of a base class overlap
those of the derived one; `word ++ <<low, high, value>>` is the setter an
`ACCESSOR` makes. `Calls` are all calls of the constructors that compile, by the
widths of their parameters. `A64` decodes a word as the processor does, and says
what a caller of each constructor means. The module `CodePatcher` is
`StreamPatcher` and `CodePatcher`: `Open`, `WriteInst`, `BranchInst`, `BranchLinkInst`, `Seek`
and the destructor, with `stale` the words that are written and not yet
flushed. `Fits` lists the operands a constructor can express. Those it cannot
are cut silently: immediates that do not fit, a negative distance of `adrp`,
the stack pointer where the field means zero, an extend the classes do not
know, or registers of two sizes.

### HookEngine and CodeChanges

Installing a hook is `Begin`, the allocation of a trampoline, the fixing of the
moved instructions, one `PatchWord` per word of the function, and `Link`, which
sets `OrigRef` or fills the inline entry. In every state `Call(f)` runs a thread
through the function, its trampolines and callbacks, to compare what it did
with `Expected`. A moved instruction counts as one word here (what it becomes is
the matter of `Relocation`). A function must be as long as what a hook
overwrites: five words for a far one. Processors' caches are coherent except
for what the patchers flush. `live` is, for each function, the hooks installed
there, oldest first. The last instruction of a function returns, wherever it was
moved, and a call is followed for twelve steps more than the function's length
for each hook (`MaxSteps`). `CodeChanges` lets a behaviour patch or hook:
neither reads what the other writes.

### MemLayout, ProcHandle and Startup

`FindModules` is one `svcQueryMemory` of the walk with its state machine
(`Recognise`); ranges are known by their place and kind. `FindRegions` and
`virtmemSetup` ask the kernel for the same regions one after the other; a
kernel that does not tell of address space and stack makes both infer them from
the error with which it refuses an unmapping. `ProcHandle` has the two threads of
`GetViaIpcTrick`, one call per step: session, thread, request, the close of the
server's end that lets the first thread go on, wait, close. `svcGetInfo` stores
64 bits into the 32-bit `s_Handle` (`cur_proc_handle.cpp`); the model keeps the
handle only. `Startup` orders them: the layout, the patcher's claim of the
code, for which the handle is needed, the pools, the hooks.

### NvnBackend and Overlay

`SetupParts` makes shaders and font one object after the other, up to the first
that fails; files and the shader compiler are abstracted to their outcome. A
frame is rendered in the steps of `renderDrawData`: resize vertices, resize
indices, copy, submit; the graphics processor finishes frames later, in order.
`buffers` keeps every buffer ever made, so that a frame can be compared with
what it was submitted with. `ResizeDisplay` is `setCrop`'s part of the size,
`updateScale` the scaling of windows; `ImFloor(w * (1 / 1.5f))` was checked to
equal `(2 * w) / 3` for all widths below 8000. `Overlay` has the hooked lookups,
`deviceInit`, `queueInit`, `cmdBufInit` and the emptied pad reads (`disableButtons`), the keys of `InputHelper`,
and `presentTexture` to `procDraw` step by step. `HakoniwaSequenceInit` makes the
menu.

Nothing locks the making of a command buffer. Each thread that makes one goes
through `maker`: the buffer is caught (`cmdBufInit`), the flag is read
(`CheckInitImGui`), what was caught is read (`InitImGui`), then the context is
created, the assertion evaluated, the backend's data put in place
(`InitBackend`), its parts made (`SetupImGui`), and the answer, TRUE or FALSE,
stored over whatever the flag holds (`StoreInitImGui`). `CreateContext` changes
ImGui's current context for a moment, and data of a second thread that passed the
assertion takes the first one's place: what a thread finds that works with either
at that time is a data race. The model lets it go unnoticed or ends in `lost`,
which it does not follow further (`MainThread.Lose`).

### Rtld and Boot

A file is its dynamic relocations, its slots and its symbols. `Initialize`,
`Relocate`, `ResolveSymbols`, `Call` and `rtld_lazy_bind_symbol` are the methods
of `ModuleObject` and the stub; the order in which modules are loaded and
resolved is the console loader's and free. Hashing is abstracted: the table
finds every symbol of a module in the table's order. `Callers` are the slots
that a module calls once it runs; a weak symbol that is found nowhere is no
callee. `exl_dynamic` is the
relocation of the program where it starts by itself. The symbols that the
program registers by hand are taken not to occur in the modules.

`Boot` puts the program together from its entry to its pictures. Its variable
`focus` is a bound: in one behaviour only one of memory and kernel, the making
of the graphics, the frames, the inputs, or the loader varies, after a start
that is the same for all. Threads make command buffers side by side where the
graphics vary, and one after the other elsewhere.

## Runs

| run | shows | size |
|---|---|---|
| `menu` | cursor, focus and presses for any sequence of pads | 201,330 states |
| `component` | values stay in their tables; holding gets to the end | 138,158 states |
| `wheel` | the wheel implements `ActionWheel` and comes back | 2,736 states |
| `timer` | results stay; one stage at a time; when a time is negative | 74,880 states |
| `practice` | puppets, map targets, killed scenes, absent players, options and damage | 779,968 states |
| `config` | when the file is whole, what it holds, that saves arrive | 16,425 states |
| `rwpages` | claims are disjoint, exact and leave nothing behind | 58,357 states |
| `rwpages_across` | a claim over a page boundary is mapped short | violation |
| `relocation` | moved code means what it meant, and when it does not | 1,965,200 states |
| `relocation_adrp` | an adrp may refer forwards into the moved range | violation |
| `code` | patches mean what was asked for; calls run their hooks; pools end | 162,190 states |
| `boot` | layout and handle; the overlay begins whole; frames, inputs, modules | 229,597 states |

**Bounds.** `menu`: categories of 3, 1 and 2 components let an index go past the
end of a shorter category and land inside a longer one, with focusable
components and buttons; pads hold any two of six buttons, and the chords; of
the four directions two have an action and two go to the game.
`component`: the delay of 30 frames is 3 and tables have two to four entries;
a repeat before, at and after the delay, at both parities, and clamping at both
ends occur. `wheel`: fully open after 2 frames instead of 15, delays 1 and 2,
two directions. `timer`: five ticks with a split shown for two hold a run, a
split, a restart while it shows, and the time after; two stages and none are
all that a comparison of names can tell apart. `practice`: three scenes (one to
save, map and fly in, one to carry that into, one more) and two actions in a
frame, which is enough for one of them to find what another did; of the options
noclip, no damage, and one that two hooks ask for.
`config`: three runs, so that a file of the first meets two later ones; two
failing calls, so that the second can hit the save that would repair the first;
a save every third frame instead of every 3600th. `rwpages`: three objects are
the fewest for which a node is unlinked from the middle of the list; six pages
make them compete; one claim spans two ranges and one is shorter than its
range. `relocation`: three instructions instead of five let a reference pass
over a padded neighbour in both directions; the offsets have 9, 7 and 6 bits
instead of 26, 19 and 14, and the part of an address without a sign 10 instead of
30, with trampolines at every alignment on both sides of each reach and one near
where an offset without its sign leads; the second instruction begins a page. `code`: every
constructor with operands at the edge of its fields and just beyond, in their
real widths; each word is patched once; five hooks of every kind, near and far,
on two functions in every order, with a trampoline pool of one (so two are given
out) and an inline pool of one; a call that has not returned after 60 steps
never does. `boot`: ten memories with this module first, last, absent, alone,
behind broken modules and one too many for the table of three; kernels that know
any subset of the four regions and complain in any way; two threads that make
command buffers; three frames, two of them in flight; one graphics call that
fails; four window sizes, one with the width of another and the height of a
third; two modules of every combination of relocation kind,
count, binding and visibility that the loader distinguishes.

Deadlock is checked where the system never stops (`menu`, `component`, `wheel`,
`timer`, `config`). The others end by themselves: a program that aborted or
crashed, a finished relocation, a scene bound that is reached, all hooks
installed, all frames shown.

**Fairness.** The frame loop is assumed to go on (`component`, `wheel`,
`config`): `drawDbgGui` is called from the hooked present call for every frame
the game shows, so the next half of a frame, or the next call of a save,
follows. In `boot` each of the two threads of the process's handle is scheduled
when it can run (`ClientTurn`, `ServerTurn`): they are ready threads of the
kernel and wait for nothing but each other. What the player, the game and the
graphics processor do is never assumed, except as the premise of a property (a
button that stays held). Premises remain in the properties themselves: an open
menu freezes the wheel, and with it open for ever the wheel rightly stays where
it is; a save arrives unless the card is not mounted or a failed write left the
file open; the handle arrives unless a call fails that must not.

## Findings

`RwPages::Claim::GetAlignedSize` (`rw_pages.hpp:26-28`) rounds the size up
without the offset of the claim's start within its page. A claim of a few bytes
that crosses a page boundary is therefore mapped one page short; the comparison
that the constructor asserts (`rw_pages.cpp:71-72`) reads past the mapping. The
run `rwpages_across` shows the shortest such claim.

The comment at `hook_impl.cpp:432-433` holds that an adrp within the moved range
refers to itself or backwards. When the moved instructions cross a page
boundary it may refer forwards; the run `relocation_adrp` shows one. Only hooks
that move several instructions can meet this.

Further behaviours a reader should know. The first group is stated by
properties, in the exact form in which they hold.

* A component keeps its focus when the menu is closed while focused, or when
  Left and A are pressed together: it then edits its value whenever its
  category is drawn, wherever the cursor is. `GhostOrigin` says these are the
  only ways there.
* The chord that opens the menu also reaches the game, which sees its Left
  (`PressesGoOneWay` has this one exception); and a closed menu moves its cursor
  on presses that the game sees.
* Drawing the focused pattern component while noclip is on turns noclip off and
  selects the last pattern (`FocusedPatternClearsNoclip`).
* A value keeps falling without Left while L is held, if the repeat had begun
  (`StepNeedsButton`).
* With noclip on, the pattern component reads an index of at least 256, far
  beyond its table of names, whenever it is drawn, focused or not.
  `LookupInTable` states this as its one exception. What the read returns is
  undefined and the program may stop there; the model goes on.
* The time shown is negative while a split is on the screen that is older than
  the last start or reset (`NegativeOnlyUnderOldSplit`). A split of a stopped
  timer wipes its result (`ResultStays`).
* The save and load buttons and `KillMario` use a null player in a live scene
  without one (`CrashNeedsAbsentPlayer`); a warp can use the map target of a
  scene that is gone (`StaleTargetNeedsUnseenMap`); noclip, turned off after a
  change of scene or a loaded position, ends a demo its player is not in
  (`UnpairedEndNeedsCause`).
* A write that fails leaves the file open, and no later save of the run changes
  it (`LeakFreezesFile`).
* A moved instruction can change its meaning (`MeaningKept`). Of the references
  to a lower address only those of `b` and `bl` survive: a conditional branch goes
  far forward, `adr`, `adrp` and literals are taken to be 4 GiB higher. An adrp to
  a page that begins within the moved range counts from the trampoline's page; a
  branch to a moved adrp may lead to the writable view. A literal that lies in
  reach before the trampoline is loaded in another size or not at all, and an
  `adr` to a byte between two words, in reach, may change its register. A hook
  that moves one instruction can meet all of these but the branch to an adrp.
* An inline entry branches to its trampoline by the distance from the
  instruction before (`inline_impl.cpp:69` adds 8 where the branch stands at 12), so the first moved instruction is skipped; `Expected` says so.
  Nothing in the program installs an inline hook. An inline hook over an older
  hook, and a far hook over a near one, break the older (`Breaks`). While a hook
  is being installed a call of the function fails (`Exposed`).
* The pool of trampolines gives out one entry more than its table was sized for
  (`PoolLimits`). A table of `MaxModules` modules serves one fewer
  (`TableHolds`), and on kernels that do not tell, `mem_layout` takes ends for
  sizes (`RegionsAgree`).
* Of two threads that make command buffers at the same time (`OverlayBegunWhole`)
  both may enter `InitImGui`: the second stops the program at the assertion or,
  when both have passed it, replaces the first one's data. One that found no queue
  may store FALSE after the other stored TRUE: then nothing is drawn, and the next
  command buffer runs into the assertion. A queue made after the last command
  buffer means no overlay.
* The vertex buffer a frame reads may be refilled, or given back for a larger one,
  before the processor is done: nothing waits for it (`FramesReadTheirData`).
* `setCrop` (`imgui_nvn.cpp:39`) overlooks a window that differs from the last in
  its width or its height only: layout and projection stay those of the last. One
  that has a dimension of the default size, shown first, leaves the overlay
  without a projection (`ScreenFollowsWindow`).

Not stated by any property, found while modelling:

* `toggleInput` is never true after the first frame, so ImGui never gets the
  pad; `isUseTestShader` is never set; `setUpdated` of the pattern notification
  is never called (with 30 frames left it would divide by zero).
* A buffer whose pool was made and whose buffer failed is kept, not ready, until
  more is needed.
* `ModuleObject::Initialize` asserts the size of RELA entries the wrong way round
  and so stops at any RELA module that states it; in REL modules an eager slot
  holds stub plus symbol. An eagerly bound weak hidden slot holds its addend
  where lazy binding gives 0; the run gives such slots no addend.
* `InRo` and `InRw` (`rw_pages.hpp:31`) subtract the wrong way round; they have
  no caller.

## Proofs

Eight modules hold proofs. Each proves, for every value of its constants that
satisfies the named assumptions, that an inductive invariant is kept, and from
it the properties of the runs. Of the 40 properties of the passing runs, 36 are
theorems; the other four are liveness properties.

**Assumptions.** They say what the code's types, tables and constructors give,
and TLC evaluates them on every run. A field can hold the last index of
its table of values and the one after it; only the tables behind one-byte fields
are bounded by that (`MenuComponent`). No
window is empty, and a captured object is not null (`Overlay`). A request for a view
lies within the module; there are finitely many claims at a time (`RwPages`). A
trampoline has room for a far jump and a jump back, and the table of trampolines
fits the mapped pool; functions, pools, callbacks and the common part of inline
hooks are apart from each other, no two hooks share a callback, and a branch
spans the module that holds the pools, of which a function sees the inline
entries all near or all far (`HookEngine`). A file's relocations name symbols of its
table, and what is registered by hand is not defined by a module (`Rtld`). A
trampoline has ten words for each of at least three instructions and is shorter
than the least reach of an offset, which reaches no further than 32 bits of bytes
count; each instruction can be encoded where it
stands (`Relocation`). What is patched are calls of the constructors that
compile (`CodePatcher`). Nothing is assumed of the order in which the player, the
game, the loader or the graphics processor act.

**`MenuProofs`**: any categories, components (at least one each), focusable
ones, binds and pads; all five properties of `menu`, and the types. The types
with `ClampInRange` and `ComponentsMembership` give `AccessInBounds`.
`OpenCursorInBounds` is not inductive: it speaks of input, and its truth comes
from the drawing before; `CursorWasDrawn` strengthens it to every phase but
drawing. `PressesGoOneWay` needs `QuietBeforeDraw`, since binds fired in an
earlier frame would break it, and `SeenWhenClosed`, which follows the presses the
game saw from `Poll`, where the menu was closed, through the chord that may have
opened it. `PollInv`, `UpdateInputInv` and `DrawInv` preserve the conjunction,
one case per path of the code. The three action properties are facts of one
step: `FocusedIndexStays` says that a cursor on a component is not moved by the
clamp, `UpdateFocusEffect` relates both focus flags after input, and in
`GhostsComeFromOutside` the delicate step is drawing: if it clamps the index,
the cursor was on no component, so nothing focused was under it.

**`MenuComponentProofs`**: any components, delay and pads; the three safety and
action properties of `component`, and the types. What the menu shows is looked
up in the step that draws it and stays on record, so `LookInv` remembers that
every index shown was one that `Load` could give. The arithmetic is in
`PlainEdit` and `AliasedEdit`: what storing a clamped value does to the field,
and, for the pattern, to the byte after it.

**`TimerProofs`**: any stages, start type, length of a split and number of
ticks; all properties of `timer`, and the types. `EndAfterStart`: a timer that
stands still has an end no earlier than its start, so that only the split can
make the time negative. `TimedIsLastSeen`: the history holds nothing but the
stage seen last, so never two. The proof goes by the five operations, then by
their callers. The same module shows that the wheel implements `ActionWheel`,
for any directions and delays: each path of `draw` is a step of the abstract
wheel or leaves it alone. Two facts make that so: a wheel that is not open aims
at nothing (`AimsOnlyWhenOpen`), and the direction fired is forgotten before the
next frame (`FiredIsForgotten`).

**`PracticeProofs`**: any options and nerves, any number of scenes and of
actions in a frame; all six properties of `practice`, and the types. The
invariant adds that noclip never moved a player of a scene to come (`ScenesOK`),
that what noclip moved last in this scene it still holds unless a position was
loaded (`NoclipHolds`), and that a map which was shown left its target
(`ShownTarget`). Each action has a lemma. For the options, the
invariant says what the damage button knows while it is at work (`OptionsInv`);
that no hook but one asks for the option it clears is read off the table
(`OthersDoNotAsk`). The same module shows the three safety properties of `config`,
for any distance between saves, any number of runs, edits and failing calls. The
invariant there (`ConfigInv`)
follows the file through one save: while nothing went wrong it is whole until
`DeleteFile`, absent before `CreateFile`, and whole with the present
configuration before `CloseFile` (`FileFollowsSave`, `SavesConfig`); only trouble
leaves the file open (`LeakIsTrouble`).

**`RwPagesProofs`**: any address space, pages, ranges, requests and claims; both
invariants of `rwpages`, and that the kernel is never asked for what it would
refuse. The model's `Walk` follows the links with a recursive function on
numbers. Its solution is exhibited (`FirstOf`: of a sequence that the links
describe, the first n), and the first number at which the function could differ
from it is excluded by well-foundedness (`WalkEquation`, `WalkSeesList`), so
that no induction over sequences is needed. `PushedIsLinked` and
`WithoutIsLinked` are the pointer surgery at the head and anywhere else. A
reservation belongs to a live claim or the one being worked on and to no other
(`OwnerInv`, `RegionInv`); what is mapped is what `Shown` says, which includes
how far the claim being mapped or unmapped has come (`MappingInv`): between
operations this is `ViewsAreExact`. `AddressSpaceImplemented` maps reserving to
the abstract acquisition, unlinking to the release, and the rest to stutters.

**`CodeChangesProofs`**: three things. What is not flushed lies between the place
of the last move of the patcher and the current one, for any words, calls,
targets and moves (`NothingStale`). Then relocation, for any
instructions at any address, any trampoline and any reach: `MeaningKept` and
`WellPlaced`. The invariant says of each instruction moved so far either that it
follows another moved one, of which it knows the place or for which it waits
(`Following`, `Waiting`), or that it stands alone and means its target
(`Alone`). `Shape` is what all classes of instructions have in common; each class
is shown to have it, and only `Shape` is used to show the invariant kept. For
the room, ten words an instruction are not what the code needs: a quad-word
literal out of reach takes nine, with its padding, and the jump back four or
five more, so one moved instruction can need thirteen. `Size` shows that only an
instruction one word before a multiple of four takes nine and that it ends on
one, so that n of them take at most 8n + 1; with the jump back that stays below
`TrampolineSize`, which is 50 whatever n is. That a literal lost its sign never
leads back into the moved range (`SignLost`) needs that the range is shorter than
an offset's reach.

The third is `EncodedAsMeant`, for every constructor and all its operands: 32
bits of immediate, every register in every place, every extend, amount and
distance. The run tries operands at the edges of the fields; the theorem leaves
none out. A word is its 32 bits, and a number is read from a field by the
recursive function in `BitsOf`; that it has a solution, and that a field set to a
value reads as the value cut to the field's width (`FieldValue`), is shown by the
least natural number at which it would fail (`LeastNatural`). Each constructor is
then followed field by field: since fields overlap, what counts is what the last
setter left (`FieldSet`, and the `...Bits` lemma of the class, which has a step
per setter). The bits of a class suffice for the processor to find it, and no
other (`Decoding`, `Classes`), so that what it makes of the fields (`...Intent`)
can be compared with what the caller meant: the two agree exactly when `Fits`
holds (`...Said`, `CallsSaid`). The patcher's part is small after that
(`MeantInv`): an address that is patched twice means what the second call meant.

**`HookEngineProofs`** extends it by the hook engine. The pools: while the program
runs, the last trampoline is at most the one beyond the table, and the job that moves
words moves them to the last one (`PoolInv`, for `PoolLimits`). The code (`CodeInv`): whatever is installed, in
any order, on any functions, everything it wrote stays what it is. Three things
that the code does not keep are stated as witnesses: where each hook makes its
function jump (`target`), what the first words of a function were after each of
its hooks (`layer`), and how much of its jump the hook under way has written
(`written`). A function then holds its last layer, with the words written so far
over it (`FunctionInv`); each trampoline holds what its hook found, that is the
layer below, and a jump back (`TrampolineInv`); each inline entry the way to its
callback (`EntryInv`); and what is given out is given out once (`SlotInv`). Each
step has a lemma; the witness that changes is `target` when an entry is given
out, `written` when a word is patched, and `layer` when a hook is done.

Then what a call does with that code (`CallsRunTheirHooks`), for any hooks on any
functions, at any moment of any installation. `Call` runs a call for as many steps as
`MaxSteps` allows; the proof shows what it reaches by then. `Finishes` says that a
thread at some word returns after at most so many steps with a given trace, `Does`
that it does so from every trace it brings along, adding the rest; each kind of word
has a lemma that says where it leads (`GoB`, `GoLoad`, `GoBr`, ...). From these follow
the parts of a call: a whole jump leads to its target (`JumpGoes`), moved
instructions run and go on behind the jump (`TrampolineOfOrigs`), a moved jump still
jumps, though its address stays behind (`TrampolineOfJump`), and an entry runs its
callback and skips an instruction (`InlineDoes`). `HooksDo` puts them together, from
the oldest hook on, by the first one that would not do what is expected of it: a
hook's trampoline holds the jump to the hook before it, or the function's own words.
That needs `Ready`: no hook breaks an older one, and behind a near hook with a way
back the function is as that hook found it (`BehindNear`). So a call of a function
with whole jumps runs its hooks (`CleanRun`), also while a far jump is laid over
another (`OverAnother`). The converse is proved as well, so that `Exposed` is not
larger than it must be: a jump to a hook that is not linked crashes (`NotLinked`),
and part of a jump crashes, skips instructions, or leads to an older far hook past
the newer ones (`PartOfJump`), which no trace expected begins with.

**`BootProofs`**: whatever the game does meanwhile,

* any memory, kernel and size of the table; `LayoutIsTheMemory`, and
  `StackOutlivesThread`, the safety part of `HandleArrives`. For the walk: what
  has been begun is at the range queried last (`Begun`), kept modules are behind
  it and in order (`Kept`), nothing whole was missed (`NoneMissed`); the last
  range is no module's, so the query that wraps round completes nothing. For the
  regions: mem_layout and the memory manager are both told the same, or both
  infer. For the handle: where the second thread can be by where the first is.
* any number of threads that make command buffers; `OverlayBegunWhole`. Once a
  buffer was made after device and queue, a thread that cannot fail any more is at
  it, or the overlay is there, or was forgotten (`CaughtInv`). As long as no two
  threads have met there is one at most (`OneByOne`), and it finds no data when it
  puts its own in place (`SetupInv`, `LostInv`). Whoever meets, while the program
  runs one thread at most is in the set-up (`SetupInv`), and the data, once there,
  stays: what is presented rests on it, not on the flag (`PictureInv`).
* any demands of frames; `FramesReadTheirData`. Of each kind the backend has one
  buffer (`CurrentInv`), large enough from its resizing on; what a frame was
  submitted with fits it for ever (`Fits`, `SubmittedInv`), and only between two
  frames is the last one sure to be intact.
* any reads of the pads between pictures; `InputsKept`. The switch that empties
  the game's reads is on for the first picture only (`InputInv`).
* any windows; `ScreenFollowsWindow`. The width without its scale stays one of
  two (`WindowInv`); layout, projection and scale were set together, from a window
  that is the one last shown in a dimension at least, or never (`ScreenInv`).
* any modules, files and symbols; `ModulesBound`. Before it is bound a slot holds
  the stub; what a bound one holds is nothing, its addend, or its symbol as found
  then (`SlotBound`). Because modules only join the list at its end, what a
  lookup has found it finds ever after (`LookupLasts`, by the least index that
  gives the name), so slots bound early and late agree. A relative word is as in
  the file until its module is relocated, and has the base added once afterwards
  (`RelocatedOnce`).

**Only model-checked.** Liveness under fairness and `ENABLED` are out of the
provers' reach: `WheelSettles`, `HoldingReachesTheEnd`, `SavesArrive`,
`HandleArrives`. The two properties that are expected to fail are not theorems, of
course.

## Not modelled

* `Vector2MenuComponent` moves a pair of floats by the stick; the information
  windows, `InputDisplay`, fonts, colours, words and their localisation, and
  positions on the screen have no behaviour the rest depends on.
* Hooks that are defined and never installed: world warp, broodals, hint photo,
  the demo hooks, the world map. `loadConfig`, `RandomAccessPatcher`, the
  assembler patches, moves of `RwPages` and the shader test code, which nothing
  calls. `OrrImmediate` and the shift aliases, which no header includes.
* The heap behind `malloc`, `svc.h` and the headers that describe the game and
  the graphics API: external, modelled by what calls of them may return.
* Rebooting into a payload, which is not compiled in; an abort is the end of the
  process at the place where it happens.
* What the instructions of an inline entry do with registers other than X17 and
  the link register; the digits and words the timer draws.

What remains to be done: the four liveness properties are checked on instances
and not proved; every invariant and every action property is.
