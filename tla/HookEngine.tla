---- MODULE HookEngine ----
(***************************************************************************)
(* The hook engine (src/lib/hook): the two pools of trampolines and of     *)
(* inline entries, the patching of the hooked function, the templates that *)
(* keep the way to the original, and what a thread meets that calls a      *)
(* hooked function before, while and after a hook is installed.            *)
(*                                                                         *)
(* Addresses count words.  A word of code is one of                        *)
(*   <<"orig", f, k>>   instruction k of function f, wherever it was moved *)
(*   <<"b", a>>         a branch to a                                      *)
(*   <<"bl", a>>        a branch to a that keeps the way back              *)
(*   <<"ldr17", a>>     load X17 from the two words at a                   *)
(*   <<"x17", v>>       the same, moved: the literal goes with it          *)
(*   <<"br17">>, <<"nop">>, <<"push">>, <<"pop">>, <<"data", v>>, <<"none">>*)
(* Relocation says how a moved word takes several, and what it means then; *)
(* here it takes one.  Caches are coherent but for the patchers' flushes   *)
(* (CodePatcher), and a function is at least as long as what a hook        *)
(* overwrites.                                                             *)
(***************************************************************************)
EXTENDS A64, FiniteSets

CONSTANTS Functions,        \* the addresses of the functions that are hooked
          Length,           \* of each, its length
          Hooks,            \* the hooks, named by numbers from 1
          Kind,             \* of each, "trampoline", "replace" or "inline"
          Callback,         \* of each, the address of its callback
          BySymbol,         \* those installed at a symbol
          HookPool,         \* where the pool of trampolines begins
          HookMax,          \* the entries of its table
          TrampolineSize,   \* the words of an entry
          JitWords,         \* the words mapped for the pool
          InlinePool,       \* where the pool of inline entries begins
          InlinePoolCount,  \* its entries
          Impl              \* the common part of inline hooks

EntrySize == 6

WordsOf(f) == f .. f + Length[f] - 1
PoolWords == HookPool .. HookPool + JitWords - 1
EntryWords == InlinePool .. InlinePool + EntrySize * InlinePoolCount - 1
CodeWords == (UNION {WordsOf(f) : f \in Functions}) \cup PoolWords \cup EntryWords

(* A hook is near when a single branch reaches from the function to it.    *)
Distance(a, b) == IF a < b THEN b - a ELSE a - b
Near(f, target) == Distance(f, target) < 2^25 - 1

ASSUME HooksAssumption ==
    /\ Hooks \subseteq Nat \ {0}
    /\ Kind \in [Hooks -> {"trampoline", "replace", "inline"}]
    /\ Callback \in [Hooks -> Nat]
    /\ \A g, h \in Hooks : Callback[g] = Callback[h] => g = h

ASSUME LengthAssumption == \A f \in Functions : Length[f] \in Nat /\ Length[f] >= 5

(* A trampoline has room for the words of a far jump and a jump back.      *)
ASSUME PoolAssumption ==
    /\ HookMax \in Nat /\ TrampolineSize \in Nat /\ JitWords \in Nat
    /\ TrampolineSize > 5 /\ HookMax * TrampolineSize <= JitWords
    /\ HookPool \in Nat \ {0} /\ InlinePool \in Nat /\ InlinePoolCount \in Nat

(* Each thing has a place of its own.                                      *)
ASSUME PlacesAssumption ==
    /\ Functions \subseteq Nat
    /\ \A f, g \in Functions : f # g => WordsOf(f) \cap WordsOf(g) = {}
    /\ \A f \in Functions : WordsOf(f) \cap (PoolWords \cup EntryWords) = {}
    /\ PoolWords \cap EntryWords = {}
    /\ Impl \in Nat \ CodeWords
    /\ \A h \in Hooks : Callback[h] \notin CodeWords \cup {Impl}

(* The pools and the common part are in one module, which a branch spans;  *)
(* seen from a function the inline entries are all near or all far.        *)
ASSUME ReachAssumption ==
    /\ \A a \in EntryWords, b \in PoolWords \cup {Impl} : a - b < 2^25 /\ b - a < 2^25
    /\ \A f \in Functions, a \in EntryWords : Near(f, a) <=> Near(f, InlinePool)

VARIABLES
    code,           \* the words of functions and pools
    index,          \* the last trampoline given out, or -1
    s_EntryIndex,   \* the inline entries given out
    OrigRef,        \* of each hook, its trampoline, or 0
    tried,          \* the hooks whose installation has begun
    live,           \* of each function, the hooks installed, oldest first
    job,            \* the installation under way
    status          \* "running", "aborted" or "faulted"

hookVars == <<code, index, s_EntryIndex, OrigRef, tried, live, job, status>>

NoJob == [hook |-> 0, func |-> 0, phase |-> "none", tramp |-> 0, entry |-> 0, left |-> <<>>]

HookInit ==
    /\ code = [a \in CodeWords |->
                 IF \E f \in Functions : a \in WordsOf(f)
                 THEN LET f == CHOOSE g \in Functions : a \in WordsOf(g) IN <<"orig", f, a - f>>
                 ELSE <<"none">>]
    /\ index = -1
    /\ s_EntryIndex = 0
    /\ OrigRef = [h \in Hooks |-> 0]
    /\ tried = {}
    /\ live = [f \in Functions |-> <<>>]
    /\ job = NoJob
    /\ status = "running"

----
Count(f, target) ==
    IF Near(f, target) THEN 1 ELSE IF (f + 2) % 2 # 0 THEN 5 ELSE 4

(* The words that make the function jump, in the order they are written.   *)
Patches(f, target) ==
    LET g == IF Count(f, target) = 5 THEN f + 1 ELSE f
        jump == <<<<g, <<"ldr17", g + 2>>>>, <<g + 1, <<"br17">>>>,
                  <<g + 2, <<"data", target>>>>>>
    IN IF Near(f, target) THEN <<<<f, <<"b", target>>>>>>
       ELSE IF g = f THEN jump ELSE <<<<f, <<"nop">>>>>> \o jump

Moved(word) == IF word[1] = "ldr17" THEN <<"x17", code[word[2]][2]>> ELSE word

(* A plausible error: back to the hook.                                    *)
JumpBackInto(f, target) == <<"b", f>>

JumpBack(f, target) == <<"b", f + Count(f, target)>>

Target(j) == IF Kind[j.hook] = "inline" THEN j.entry ELSE Callback[j.hook]

Begin(h, f) ==
    /\ status = "running" /\ job = NoJob /\ h \notin tried
    /\ tried' = tried \cup {h}
    /\ IF Kind[h] = "inline" /\ s_EntryIndex >= InlinePoolCount
       THEN status' = "aborted" /\ UNCHANGED <<job, s_EntryIndex>>
       ELSE /\ s_EntryIndex' = IF Kind[h] = "inline" THEN s_EntryIndex + 1 ELSE s_EntryIndex
            /\ job' = [NoJob EXCEPT
                         !.hook = h, !.func = f,
                         !.phase = IF Kind[h] = "replace" THEN "patch" ELSE "alloc",
                         !.entry = InlinePool + EntrySize * s_EntryIndex,
                         !.left = IF Kind[h] = "replace" THEN Patches(f, Callback[h]) ELSE <<>>]
            /\ UNCHANGED status
    /\ UNCHANGED <<code, index, OrigRef, live>>

(* A symbol that is not found: the hook is left out, and nobody told.      *)
NotFound(h) ==
    /\ status = "running" /\ job = NoJob /\ h \in BySymbol \ tried
    /\ tried' = tried \cup {h}
    /\ UNCHANGED <<code, index, s_EntryIndex, OrigRef, live, job, status>>

(* A plausible error: one more entry beyond the table.                     *)
PoolExceededLater(i) == i > HookMax + 1

PoolExceeded(i) == i > HookMax

AllocForTrampoline ==
    /\ status = "running" /\ job.phase = "alloc"
    /\ index' = index + 1
    /\ IF PoolExceeded(index + 1)
       THEN status' = "aborted" /\ UNCHANGED job
       ELSE /\ job' = [job EXCEPT !.phase = "move",
                                  !.tramp = HookPool + TrampolineSize * (index + 1)]
            /\ UNCHANGED status
    /\ UNCHANGED <<code, s_EntryIndex, OrigRef, tried, live>>

(* The trampoline: the words the hook will overwrite, and a jump behind    *)
(* them.  A write beyond the mapping is a fault.                           *)
FixInstructions ==
    /\ status = "running" /\ job.phase = "move"
    /\ LET f == job.func
           count == Count(f, Target(job))
       IN IF job.tramp + count \notin PoolWords
          THEN status' = "faulted" /\ UNCHANGED <<code, job>>
          ELSE /\ code' = [a \in DOMAIN code |->
                             CASE a \in job.tramp .. job.tramp + count - 1 ->
                                    Moved(code[f + a - job.tramp])
                               [] a = job.tramp + count -> JumpBack(f, Target(job))
                               [] OTHER -> code[a]]
               /\ job' = [job EXCEPT !.phase = "patch", !.left = Patches(f, Target(job))]
               /\ UNCHANGED status
    /\ UNCHANGED <<index, s_EntryIndex, OrigRef, tried, live>>

(* One word of the function.                                               *)
PatchWord ==
    /\ status = "running" /\ job.phase = "patch"
    /\ code' = [code EXCEPT ![Head(job.left)[1]] = Head(job.left)[2]]
    /\ job' = [job EXCEPT !.left = Tail(@),
                          !.phase = IF Len(job.left) = 1 THEN "link" ELSE "patch"]
    /\ UNCHANGED <<index, s_EntryIndex, OrigRef, tried, live, status>>

(* A branch that the encoders made, at a.                                  *)
Placed(word, a) == <<Means(word)[1], a + Means(word)[2] \div 4>>

(* The four instructions of an inline entry, and its callback behind them. *)
InlineEntry(h, entry, trampoline) ==
    [k \in 0 .. 4 |->
       CASE k = 0 -> IF Means(SturUnscaledImmediate(LR, SP, -16)) = <<"str", LR, SP, "unscaled", -16>>
                     THEN <<"push">> ELSE <<"none">>
         [] k = 1 -> Placed(BranchLink(4 * (Impl - (entry + 1))), entry + 1)
         [] k = 2 -> IF Means(LdurUnscaledImmediate(LR, SP, -16)) = <<"ldr", LR, SP, "unscaled", -16>>
                     THEN <<"pop">> ELSE <<"none">>
         [] k = 3 -> Placed(Branch(4 * (trampoline - (entry + 2))), entry + 3)
         [] k = 4 -> <<"data", Callback[h]>>]

(* What is left to do when the function already jumps: the way to the      *)
(* original, or the entry.                                                 *)
Link ==
    /\ status = "running" /\ job.phase = "link"
    /\ OrigRef' = [OrigRef EXCEPT ![job.hook] = job.tramp]
    /\ code' = IF Kind[job.hook] # "inline" THEN code
               ELSE LET entry == InlineEntry(job.hook, job.entry, job.tramp)
                    IN [a \in DOMAIN code |->
                          IF a - job.entry \in DOMAIN entry THEN entry[a - job.entry] ELSE code[a]]
    /\ live' = [live EXCEPT ![job.func] = Append(@, job.hook)]
    /\ job' = NoJob
    /\ UNCHANGED <<index, s_EntryIndex, tried, status>>

HookNext ==
    \/ \E h \in Hooks, f \in Functions : Begin(h, f)
    \/ \E h \in Hooks : NotFound(h)
    \/ AllocForTrampoline
    \/ FixInstructions
    \/ PatchWord
    \/ Link

----
(* A thread that calls a function: the processor, the callbacks, and the   *)
(* common part of inline hooks.  lr is 0 in the caller; x17 may hold       *)
(* anything then, which is -1 here.                                        *)

Start(f) == [pc |-> f, x17 |-> -1, lr |-> 0, kept |-> 0, trace |-> <<>>, end |-> "no"]

Returns(s) == [s EXCEPT !.end = IF s.lr = 0 THEN "returned" ELSE "crashed"]
Crashes(s) == [s EXCEPT !.end = "crashed"]

HookAt(a) == {h \in Hooks : Callback[h] = a}

RunCallback(s, h) ==
    LET t == [s EXCEPT !.trace = Append(@, <<"cb", h>>)]
    IN CASE Kind[h] = "replace" -> Returns(t)
         [] Kind[h] = "trampoline" /\ OrigRef[h] # 0 -> [t EXCEPT !.pc = OrigRef[h]]
         [] OTHER -> Crashes(t)

(* exl_inline_hook_impl: the callback is two words behind the way back,    *)
(* the registers are restored.                                             *)
RunImpl(s) ==
    LET word == IF s.lr + 2 \in DOMAIN code THEN code[s.lr + 2] ELSE <<"none">>
    IN IF word[1] = "data" /\ HookAt(word[2]) # {}
       THEN [s EXCEPT !.trace = Append(@, <<"cb", CHOOSE h \in HookAt(word[2]) : TRUE>>),
                      !.pc = s.lr]
       ELSE Crashes(s)

(* The last instruction of a function returns, wherever it was moved.      *)
RunOrig(s, f, k) ==
    LET t == [s EXCEPT !.pc = @ + 1, !.trace = Append(@, <<"orig", k>>)]
    IN IF k = Length[f] - 1 THEN Returns(t) ELSE t

RunWord(s, word) ==
    LET next == [s EXCEPT !.pc = @ + 1]
    IN CASE word[1] = "orig" -> RunOrig(s, word[2], word[3])
         [] word[1] = "nop" -> next
         [] word[1] = "b" -> [s EXCEPT !.pc = word[2]]
         [] word[1] = "bl" -> [s EXCEPT !.pc = word[2], !.lr = s.pc + 1]
         [] word[1] = "ldr17" -> [next EXCEPT !.x17 = IF code[word[2]][1] = "data"
                                                      THEN code[word[2]][2] ELSE -1]
         [] word[1] = "x17" -> [next EXCEPT !.x17 = word[2]]
         [] word[1] = "br17" -> [s EXCEPT !.pc = s.x17]
         [] word[1] = "push" -> [next EXCEPT !.kept = s.lr]
         [] word[1] = "pop" -> [next EXCEPT !.lr = s.kept]
         [] OTHER -> Crashes(s)

Run(s) ==
    CASE s.end # "no" -> s
      [] s.end = "no" /\ s.pc = Impl -> RunImpl(s)
      [] s.end = "no" /\ HookAt(s.pc) # {} -> RunCallback(s, CHOOSE h \in HookAt(s.pc) : TRUE)
      [] s.end = "no" /\ s.pc \in CodeWords -> RunWord(s, code[s.pc])
      [] OTHER -> Crashes(s)

(* Bound: a call that has not returned after so many steps never does.  A  *)
(* hook adds less than twelve.                                             *)
MaxSteps(f) == Length[f] + 12 * (Len(live[f]) + 2)

Call(f) ==
    LET run[n \in 0 .. MaxSteps(f)] == IF n = 0 THEN Start(f) ELSE Run(run[n - 1])
    IN run[MaxSteps(f)]

Completes(f, trace) == Call(f).end = "returned" /\ Call(f).trace = trace

----
(* What a call of f should do when the hooks of a sequence are installed:  *)
(* the newest first, a replacement in place of all that is older.  An      *)
(* inline hook skips the first instruction it moved: its entry's fourth    *)
(* instruction branches by the distance from the third.                    *)

Untouched(f) == [k \in 1 .. Length[f] |-> <<"orig", k - 1>>]

Leaves(hook, older) ==
    CASE Kind[hook] = "replace" -> <<>>
      [] Kind[hook] = "trampoline" -> older
      [] Kind[hook] = "inline" -> Tail(older)

Expected(f, hooks) ==
    LET after[i \in 0 .. Len(hooks)] ==
          IF i = 0 THEN Untouched(f)
          ELSE <<<<"cb", hooks[i]>>>> \o Leaves(hooks[i], after[i - 1])
    IN after[Len(hooks)]

(* The installation under way counts as installed from its last patch on.  *)
WithJob(f) == IF job.func = f /\ job # NoJob THEN Append(live[f], job.hook) ELSE live[f]

IsNear(f, h) == Near(f, IF Kind[h] = "inline" THEN InlinePool ELSE Callback[h])

(* Hooks laid over others that they break: an inline hook skips part of an *)
(* older one's jump, and a far one overwrites the words behind a near      *)
(* one's branch, to which that one's trampoline jumps back.                *)
Breaks(f, hooks) ==
    \E i, j \in DOMAIN hooks :
        /\ i < j
        /\ \/ Kind[hooks[j]] = "inline"
           \/ IsNear(f, hooks[i]) /\ ~IsNear(f, hooks[j]) /\ Kind[hooks[i]] # "replace"

(* The function jumps to a hook that is not ready; or the jump is not yet  *)
(* whole, and not laid over another, alike but for the address.            *)
Exposed(f) ==
    /\ job.func = f
    /\ \/ job.phase = "link" /\ Kind[job.hook] # "replace"
       \/ /\ job.phase = "patch"
          /\ Len(job.left) < Len(Patches(f, Target(job)))
          /\ live[f] # <<>> => IsNear(f, Last(live[f]))

(* A call of a hooked function runs its hooks, newest first, and then what *)
(* they left of the function; whenever it comes, it sees either all of a   *)
(* hook or nothing of it, except between the first word patched and the    *)
(* moment the hook is ready, when it never does.  A near replacement has   *)
(* no such moment.                                                         *)
CallsRunTheirHooks ==
    status = "running" =>
        \A f \in Functions : ~Breaks(f, WithJob(f)) =>
            (Exposed(f) <=> ~(Completes(f, Expected(f, live[f]))
                              \/ Completes(f, Expected(f, WithJob(f)))))

(* The pools: the engine stops the program only when a pool has no entry   *)
(* left, and a write beyond the mapping is only ever that of the one       *)
(* trampoline that is given out beyond the table.                          *)
PoolLimits ==
    /\ status = "faulted" => index = HookMax
    /\ status = "aborted" => index > HookMax \/ s_EntryIndex = InlinePoolCount
    /\ index > HookMax => status = "aborted"

====
