---- MODULE HookEngineProofs ----
(***************************************************************************)
(* Whatever is hooked, in any order, wherever functions and pools lie: the *)
(* pools give out what they have, and one trampoline more; what the engine *)
(* has laid out stays what it is (the second part); and a call of a hooked *)
(* function runs its hooks (the third part).                               *)
(***************************************************************************)
EXTENDS CodeChangesProofs, SequenceTheorems

(* The pools of the hook engine                                            *)

(* What installing a hook reads of its job: where it stands, and in which  *)
(* trampoline.                                                             *)
JobShaped ==
    job = [hook |-> job.hook, func |-> job.func, phase |-> job.phase,
           tramp |-> job.tramp, entry |-> job.entry, left |-> job.left]

(* While the program runs, the last trampoline is at most the one beyond   *)
(* the table, and a job that moves words moves them to the last.           *)
PoolInv ==
    /\ JobShaped
    /\ index \in Int /\ index >= -1
    /\ s_EntryIndex \in 0 .. InlinePoolCount
    /\ status \in {"running", "aborted", "faulted"}
    /\ status = "running" => index <= HookMax
    /\ status = "running" /\ job.phase = "move" =>
          index >= 0 /\ job.tramp = HookPool + TrampolineSize * index
    /\ PoolLimits

LEMMA PoolInvInit == HookInit => PoolInv
BY PoolAssumption DEF HookInit, PoolInv, PoolLimits, JobShaped, NoJob

LEMMA CountOfWords == ASSUME NEW f, NEW t PROVE Count(f, t) \in {1, 4, 5}
BY Zenon DEF Count

(* Every trampoline of the table lies in the mapping.                      *)
LEMMA TrampolineFits ==
    ASSUME NEW i \in Nat, i < HookMax, NEW n \in {1, 4, 5}
    PROVE  HookPool + TrampolineSize * i + n \in PoolWords
<1>1. TrampolineSize * i + TrampolineSize <= HookMax * TrampolineSize
  <2>1. i + 1 <= HookMax /\ HookMax \in Nat /\ TrampolineSize \in Nat
    BY PoolAssumption
  <2>2. (i + 1) * TrampolineSize <= HookMax * TrampolineSize
    BY <2>1
  <2>3. (i + 1) * TrampolineSize = TrampolineSize * i + TrampolineSize
    BY <2>1
  <2> QED
    BY <2>2, <2>3
<1>2. PICK x \in Nat : x = TrampolineSize * i
  BY PoolAssumption
<1>3. PICK y \in Nat : y = HookMax * TrampolineSize
  BY PoolAssumption
<1>4. x + TrampolineSize <= y /\ y <= JitWords
  BY <1>1, <1>2, <1>3, PoolAssumption
<1>5. HookPool + x + n \in PoolWords
  BY <1>4, PoolAssumption DEF PoolWords
<1> QED
  BY <1>2, <1>5

LEMMA BeginKeepsPools ==
    ASSUME PoolInv, NEW h \in Hooks, NEW f \in Functions, Begin(h, f)
    PROVE  PoolInv'
<1>1. status = "running" /\ index' = index
  BY Zenon DEF Begin
<1>2. CASE /\ Kind[h] = "inline" /\ s_EntryIndex >= InlinePoolCount
           /\ status' = "aborted" /\ UNCHANGED <<job, s_EntryIndex>>
  BY <1>1, <1>2, PoolAssumption DEF PoolInv, PoolLimits, JobShaped
<1>3. CASE /\ ~(Kind[h] = "inline" /\ s_EntryIndex >= InlinePoolCount)
           /\ s_EntryIndex' = IF Kind[h] = "inline" THEN s_EntryIndex + 1 ELSE s_EntryIndex
           /\ job' = [NoJob EXCEPT
                        !.hook = h, !.func = f,
                        !.phase = IF Kind[h] = "replace" THEN "patch" ELSE "alloc",
                        !.entry = InlinePool + EntrySize * s_EntryIndex,
                        !.left = IF Kind[h] = "replace" THEN Patches(f, Callback[h]) ELSE <<>>]
           /\ UNCHANGED status
  <2>1. s_EntryIndex' \in 0 .. InlinePoolCount
    BY <1>3, PoolAssumption DEF PoolInv
  <2>2. JobShaped' /\ job'.phase # "move"
    <3>1. PICK e, l : e = InlinePool + EntrySize * s_EntryIndex
                      /\ l = IF Kind[h] = "replace" THEN Patches(f, Callback[h]) ELSE <<>>
      OBVIOUS
    <3>2. job' = [hook |-> h, func |-> f, phase |-> IF Kind[h] = "replace" THEN "patch" ELSE "alloc",
                  tramp |-> 0, entry |-> e, left |-> l]
      BY <1>3, <3>1 DEF NoJob
    <3> QED
      BY <3>2 DEF JobShaped
  <2> QED
    BY <1>1, <1>3, <2>1, <2>2 DEF PoolInv, PoolLimits
<1> QED
  BY <1>2, <1>3, Zenon DEF Begin

LEMMA AllocKeepsPools ==
    ASSUME PoolInv, AllocForTrampoline
    PROVE  PoolInv'
<1>1. /\ status = "running" /\ index' = index + 1 /\ UNCHANGED s_EntryIndex
      /\ index \in Int /\ index >= -1 /\ index <= HookMax
  BY DEF AllocForTrampoline, PoolInv
<1>2. CASE index + 1 > HookMax /\ status' = "aborted" /\ UNCHANGED job
  BY <1>1, <1>2, PoolAssumption DEF PoolInv, PoolLimits, JobShaped
<1>3. CASE /\ ~(index + 1 > HookMax) /\ UNCHANGED status
           /\ job' = [job EXCEPT !.phase = "move",
                                 !.tramp = HookPool + TrampolineSize * (index + 1)]
  <2>1. PICK t : t = HookPool + TrampolineSize * (index + 1)
    OBVIOUS
  <2>2. JobShaped' /\ job'.phase = "move" /\ job'.tramp = t
    BY <1>3, <2>1 DEF PoolInv, JobShaped
  <2> QED
    BY <1>1, <1>3, <2>1, <2>2, PoolAssumption DEF PoolInv, PoolLimits
<1> QED
  BY <1>2, <1>3, Zenon DEF AllocForTrampoline, PoolExceeded

LEMMA FixKeepsPools ==
    ASSUME PoolInv, FixInstructions
    PROVE  PoolInv'
<1>1. /\ status = "running" /\ job.phase = "move" /\ UNCHANGED <<index, s_EntryIndex>>
      /\ index \in Nat /\ index <= HookMax /\ job.tramp = HookPool + TrampolineSize * index
  BY DEF FixInstructions, PoolInv
<1>2. PICK n : n = Count(job.func, Target(job))
  OBVIOUS
<1>3. n \in {1, 4, 5}
  BY <1>2, CountOfWords, Zenon
<1>4. CASE job.tramp + n \notin PoolWords /\ status' = "faulted" /\ UNCHANGED job
  <2>1. index = HookMax
    BY <1>1, <1>3, <1>4, TrampolineFits, PoolAssumption
  <2> QED
    BY <1>1, <1>4, <2>1 DEF PoolInv, PoolLimits, JobShaped
<1>5. CASE /\ job' = [job EXCEPT !.phase = "patch", !.left = Patches(job.func, Target(job))]
           /\ UNCHANGED status
  <2>1. PICK l : l = Patches(job.func, Target(job))
    OBVIOUS
  <2>2. JobShaped' /\ job'.phase = "patch"
    BY <1>5, <2>1 DEF PoolInv, JobShaped
  <2> QED
    BY <1>1, <1>5, <2>2 DEF PoolInv, PoolLimits
<1> QED
  BY <1>2, <1>4, <1>5, Zenon DEF FixInstructions

LEMMA RestKeepsPools ==
    ASSUME PoolInv, status' = status, UNCHANGED <<index, s_EntryIndex>>,
           JobShaped', job'.phase # "move" \/ job' = job
    PROVE  PoolInv'
BY DEF PoolInv, PoolLimits

LEMMA HookNextKeepsPools ==
    ASSUME PoolInv, HookNext
    PROVE  PoolInv'
<1>1. CASE \E h \in Hooks, f \in Functions : Begin(h, f)
  BY <1>1, BeginKeepsPools
<1>2. CASE \E h \in Hooks : NotFound(h)
  BY <1>2, RestKeepsPools DEF NotFound, PoolInv, JobShaped
<1>3. CASE AllocForTrampoline
  BY <1>3, AllocKeepsPools
<1>4. CASE FixInstructions
  BY <1>4, FixKeepsPools
<1>5. CASE PatchWord
  <2>1. PICK l, p : l = Tail(job.left) /\ p = IF Len(job.left) = 1 THEN "link" ELSE "patch"
    OBVIOUS
  <2>2. job' = [job EXCEPT !.left = l, !.phase = p]
    BY <1>5, <2>1, Zenon DEF PatchWord
  <2>3. JobShaped' /\ job'.phase = p
    BY <2>2 DEF PoolInv, JobShaped
  <2>4. p # "move"
    BY <2>1
  <2>5. status' = status /\ UNCHANGED <<index, s_EntryIndex>>
    BY <1>5, Zenon DEF PatchWord
  <2> QED
    BY <2>3, <2>4, <2>5, RestKeepsPools
<1>6. CASE Link
  <2>1. job' = NoJob /\ status' = status /\ UNCHANGED <<index, s_EntryIndex>>
    BY <1>6, Zenon DEF Link
  <2>2. JobShaped' /\ job'.phase # "move"
    BY <2>1 DEF NoJob, JobShaped
  <2> QED
    BY <2>1, <2>2, RestKeepsPools
<1> QED
  BY <1>1, <1>2, <1>3, <1>4, <1>5, <1>6, Zenon DEF HookNext

(* The engine stops the program only when a pool has no entry left, and    *)
(* the one write beyond the mapping is that of the trampoline given out    *)
(* beyond the table (AllocForTrampoline's bound is one too large), for     *)
(* any sizes of the pools, any hooks and any order of them.                *)
THEOREM PoolsKeepTheirLimits == Spec => []PoolLimits
<1>1. Init => PoolInv
  BY PoolInvInit DEF Init
<1>2. PoolInv /\ [Next]_vars => PoolInv'
  <2> SUFFICES ASSUME PoolInv, [Next]_vars PROVE PoolInv'
    OBVIOUS
  <2>1. CASE HookNext
    BY <2>1, HookNextKeepsPools
  <2>2. CASE UNCHANGED hookVars
    <3>1. UNCHANGED <<status, index, s_EntryIndex, job>>
      BY <2>2 DEF hookVars
    <3> QED
      BY <3>1, RestKeepsPools DEF PoolInv, JobShaped
  <2>3. HookNext \/ UNCHANGED hookVars
    BY Zenon DEF Next, vars
  <2> QED
    BY <2>1, <2>2, <2>3
<1>3. PoolInv => PoolLimits
  BY DEF PoolInv
<1> QED
  BY <1>1, <1>2, <1>3, PTL DEF Spec

----
(* The second part: what stands in the hooked functions, the trampolines   *)
(* and the inline entries, whatever is installed, in any order.            *)

(* The words of a jump: a near one is a branch, a far one may begin with a *)
(* word that only aligns the address it loads.                             *)
Lead(f) == IF (f + 2) % 2 # 0 THEN 1 ELSE 0
JumpLength(f, t) == IF Near(f, t) THEN 1 ELSE 3 + Lead(f)

JumpWord(f, t, k) ==
    IF Near(f, t) THEN <<"b", t>>
    ELSE IF k < Lead(f) THEN <<"nop">>
    ELSE IF k = Lead(f) THEN <<"ldr17", f + Lead(f) + 2>>
    ELSE IF k = Lead(f) + 1 THEN <<"br17">>
    ELSE <<"data", t>>

(* What is left to write of it after d words.                              *)
LeftOf(f, t, d) == [n \in 1 .. JumpLength(f, t) - d |-> <<f + d + n - 1, JumpWord(f, t, d + n - 1)>>]

LEMMA JumpLengths ==
    ASSUME NEW f \in Nat, NEW t
    PROVE  /\ Lead(f) \in {0, 1}
           /\ JumpLength(f, t) \in {1, 3 + Lead(f)}
           /\ Count(f, t) = IF Near(f, t) THEN 1 ELSE 4 + Lead(f)
           /\ Near(f, t) => JumpLength(f, t) = 1
           /\ ~Near(f, t) => JumpLength(f, t) = 3 + Lead(f)
BY DEF Lead, JumpLength, Count

LEMMA OneThenThree ==
    ASSUME NEW a, NEW b, NEW c, NEW d
    PROVE  <<a>> \o <<b, c, d>> = <<a, b, c, d>>
<1>1. <<a>> \in Seq({a, b, c, d}) /\ <<b, c, d>> \in Seq({a, b, c, d})
  OBVIOUS
<1>2. Len(<<a>>) = 1 /\ Len(<<b, c, d>>) = 3
  OBVIOUS
<1>3. PICK p : p = <<a>> \o <<b, c, d>>
  OBVIOUS
<1>4. p = [i \in 1 .. 4 |-> IF i <= 1 THEN <<a>>[i] ELSE <<b, c, d>>[i - 1]]
  BY <1>1, <1>2, <1>3
<1>5. p = [i \in 1 .. 4 |-> <<a, b, c, d>>[i]]
  BY <1>4
<1>6. <<a, b, c, d>> = [i \in 1 .. 4 |-> <<a, b, c, d>>[i]]
  OBVIOUS
<1> QED
  BY <1>3, <1>5, <1>6, Zenon

(* A sequence given as a function.                                         *)
LEMMA FunctionIsSeq ==
    ASSUME NEW n \in Nat, NEW s, s = [i \in 1 .. n |-> s[i]]
    PROVE  /\ Len(s) = n
           /\ s \in Seq({s[i] : i \in 1 .. n})
           /\ n > 0 => Head(s) = s[1] /\ Tail(s) = [i \in 1 .. n - 1 |-> s[i + 1]]
<1>1. PICK S : S = {s[i] : i \in 1 .. n}
  OBVIOUS
<1>2. s \in [1 .. n -> S]
  BY <1>1
<1>3. s \in Seq(S)
  BY <1>2
<1>4. Len(s) \in Nat /\ DOMAIN s = 1 .. Len(s)
  BY <1>3
<1>5. DOMAIN s = 1 .. n
  BY <1>2
<1>6. Len(s) = n
  BY <1>4, <1>5
<1> QED
  BY <1>1, <1>3, <1>6

LEMMA PatchesAreJump ==
    ASSUME NEW f \in Nat, NEW t
    PROVE  Patches(f, t) = LeftOf(f, t, 0)
<1>1. CASE Near(f, t)
  <2>1. LeftOf(f, t, 0) = [n \in 1 .. 1 |-> <<f + n - 1, <<"b", t>>>>]
    BY <1>1 DEF LeftOf, JumpLength, JumpWord
  <2> QED
    BY <1>1, <2>1 DEF Patches
<1>2. CASE ~Near(f, t) /\ (f + 2) % 2 = 0
  <2>1. Lead(f) = 0 /\ Count(f, t) # 5
    BY <1>2 DEF Lead, Count
  <2>2. Patches(f, t) = <<<<f, <<"ldr17", f + 2>>>>, <<f + 1, <<"br17">>>>, <<f + 2, <<"data", t>>>>>>
    BY <1>2, <2>1, Zenon DEF Patches
  <2>3. JumpLength(f, t) = 3 /\ JumpWord(f, t, 0) = <<"ldr17", f + 2>>
        /\ JumpWord(f, t, 1) = <<"br17">> /\ JumpWord(f, t, 2) = <<"data", t>>
    BY <1>2, <2>1 DEF JumpLength, JumpWord
  <2> HIDE DEF JumpWord
  <2> QED
    BY <2>2, <2>3 DEF LeftOf
<1>3. CASE ~Near(f, t) /\ (f + 2) % 2 # 0
  <2>1. Lead(f) = 1 /\ Count(f, t) = 5
    BY <1>3 DEF Lead, Count
  <2>2. Patches(f, t) = <<<<f, <<"nop">>>>>> \o <<<<f + 1, <<"ldr17", f + 1 + 2>>>>,
                          <<f + 1 + 1, <<"br17">>>>, <<f + 1 + 2, <<"data", t>>>>>>
    <3>1. f + 1 # f
      OBVIOUS
    <3> QED
      BY <1>3, <2>1, <3>1, Zenon DEF Patches
  <2>3. Patches(f, t) = <<<<f, <<"nop">>>>, <<f + 1, <<"ldr17", f + 1 + 2>>>>,
                          <<f + 1 + 1, <<"br17">>>>, <<f + 1 + 2, <<"data", t>>>>>>
    BY <2>2, OneThenThree, Zenon
  <2>4. JumpLength(f, t) = 4 /\ JumpWord(f, t, 0) = <<"nop">>
        /\ JumpWord(f, t, 1) = <<"ldr17", f + 1 + 2>>
        /\ JumpWord(f, t, 2) = <<"br17">> /\ JumpWord(f, t, 3) = <<"data", t>>
    BY <1>3, <2>1 DEF JumpLength, JumpWord
  <2> HIDE DEF JumpWord
  <2> QED
    BY <2>3, <2>4 DEF LeftOf
<1> QED
  BY <1>1, <1>2, <1>3

(* One word is written after the other.                                    *)
LEMMA NextOfJump ==
    ASSUME NEW f \in Nat, NEW t, NEW d \in Nat, d < JumpLength(f, t),
           NEW left, left = LeftOf(f, t, d)
    PROVE  /\ Len(left) = JumpLength(f, t) - d
           /\ Head(left) = <<f + d, JumpWord(f, t, d)>>
           /\ Tail(left) = LeftOf(f, t, d + 1)
<1>1. PICK n \in Nat : n = JumpLength(f, t) - d /\ n >= 1
  BY JumpLengths
<1>2. left = [i \in 1 .. n |-> <<f + d + i - 1, JumpWord(f, t, d + i - 1)>>]
  BY <1>1 DEF LeftOf
<1>3. left = [i \in 1 .. n |-> left[i]]
  BY <1>2
<1>4. Len(left) = n /\ Head(left) = left[1] /\ Tail(left) = [i \in 1 .. n - 1 |-> left[i + 1]]
  BY <1>1, <1>3, FunctionIsSeq
<1>5. left[1] = <<f + d, JumpWord(f, t, d)>>
  <2>1. left[1] = <<f + d + 1 - 1, JumpWord(f, t, d + 1 - 1)>>
    BY <1>1, <1>2
  <2>2. f + d + 1 - 1 = f + d /\ d + 1 - 1 = d
    OBVIOUS
  <2> QED
    BY <2>1, <2>2
<1>6. \A i \in 1 .. n - 1 : left[i + 1] = <<f + (d + 1) + i - 1, JumpWord(f, t, (d + 1) + i - 1)>>
  <2> SUFFICES ASSUME NEW i \in 1 .. n - 1
               PROVE left[i + 1] = <<f + (d + 1) + i - 1, JumpWord(f, t, (d + 1) + i - 1)>>
    OBVIOUS
  <2>1. i + 1 \in 1 .. n /\ f + d + (i + 1) - 1 = f + (d + 1) + i - 1 /\ d + (i + 1) - 1 = (d + 1) + i - 1
    BY <1>1
  <2>2. left[i + 1] = <<f + d + (i + 1) - 1, JumpWord(f, t, d + (i + 1) - 1)>>
    BY <1>2, <2>1, Zenon
  <2> QED
    BY <2>1, <2>2, Zenon
<1>7. JumpLength(f, t) - (d + 1) = n - 1
  BY <1>1, JumpLengths
<1> QED
  BY <1>1, <1>4, <1>5, <1>6, <1>7 DEF LeftOf

(* What stands where, given to which address each hook makes its function  *)
(* jump (target, -1 for an inline hook that has no entry yet), what the    *)
(* first words of each function were after each of its hooks (layer, 0 for *)
(* none), and how many words of its jump the hook under way has written.   *)

HasTrampoline == job.phase \in {"patch", "link"} /\ Kind[job.hook] # "replace"
GivenOne == job.phase = "move" \/ HasTrampoline

JobInv(target, written) ==
    /\ JobShaped
    /\ job.phase \in {"none", "alloc", "move", "patch", "link"}
    /\ job.phase = "none" => job = NoJob
    /\ job.phase # "none" =>
          /\ job.hook \in Hooks /\ job.hook \in tried /\ job.func \in Functions
          /\ Target(job) = target[job.hook]
          /\ Kind[job.hook] = "replace" => job.phase \in {"patch", "link"}
    /\ job.phase = "patch" =>
          /\ written \in 0 .. JumpLength(job.func, target[job.hook]) - 1
          /\ job.left = LeftOf(job.func, target[job.hook], written)
    /\ job.phase = "link" => written = JumpLength(job.func, target[job.hook])
    /\ job.phase \notin {"patch", "link"} => written = 0

(* Each hook is installed once, and the one under way is not yet.          *)
LiveInv ==
    /\ live \in [Functions -> Seq(Hooks)]
    /\ tried \subseteq Hooks
    /\ \A f, g \in Functions : \A i \in 1 .. Len(live[f]), j \in 1 .. Len(live[g]) :
          live[f][i] = live[g][j] => f = g /\ i = j
    /\ \A f \in Functions : \A i \in 1 .. Len(live[f]) :
          live[f][i] \in tried /\ live[f][i] # job.hook

(* A hook overwrites words of its function, and the others stay.           *)
LayerInv(target, layer) ==
    \A f \in Functions :
        /\ \A k \in 0 .. 4 : layer[f][0][k] = <<"orig", f, k>>
        /\ \A i \in 1 .. Len(live[f]) : \A k \in 0 .. 4 :
              layer[f][i][k] = IF k < JumpLength(f, target[live[f][i]])
                               THEN JumpWord(f, target[live[f][i]], k) ELSE layer[f][i - 1][k]

FunctionInv(target, layer, written) ==
    \A f \in Functions :
        /\ \A k \in 0 .. 4 :
              code[f + k] = IF f = job.func /\ k < written THEN JumpWord(f, target[job.hook], k)
                            ELSE layer[f][Len(live[f])][k]
        /\ \A k \in 5 .. Length[f] - 1 : code[f + k] = <<"orig", f, k>>

(* A trampoline at a for words of f that a jump to t overwrites.           *)
Kept(f, words, k) ==
    IF words[k][1] = "ldr17" THEN <<"x17", words[Lead(f) + 2][2]>> ELSE words[k]

Trampoline(f, t, words, a) ==
    /\ \A k \in 0 .. Count(f, t) : a + k \in PoolWords
    /\ \A k \in 0 .. Count(f, t) - 1 : code[a + k] = Kept(f, words, k)
    /\ code[a + Count(f, t)] = <<"b", f + Count(f, t)>>

TrampolineInv(target, layer) ==
    /\ \A f \in Functions : \A i \in 1 .. Len(live[f]) :
          Kind[live[f][i]] # "replace" =>
              /\ OrigRef[live[f][i]] # 0
              /\ Trampoline(f, target[live[f][i]], layer[f][i - 1], OrigRef[live[f][i]])
    /\ HasTrampoline => Trampoline(job.func, target[job.hook],
                                   layer[job.func][Len(live[job.func])], job.tramp)

(* No trampoline is given out twice.                                       *)
SlotInv ==
    /\ OrigRef \in [Hooks -> Nat]
    /\ \A h \in Hooks : OrigRef[h] # 0 =>
          /\ h \in tried /\ h # job.hook
          /\ \E s \in 0 .. index : /\ OrigRef[h] = HookPool + TrampolineSize * s
                                   /\ GivenOne => s < index
    /\ \A g, h \in Hooks : OrigRef[g] # 0 /\ OrigRef[g] = OrigRef[h] => g = h
    /\ GivenOne => index >= 0 /\ job.tramp = HookPool + TrampolineSize * index
    /\ ~GivenOne => job.tramp = 0

(* No inline entry is given out twice.                                     *)
Entry(h, e) ==
    /\ code[e] = <<"push">>
    /\ code[e + 1] = <<"bl", Impl>>
    /\ code[e + 2] = <<"pop">>
    /\ code[e + 3] = <<"b", OrigRef[h] + 1>>
    /\ code[e + 4] = <<"data", Callback[h]>>

EntryInv(target) ==
    /\ target \in [Hooks -> Int]
    /\ \A h \in Hooks : Kind[h] # "inline" => target[h] = Callback[h]
    /\ \A h \in Hooks : Kind[h] = "inline" /\ target[h] # -1 =>
          /\ h \in tried
          /\ \E e \in 0 .. s_EntryIndex - 1 : target[h] = InlinePool + EntrySize * e
    /\ \A g, h \in Hooks : /\ Kind[g] = "inline" /\ Kind[h] = "inline"
                           /\ target[g] # -1 /\ target[g] = target[h]
                           => g = h
    /\ \A f \in Functions : \A i \in 1 .. Len(live[f]) :
          Kind[live[f][i]] = "inline" =>
              target[live[f][i]] # -1 /\ Entry(live[f][i], target[live[f][i]])
    /\ \A e \in s_EntryIndex .. InlinePoolCount - 1 :
          code[InlinePool + EntrySize * e] = <<"none">>
    /\ job.phase # "none" /\ Kind[job.hook] = "inline" =>
          target[job.hook] # -1 /\ code[target[job.hook]] = <<"none">>

HookInv(target, layer, written) ==
    /\ code = [a \in CodeWords |-> code[a]]
    /\ LiveInv
    /\ JobInv(target, written)
    /\ LayerInv(target, layer)
    /\ FunctionInv(target, layer, written)
    /\ TrampolineInv(target, layer)
    /\ SlotInv
    /\ EntryInv(target)

CodeInv == PoolInv /\ (status = "running" => \E target, layer, written : HookInv(target, layer, written))

(* Each thing has a place of its own.                                      *)
LEMMA FunctionPlaces ==
    ASSUME NEW f \in Functions, NEW k \in 0 .. Length[f] - 1
    PROVE  /\ f \in Nat /\ f + k \in Nat
           /\ f + k \in WordsOf(f) /\ f + k \in CodeWords
           /\ f + k \notin PoolWords /\ f + k \notin EntryWords
<1>1. f \in Nat /\ Length[f] \in Nat
  BY PlacesAssumption, LengthAssumption
<1>2. f + k \in WordsOf(f)
  BY <1>1 DEF WordsOf
<1>3. f + k \in CodeWords
  BY <1>2, Zenon DEF CodeWords
<1>4. WordsOf(f) \cap (PoolWords \cup EntryWords) = {}
  BY PlacesAssumption, Zenon
<1> QED
  BY <1>1, <1>2, <1>3, <1>4

LEMMA FirstPlaces ==
    ASSUME NEW f \in Functions, NEW k \in 0 .. 4
    PROVE  /\ f \in Nat /\ f + k \in Nat /\ k \in 0 .. Length[f] - 1
           /\ f + k \in WordsOf(f) /\ f + k \in CodeWords
           /\ f + k \notin PoolWords /\ f + k \notin EntryWords
<1>1. k \in 0 .. Length[f] - 1
  BY LengthAssumption
<1> QED
  BY <1>1, FunctionPlaces

LEMMA FunctionsApart ==
    ASSUME NEW f \in Functions, NEW g \in Functions, f # g,
           NEW k \in 0 .. Length[f] - 1, NEW l \in 0 .. Length[g] - 1
    PROVE  f + k # g + l
<1>1. f + k \in WordsOf(f) /\ g + l \in WordsOf(g)
  BY FunctionPlaces
<1>2. WordsOf(f) \cap WordsOf(g) = {}
  BY PlacesAssumption, Zenon
<1> QED
  BY <1>1, <1>2

LEMMA EntryPlaces ==
    ASSUME NEW e \in 0 .. InlinePoolCount - 1, NEW k \in 0 .. 5
    PROVE  /\ InlinePool + EntrySize * e + k \in EntryWords
           /\ InlinePool + EntrySize * e + k \in CodeWords
           /\ InlinePool + EntrySize * e + k \notin PoolWords
<1>1. InlinePool + EntrySize * e + k \in EntryWords
  BY PoolAssumption DEF EntryWords, EntrySize
<1>2. PoolWords \cap EntryWords = {}
  BY PlacesAssumption, Zenon
<1> QED
  BY <1>1, <1>2, Zenon DEF CodeWords

LEMMA EntriesApart ==
    ASSUME NEW d \in Nat, NEW e \in Nat, d # e, NEW k \in 0 .. 5, NEW l \in 0 .. 5
    PROVE  InlinePool + EntrySize * d + k # InlinePool + EntrySize * e + l
BY PoolAssumption DEF EntrySize

LEMMA TrampolinesApart ==
    ASSUME NEW s \in Nat, NEW t \in Nat, s < t, NEW k \in 0 .. 5
    PROVE  HookPool + TrampolineSize * s + k < HookPool + TrampolineSize * t
<1> DEFINE c == TrampolineSize
<1>1. c \in Nat /\ c > 5 /\ HookPool \in Nat
  BY PoolAssumption
<1> HIDE DEF c
<1>2. PICK n \in Nat : t = s + 1 + n
  <2>1. t - s - 1 \in Nat /\ t = s + 1 + (t - s - 1)
    OBVIOUS
  <2> QED
    BY <2>1
<1>3. c * t = c * s + c + c * n /\ c * n \in Nat /\ c * s \in Nat
  BY <1>1, <1>2
<1>4. HookPool + c * s + k < HookPool + c * t
  <2> DEFINE a == c * s
             b == c * t
             m == c * n
  <2>1. b = a + c + m /\ m \in Nat /\ a \in Nat
    BY <1>3
  <2> HIDE DEF a, b, m
  <2>2. HookPool + a + k < HookPool + b
    BY <1>1, <2>1
  <2> QED
    BY <2>2 DEF a, b
<1> QED
  BY <1>4 DEF c

LEMMA InitCode ==
    ASSUME HookInit
    PROVE  /\ \A f \in Functions : \A k \in 0 .. Length[f] - 1 : code[f + k] = <<"orig", f, k>>
           /\ \A e \in 0 .. InlinePoolCount - 1 : code[InlinePool + EntrySize * e] = <<"none">>
           /\ code = [a \in CodeWords |-> code[a]]
<1>1. ASSUME NEW f \in Functions, NEW k \in 0 .. Length[f] - 1
      PROVE  code[f + k] = <<"orig", f, k>>
  <2>1. PICK a : a = f + k /\ a \in WordsOf(f) /\ a \in CodeWords /\ f \in Nat
    BY FunctionPlaces
  <2> DEFINE who(b) == CHOOSE x \in Functions : b \in WordsOf(x)
             word(b) == IF \E x \in Functions : b \in WordsOf(x)
                        THEN <<"orig", who(b), b - who(b)>> ELSE <<"none">>
  <2>2. who(a) \in Functions /\ a \in WordsOf(who(a))
    BY <2>1, Zenon
  <2>3. code = [b \in CodeWords |-> word(b)]
    BY Zenon DEF HookInit
  <2>4. word(a) = <<"orig", who(a), a - who(a)>>
    BY <2>1, Zenon
  <2> HIDE DEF who, word
  <2>5. code[a] = word(a)
    BY <2>1, <2>3, Zenon
  <2>6. who(a) = f
    <3>1. who(a) # f => WordsOf(who(a)) \cap WordsOf(f) = {}
      BY <2>2, PlacesAssumption, Zenon
    <3> QED
      BY <2>1, <2>2, <3>1, Zenon
  <2>7. a - who(a) = k
    BY <2>1, <2>6
  <2> QED
    BY <2>1, <2>4, <2>5, <2>6, <2>7
<1>2. ASSUME NEW e \in 0 .. InlinePoolCount - 1
      PROVE  code[InlinePool + EntrySize * e] = <<"none">>
  <2> DEFINE a == InlinePool + EntrySize * e
  <2>1. a \in EntryWords /\ a \in CodeWords
    <3>1. a + 0 = a /\ 0 \in 0 .. 5
      BY PoolAssumption DEF EntrySize
    <3>2. a + 0 \in EntryWords /\ a + 0 \in CodeWords
      BY <3>1, EntryPlaces, Zenon
    <3> HIDE DEF a
    <3> QED
      BY <3>1, <3>2
  <2>2. ~ \E f \in Functions : a \in WordsOf(f)
    <3>1. \A f \in Functions : WordsOf(f) \cap (PoolWords \cup EntryWords) = {}
      BY PlacesAssumption, Zenon
    <3> HIDE DEF a
    <3> QED
      BY <2>1, <3>1, Zenon
  <2> QED
    BY <2>1, <2>2, Zenon DEF HookInit
<1>3. code = [a \in CodeWords |-> code[a]]
  BY DEF HookInit
<1> QED
  BY <1>1, <1>2, <1>3

LEMMA CodeInvInit == ASSUME HookInit PROVE \E target, layer, written : HookInv(target, layer, written)
<1>1. PICK target : target = [h \in Hooks |-> IF Kind[h] = "inline" THEN -1 ELSE Callback[h]]
  OBVIOUS
<1>2. PICK layer : layer = [f \in Functions |-> [i \in 0 .. 0 |-> [k \in 0 .. 4 |-> <<"orig", f, k>>]]]
  OBVIOUS
<1>3. live = [f \in Functions |-> <<>>] /\ job = NoJob /\ OrigRef = [h \in Hooks |-> 0]
      /\ tried = {} /\ s_EntryIndex = 0
  BY DEF HookInit
<1>4. \A f \in Functions : live[f] = <<>> /\ Len(live[f]) = 0
  BY <1>3
<1>5. job.phase = "none" /\ job.tramp = 0 /\ job.func = 0
  BY <1>3 DEF NoJob
<1>6. LiveInv
  BY <1>3, <1>4 DEF LiveInv
<1>7. JobInv(target, 0)
  BY <1>3, <1>5 DEF JobInv, NoJob, JobShaped
<1>8. LayerInv(target, layer)
  BY <1>2, <1>4 DEF LayerInv
<1>9. FunctionInv(target, layer, 0)
  <2> SUFFICES ASSUME NEW f \in Functions
               PROVE  /\ \A k \in 0 .. 4 : code[f + k] = layer[f][0][k]
                      /\ \A k \in 5 .. Length[f] - 1 : code[f + k] = <<"orig", f, k>>
    <3>1. \A k \in 0 .. 4 : ~(k < 0)
      OBVIOUS
    <3> QED
      BY <1>4, <3>1, Zenon DEF FunctionInv
  <2>1. \A k \in 0 .. 4 : k \in 0 .. Length[f] - 1
    BY LengthAssumption
  <2>2. \A k \in 5 .. Length[f] - 1 : k \in 0 .. Length[f] - 1
    BY LengthAssumption
  <2> QED
    BY <1>2, <2>1, <2>2, InitCode, SMTT(60)
<1>10. TrampolineInv(target, layer)
  BY <1>4, <1>5 DEF TrampolineInv, HasTrampoline
<1>11. SlotInv
  BY <1>3, <1>5 DEF SlotInv, GivenOne, HasTrampoline
<1>12. EntryInv(target)
  <2>1. target \in [Hooks -> Int]
    BY <1>1, HooksAssumption
  <2>2. \A h \in Hooks : Kind[h] # "inline" => target[h] = Callback[h]
    BY <1>1
  <2>3. \A h \in Hooks : Kind[h] = "inline" => target[h] = -1
    BY <1>1
  <2>4. \A e \in s_EntryIndex .. InlinePoolCount - 1 : code[InlinePool + EntrySize * e] = <<"none">>
    BY <1>3, InitCode
  <2> QED
    BY <1>4, <1>5, <2>1, <2>2, <2>3, <2>4 DEF EntryInv
<1> QED
  BY <1>6, <1>7, <1>8, <1>9, <1>10, <1>11, <1>12, InitCode, Zenon DEF HookInv

(* What a step leaves alone.                                               *)
LEMMA SameTrampoline ==
    ASSUME NEW f, NEW t, NEW words, NEW a, Trampoline(f, t, words, a),
           \A k \in 0 .. Count(f, t) : code'[a + k] = code[a + k]
    PROVE  Trampoline(f, t, words, a)'
<1>1. Count(f, t) \in Nat
  BY CountOfWords
<1>2. \A k \in 0 .. Count(f, t) - 1 : k \in 0 .. Count(f, t)
  BY <1>1
<1>3. Count(f, t) \in 0 .. Count(f, t)
  BY <1>1
<1> QED
  BY <1>2, <1>3, Zenon DEF Trampoline

LEMMA SameEntry ==
    ASSUME NEW h, NEW e \in Int, Entry(h, e), OrigRef'[h] = OrigRef[h],
           \A k \in 0 .. 4 : code'[e + k] = code[e + k]
    PROVE  Entry(h, e)'
<1>1. code'[e + 0] = code[e + 0] /\ code'[e + 1] = code[e + 1] /\ code'[e + 2] = code[e + 2]
      /\ code'[e + 3] = code[e + 3] /\ code'[e + 4] = code[e + 4]
  OBVIOUS
<1>2. e + 0 = e
  OBVIOUS
<1> QED
  BY <1>1, <1>2 DEF Entry

(* Where the entry of an inline hook is.                                   *)
LEMMA EntryWhere ==
    ASSUME NEW target, EntryInv(target), PoolInv, NEW h \in Hooks, Kind[h] = "inline", target[h] # -1
    PROVE  /\ target[h] \in Nat
           /\ \E e \in 0 .. s_EntryIndex - 1 : /\ e \in 0 .. InlinePoolCount - 1
                                               /\ target[h] = InlinePool + EntrySize * e
           /\ \A k \in 0 .. 5 : /\ target[h] + k \in EntryWords /\ target[h] + k \in CodeWords
                                /\ target[h] + k \notin PoolWords
<1>1. PICK e \in 0 .. s_EntryIndex - 1 : target[h] = InlinePool + EntrySize * e
  BY Zenon DEF EntryInv
<1>2. e \in 0 .. InlinePoolCount - 1 /\ target[h] \in Nat
  BY <1>1, PoolAssumption DEF PoolInv, EntrySize
<1>3. \A k \in 0 .. 5 : /\ target[h] + k \in EntryWords /\ target[h] + k \in CodeWords
                        /\ target[h] + k \notin PoolWords
  BY <1>1, <1>2, EntryPlaces, Zenon
<1> QED
  BY <1>1, <1>2, <1>3

LEMMA BeginKeeps ==
    ASSUME NEW target, NEW layer, NEW written, HookInv(target, layer, written), PoolInv,
           NEW h \in Hooks, NEW f \in Functions, Begin(h, f), status' = "running"
    PROVE  \E t : HookInv(t, layer, 0)'
<1>1. /\ job = NoJob /\ h \notin tried /\ tried' = tried \cup {h}
      /\ code' = code /\ index' = index /\ OrigRef' = OrigRef /\ live' = live
      /\ ~(Kind[h] = "inline" /\ s_EntryIndex >= InlinePoolCount)
      /\ s_EntryIndex' = IF Kind[h] = "inline" THEN s_EntryIndex + 1 ELSE s_EntryIndex
  BY Zenon DEF Begin
<1>2. /\ job' = [hook |-> h, func |-> f,
                 phase |-> IF Kind[h] = "replace" THEN "patch" ELSE "alloc", tramp |-> 0,
                 entry |-> InlinePool + EntrySize * s_EntryIndex,
                 left |-> IF Kind[h] = "replace" THEN Patches(f, Callback[h]) ELSE <<>>]
  BY DEF Begin, NoJob
<1>3. PICK place : place = InlinePool + EntrySize * s_EntryIndex /\ place \in Int /\ place # -1
  BY PoolAssumption DEF EntrySize, PoolInv
<1>4. PICK t : t = IF Kind[h] = "inline" THEN [target EXCEPT ![h] = place] ELSE target
  OBVIOUS
<1>5. HookInv(target, layer, written)
  OBVIOUS
<1>6. target \in [Hooks -> Int] /\ \A g \in Hooks : Kind[g] # "inline" => target[g] = Callback[g]
  BY <1>5, Zenon DEF HookInv, EntryInv
<1>7. /\ t \in [Hooks -> Int]
      /\ \A g \in Hooks : g # h => t[g] = target[g]
      /\ t[h] = IF Kind[h] = "inline" THEN place ELSE Callback[h]
  BY <1>3, <1>4, <1>6
<1>8. /\ job'.hook = h /\ job'.func = f /\ job'.tramp = 0
      /\ Kind[h] = "replace" => job'.phase = "patch" /\ job'.left = Patches(f, Callback[h])
      /\ Kind[h] # "replace" => job'.phase = "alloc"
      /\ Target(job') = t[h]
  BY <1>2, <1>3, <1>7, Zenon DEF Target
<1>9. LiveInv /\ written = 0 /\ job.phase = "none" /\ job.hook = 0 /\ job.func = 0
  BY <1>1, <1>5 DEF HookInv, JobInv, NoJob
<1>10. \A g \in Functions : \A i \in 1 .. Len(live[g]) :
          live[g][i] \in tried /\ live[g][i] # h /\ live[g][i] \in Hooks
                     /\ t[live[g][i]] = target[live[g][i]]
  <2> SUFFICES ASSUME NEW g \in Functions, NEW i \in 1 .. Len(live[g])
               PROVE  live[g][i] \in tried /\ live[g][i] # h /\ live[g][i] \in Hooks
                           /\ t[live[g][i]] = target[live[g][i]]
    BY Zenon
  <2>1. live[g][i] \in tried /\ tried \subseteq Hooks
    BY <1>9, Zenon DEF LiveInv
  <2> QED
    BY <1>1, <1>7, <2>1, Zenon
<1>11. ~GivenOne' /\ ~HasTrampoline'
  BY <1>8, Zenon DEF GivenOne, HasTrampoline
<1>12. code' = [a \in CodeWords |-> code'[a]]
  BY <1>1, <1>5, Zenon DEF HookInv
<1>13. LiveInv'
  <2>1. tried' \subseteq Hooks /\ \A g \in tried : g \in tried'
    BY <1>1, <1>9 DEF LiveInv
  <2>2. /\ live \in [Functions -> Seq(Hooks)]
        /\ \A x, g \in Functions : \A i \in 1 .. Len(live[x]), j \in 1 .. Len(live[g]) :
              live[x][i] = live[g][j] => x = g /\ i = j
    BY <1>9, Zenon DEF LiveInv
  <2>3. \A g \in Functions : \A i \in 1 .. Len(live[g]) :
           live[g][i] \in tried' /\ live[g][i] # h
    BY <1>10, <2>1, Zenon
  <2>4. live' = live /\ job'.hook = h
    BY <1>1, <1>8, Zenon
  <2> QED
    BY <2>1, <2>2, <2>3, <2>4 DEF LiveInv
<1>14. JobInv(t, 0)'
  <2>1. JobShaped'
    <3> DEFINE p == IF Kind[h] = "replace" THEN "patch" ELSE "alloc"
               e == InlinePool + EntrySize * s_EntryIndex
               l == IF Kind[h] = "replace" THEN Patches(f, Callback[h]) ELSE <<>>
    <3>1. job' = [hook |-> h, func |-> f, phase |-> p, tramp |-> 0, entry |-> e, left |-> l]
      BY <1>2, Zenon
    <3> HIDE DEF p, e, l
    <3> QED
      BY <3>1 DEF JobShaped
  <2>2. job'.phase \in {"patch", "alloc"}
    BY <1>8, Zenon
  <2>3. ASSUME job'.phase = "patch"
        PROVE  0 \in 0 .. JumpLength(f, t[h]) - 1 /\ job'.left = LeftOf(f, t[h], 0)
    <3>1. Kind[h] = "replace" /\ t[h] = Callback[h]
      BY <1>7, <1>8, <2>3
    <3>2. f \in Nat
      BY PlacesAssumption
    <3>3. JumpLength(f, t[h]) \in Nat \ {0}
      BY <3>2, JumpLengths
    <3> QED
      BY <1>8, <3>1, <3>2, <3>3, PatchesAreJump
  <2> QED
    BY <1>1, <1>8, <2>1, <2>2, <2>3 DEF JobInv
<1>15. LayerInv(t, layer)'
  <2>1. LayerInv(target, layer)
    BY <1>5, Zenon DEF HookInv
  <2>2. live' = live
    BY <1>1, Zenon
  <2>3. \A g \in Functions : \A i \in 1 .. Len(live[g]) : t[live[g][i]] = target[live[g][i]]
    BY <1>10, Zenon
  <2>4. \A g \in Functions :
          /\ \A k \in 0 .. 4 : layer[g][0][k] = <<"orig", g, k>>
          /\ \A i \in 1 .. Len(live[g]) : \A k \in 0 .. 4 :
                layer[g][i][k] = IF k < JumpLength(g, t[live[g][i]])
                                 THEN JumpWord(g, t[live[g][i]], k) ELSE layer[g][i - 1][k]
    BY <2>1, <2>3, ZenonT(60) DEF LayerInv
  <2> QED
    BY <2>2, <2>4, Zenon DEF LayerInv
<1>16. FunctionInv(t, layer, 0)'
  <2>1. FunctionInv(target, layer, 0)
    BY <1>5, <1>9, Zenon DEF HookInv
  <2>2. \A k \in 0 .. 4 : ~(k < 0)
    OBVIOUS
  <2> QED
    BY <1>1, <2>1, <2>2, Zenon DEF FunctionInv
<1>17. TrampolineInv(t, layer)'
  <2>1. TrampolineInv(target, layer)
    BY <1>5 DEF HookInv
  <2> SUFFICES ASSUME NEW g \in Functions, NEW i \in 1 .. Len(live[g]), Kind[live[g][i]] # "replace"
               PROVE  OrigRef[live[g][i]] # 0 /\
                      Trampoline(g, t[live[g][i]], layer[g][i - 1], OrigRef[live[g][i]])'
    BY <1>1, <1>11, Zenon DEF TrampolineInv
  <2>2. OrigRef[live[g][i]] # 0 /\ Trampoline(g, target[live[g][i]], layer[g][i - 1], OrigRef[live[g][i]])
    BY <2>1, Zenon DEF TrampolineInv
  <2> QED
    BY <1>1, <1>10, <2>2, SameTrampoline, Zenon
<1>18. SlotInv'
  <2>1. SlotInv
    BY <1>5 DEF HookInv
  <2> QED
    BY <1>1, <1>8, <1>11, <2>1, Zenon DEF SlotInv
<1>19. EntryInv(t)'
  <2>1. EntryInv(target)
    BY <1>5 DEF HookInv
  <2>2. \A g \in Hooks : Kind[g] = "inline" /\ target[g] # -1 =>
            g \in tried /\ \E e \in 0 .. s_EntryIndex - 1 : target[g] = InlinePool + EntrySize * e
    BY <2>1, Zenon DEF EntryInv
  <2>3. \A g1, g2 \in Hooks : /\ Kind[g1] = "inline" /\ Kind[g2] = "inline"
                               /\ target[g1] # -1 /\ target[g1] = target[g2] => g1 = g2
    BY <2>1, Zenon DEF EntryInv
  <2>4. ASSUME NEW g \in Hooks, Kind[g] = "inline", t[g] # -1
        PROVE  g \in tried' /\ \E e \in 0 .. s_EntryIndex' - 1 : t[g] = InlinePool + EntrySize * e
    <3>1. CASE g = h
      <4>1. s_EntryIndex \in 0 .. s_EntryIndex' - 1
        BY <1>1, <2>4, <3>1 DEF PoolInv
      <4> QED
        BY <1>1, <1>3, <1>7, <2>4, <3>1, <4>1, Zenon
    <3>2. CASE g # h
      <4>0. t[g] = target[g]
        BY <1>7, <2>4, <3>2
      <4>1. PICK e \in 0 .. s_EntryIndex - 1 : target[g] = InlinePool + EntrySize * e
        BY <2>4, <2>2, <4>0
      <4>2. e \in 0 .. s_EntryIndex' - 1
        BY <1>1, <4>1 DEF PoolInv
      <4>3. g \in tried'
        BY <1>1, <2>4, <2>2, <4>0
      <4>4. t[g] = InlinePool + EntrySize * e
        BY <4>0, <4>1
      <4>5. \E d \in 0 .. s_EntryIndex' - 1 : t[g] = InlinePool + EntrySize * d
        BY <4>2, <4>4
      <4> QED
        BY <4>3, <4>5
    <3> QED
      BY <3>1, <3>2
  <2>5. ASSUME NEW g \in Hooks, g # h, Kind[g] = "inline", Kind[h] = "inline", t[g] # -1
        PROVE  t[g] # t[h]
    <3>0. t[g] = target[g]
      BY <1>7, <2>5
    <3>1. PICK e \in 0 .. s_EntryIndex - 1 : t[g] = InlinePool + EntrySize * e
      BY <2>5, <2>2, <3>0
    <3>2. e \in Nat /\ s_EntryIndex \in Nat /\ e # s_EntryIndex
      BY <3>1 DEF PoolInv
    <3> QED
      BY <1>3, <1>7, <2>5, <3>1, <3>2, PoolAssumption DEF EntrySize
  <2>6. ASSUME NEW g1 \in Hooks, NEW g2 \in Hooks, Kind[g1] = "inline", Kind[g2] = "inline",
               t[g1] # -1, t[g1] = t[g2]
        PROVE  g1 = g2
    <3>1. CASE g1 # h /\ g2 # h
      <4>1. t[g1] = target[g1] /\ t[g2] = target[g2]
        BY <1>7, <3>1
      <4> QED
        BY <2>6, <2>3, <4>1
    <3>2. CASE g1 = h /\ g2 # h
      BY <2>5, <2>6, <3>2
    <3>3. CASE g1 # h /\ g2 = h
      BY <2>5, <2>6, <3>3
    <3> QED
      BY <3>1, <3>2, <3>3
  <2>7. ASSUME NEW g \in Functions, NEW i \in 1 .. Len(live[g]), Kind[live[g][i]] = "inline"
        PROVE  t[live[g][i]] # -1 /\ Entry(live[g][i], t[live[g][i]])'
    <3>1. target[live[g][i]] # -1 /\ Entry(live[g][i], target[live[g][i]])
      BY <2>1, <2>7, Zenon DEF EntryInv
    <3>2. target[live[g][i]] \in Int
      BY <1>6, <1>10
    <3> QED
      BY <1>1, <1>10, <3>1, <3>2, SameEntry, Zenon
  <2>8. ASSUME NEW e \in s_EntryIndex' .. InlinePoolCount - 1
        PROVE  code'[InlinePool + EntrySize * e] = <<"none">>
    <3>1. e \in s_EntryIndex .. InlinePoolCount - 1
      BY <1>1 DEF PoolInv
    <3> QED
      BY <1>1, <2>1, <3>1, Zenon DEF EntryInv
  <2>9. ASSUME Kind[h] = "inline"
        PROVE  t[h] # -1 /\ code'[t[h]] = <<"none">>
    <3>1. s_EntryIndex \in s_EntryIndex .. InlinePoolCount - 1
      BY <1>1, <2>9, PoolAssumption DEF PoolInv
    <3> QED
      BY <1>1, <1>3, <1>7, <2>1, <2>9, <3>1, Zenon DEF EntryInv
  <2>10. \A g \in Hooks : Kind[g] # "inline" => t[g] = Callback[g]
    BY <1>6, <1>7
  <2> QED
    BY <1>1, <1>7, <1>8, <2>4, <2>6, <2>7, <2>8, <2>9, <2>10, Zenon DEF EntryInv
<1> QED
  BY <1>12, <1>13, <1>14, <1>15, <1>16, <1>17, <1>18, <1>19, Zenon DEF HookInv

(* Steps that write no code.                                               *)
LEMMA QuietKeeps ==
    ASSUME NEW target, NEW layer, NEW written, HookInv(target, layer, written), PoolInv,
           UNCHANGED <<code, live, OrigRef, s_EntryIndex>>,
           tried \subseteq tried', tried' \subseteq Hooks,
           job'.hook = job.hook, job'.func = job.func,
           job'.phase = "none" <=> job.phase = "none",
           ~HasTrampoline', JobInv(target, written)', SlotInv'
    PROVE  HookInv(target, layer, written)'
<1>1. /\ code' = code /\ live' = live /\ OrigRef' = OrigRef /\ s_EntryIndex' = s_EntryIndex
      /\ job'.hook = job.hook /\ job'.func = job.func
      /\ \A h \in tried : h \in tried'
  OBVIOUS
<1>2. HookInv(target, layer, written)
  OBVIOUS
<1>3. LiveInv'
  <2>1. /\ live \in [Functions -> Seq(Hooks)]
        /\ \A x, g \in Functions : \A i \in 1 .. Len(live[x]), j \in 1 .. Len(live[g]) :
              live[x][i] = live[g][j] => x = g /\ i = j
        /\ \A x \in Functions : \A i \in 1 .. Len(live[x]) :
              live[x][i] \in tried' /\ live[x][i] # job.hook
    BY <1>1, <1>2, Zenon DEF HookInv, LiveInv
  <2>2. tried' \subseteq Hooks
    OBVIOUS
  <2> QED
    BY <1>1, <2>1, <2>2 DEF LiveInv
<1>4. LayerInv(target, layer)'
  <2>1. LayerInv(target, layer)
    BY <1>2, Zenon DEF HookInv
  <2> QED
    BY <1>1, <2>1, ZenonT(60) DEF LayerInv
<1>5. FunctionInv(target, layer, written)'
  <2>1. FunctionInv(target, layer, written)
    BY <1>2 DEF HookInv
  <2> QED
    BY <1>1, <2>1, Zenon DEF FunctionInv
<1>6. TrampolineInv(target, layer)'
  <2> SUFFICES ASSUME NEW g \in Functions, NEW i \in 1 .. Len(live[g]), Kind[live[g][i]] # "replace"
               PROVE  OrigRef[live[g][i]] # 0 /\
                      Trampoline(g, target[live[g][i]], layer[g][i - 1], OrigRef[live[g][i]])'
    BY <1>1, Zenon DEF TrampolineInv
  <2>1. OrigRef[live[g][i]] # 0 /\ Trampoline(g, target[live[g][i]], layer[g][i - 1], OrigRef[live[g][i]])
    BY <1>2, Zenon DEF HookInv, TrampolineInv
  <2> QED
    BY <1>1, <2>1, SameTrampoline, Zenon
<1>7. EntryInv(target)'
  <2>1. EntryInv(target) /\ LiveInv
    BY <1>2 DEF HookInv
  <2>2. ASSUME NEW g \in Functions, NEW i \in 1 .. Len(live[g]), Kind[live[g][i]] = "inline"
        PROVE  target[live[g][i]] # -1 /\ Entry(live[g][i], target[live[g][i]])'
    <3>1. target[live[g][i]] # -1 /\ Entry(live[g][i], target[live[g][i]])
      BY <2>1, <2>2, Zenon DEF EntryInv
    <3>2. live[g][i] \in Hooks
      BY <2>1, Zenon DEF LiveInv
    <3>3. target[live[g][i]] \in Int
      BY <2>1, <3>2, Zenon DEF EntryInv
    <3> QED
      BY <1>1, <3>1, <3>3, SameEntry, Zenon
  <2>3. \A h \in Hooks : Kind[h] = "inline" /\ target[h] # -1 =>
          h \in tried' /\ \E e \in 0 .. s_EntryIndex - 1 : target[h] = InlinePool + EntrySize * e
    BY <1>1, <2>1, Zenon DEF EntryInv
  <2> QED
    BY <1>1, <2>1, <2>2, <2>3, Zenon DEF EntryInv
<1>8. code' = [a \in CodeWords |-> code'[a]]
  BY <1>1, <1>2, Zenon DEF HookInv
<1> QED
  BY <1>3, <1>4, <1>5, <1>6, <1>7, <1>8, Zenon DEF HookInv

LEMMA NotFoundKeeps ==
    ASSUME NEW target, NEW layer, NEW written, HookInv(target, layer, written), PoolInv,
           NEW h \in Hooks, NotFound(h)
    PROVE  HookInv(target, layer, written)'
<1>1. /\ UNCHANGED <<code, live, OrigRef, s_EntryIndex>> /\ job' = job /\ index' = index
      /\ tried' = tried \cup {h} /\ job = NoJob
  BY DEF NotFound
<1>2. JobInv(target, written) /\ SlotInv /\ LiveInv
  BY DEF HookInv
<1>3. job.phase = "none"
  BY <1>1 DEF NoJob
<1>4. tried \subseteq tried' /\ tried' \subseteq Hooks
  BY <1>1, <1>2 DEF LiveInv
<1>5. ~HasTrampoline /\ ~HasTrampoline' /\ ~GivenOne /\ ~GivenOne'
  BY <1>1, <1>3 DEF HasTrampoline, GivenOne
<1>6. JobInv(target, written)'
  BY <1>1, <1>2, <1>3 DEF JobInv, JobShaped
<1>7. SlotInv'
  BY <1>1, <1>2, <1>4, <1>5 DEF SlotInv
<1> QED
  BY <1>1, <1>4, <1>5, <1>6, <1>7, QuietKeeps

LEMMA AllocKeeps ==
    ASSUME NEW target, NEW layer, NEW written, HookInv(target, layer, written), PoolInv,
           AllocForTrampoline, status' = "running"
    PROVE  HookInv(target, layer, written)'
<1>1. /\ UNCHANGED <<code, live, OrigRef, s_EntryIndex>> /\ tried' = tried /\ index' = index + 1
      /\ job.phase = "alloc"
      /\ job' = [job EXCEPT !.phase = "move", !.tramp = HookPool + TrampolineSize * (index + 1)]
  BY Zenon DEF AllocForTrampoline
<1>2. JobInv(target, written) /\ SlotInv /\ LiveInv
  BY DEF HookInv
<1>3. index \in Int /\ index >= -1
  BY DEF PoolInv
<1>4. PICK place : place = HookPool + TrampolineSize * (index + 1)
  OBVIOUS
<1>5. job' = [hook |-> job.hook, func |-> job.func, phase |-> "move",
              tramp |-> place, entry |-> job.entry, left |-> job.left]
  <2>1. JobShaped
    BY <1>2 DEF JobInv
  <2> QED
    BY <1>1, <1>4, <2>1 DEF JobShaped
<1>6. /\ job'.hook = job.hook /\ job'.func = job.func /\ job'.phase = "move"
      /\ job'.tramp = place /\ job'.entry = job.entry
  BY <1>5
<1>7. ~HasTrampoline' /\ GivenOne' /\ ~GivenOne
  BY <1>1, <1>6 DEF HasTrampoline, GivenOne
<1>8. JobInv(target, written)'
  <2>1. JobShaped'
    BY <1>5 DEF JobShaped
  <2>2. Target(job') = Target(job)
    BY <1>6, Zenon DEF Target
  <2>3. /\ job.hook \in Hooks /\ job.hook \in tried /\ job.func \in Functions
        /\ Target(job) = target[job.hook] /\ Kind[job.hook] # "replace" /\ written = 0
    BY <1>1, <1>2 DEF JobInv
  <2> QED
    BY <1>1, <1>6, <2>1, <2>2, <2>3 DEF JobInv
<1>9. SlotInv'
  <2>1. ASSUME NEW h \in Hooks, OrigRef[h] # 0
        PROVE  /\ h \in tried' /\ h # job'.hook
               /\ \E s \in 0 .. index' : OrigRef[h] = HookPool + TrampolineSize * s /\ s < index'
    <3>1. h \in tried' /\ h # job'.hook
      BY <1>1, <1>2, <1>6, <2>1, Zenon DEF SlotInv
    <3>2. PICK s \in 0 .. index : OrigRef[h] = HookPool + TrampolineSize * s
      BY <1>2, <2>1, Zenon DEF SlotInv
    <3>3. s \in 0 .. index' /\ s < index'
      BY <1>1, <1>3, <3>2
    <3> QED
      BY <3>1, <3>2, <3>3, Zenon
  <2>2. index' >= 0 /\ job'.tramp = HookPool + TrampolineSize * index'
    BY <1>1, <1>3, <1>4, <1>6
  <2> QED
    BY <1>1, <1>2, <1>7, <2>1, <2>2, Zenon DEF SlotInv
<1> QED
  BY <1>1, <1>2, <1>6, <1>7, <1>8, <1>9, QuietKeeps DEF LiveInv

LEMMA LiveLengths ==
    ASSUME LiveInv, NEW f \in Functions
    PROVE  /\ f \in Nat /\ Lead(f) \in {0, 1}
           /\ Len(live[f]) \in Nat
           /\ \A i \in 1 .. Len(live[f]) : live[f][i] \in Hooks
<1>1. live[f] \in Seq(Hooks)
  <2>1. live \in [Functions -> Seq(Hooks)]
    BY Zenon DEF LiveInv
  <2> QED
    BY <2>1, Zenon
<1>2. f \in Nat
  BY PlacesAssumption
<1>3. Lead(f) \in {0, 1}
  BY <1>2, JumpLengths
<1> QED
  BY <1>1, <1>2, <1>3

(* Behind its first word a function is as the last far hook left it, and   *)
(* near ones leave that alone.                                             *)
FarShape(target, layer, f, i) ==
    /\ \/ \A k \in 1 .. 4 : layer[f][i][k] = <<"orig", f, k>>
       \/ \E p \in 1 .. i :
             /\ ~Near(f, target[live[f][p]])
             /\ \A k \in 1 .. 2 + Lead(f) : layer[f][i][k] = JumpWord(f, target[live[f][p]], k)
    /\ \A k \in 3 + Lead(f) .. 4 : layer[f][i][k] = <<"orig", f, k>>

LEMMA LayerShape ==
    ASSUME NEW target, NEW layer, LiveInv, LayerInv(target, layer),
           NEW f \in Functions, NEW i \in 0 .. Len(live[f])
    PROVE  FarShape(target, layer, f, i)
<1> DEFINE n == Len(live[f])
           bad == {m \in 0 .. n : ~FarShape(target, layer, f, m)}
<1>1. n \in Nat /\ f \in Nat /\ Lead(f) \in {0, 1}
  BY LiveLengths
<1>2. bad = {}
  <2> SUFFICES ASSUME bad # {} PROVE FALSE
    OBVIOUS
  <2>1. PICK m \in bad : \A x \in bad : m <= x
    <3>1. bad \in SUBSET Nat
      BY <1>1
    <3> HIDE DEF bad
    <3> QED
      BY <3>1, LeastNatural, Zenon
  <2>2. m \in 0 .. n /\ m \in Nat /\ ~FarShape(target, layer, f, m)
    BY <1>1, <2>1
  <2>3. m # 0
    <3>1. \A k \in 0 .. 4 : layer[f][0][k] = <<"orig", f, k>>
      BY Zenon DEF LayerInv
    <3>2. \A k \in 1 .. 4 : k \in 0 .. 4
      OBVIOUS
    <3>3. \A k \in 3 + Lead(f) .. 4 : k \in 0 .. 4
      BY <1>1
    <3>4. FarShape(target, layer, f, 0)
      BY <3>1, <3>2, <3>3, Zenon DEF FarShape
    <3> QED
      BY <2>2, <3>4, Zenon
  <2>4. m - 1 \in 0 .. n /\ m - 1 \notin bad /\ m \in 1 .. n
    BY <1>1, <2>1, <2>2, <2>3
  <2>5. FarShape(target, layer, f, m - 1)
    BY <2>4, Zenon
  <2> HIDE DEF bad
  <2>6. PICK t : t = target[live[f][m]]
    OBVIOUS
  <2>7. \A k \in 0 .. 4 : layer[f][m][k] = IF k < JumpLength(f, t) THEN JumpWord(f, t, k)
                                          ELSE layer[f][m - 1][k]
    BY <2>4, <2>6, Zenon DEF LayerInv
  <2>8. CASE Near(f, t)
    <3>1. JumpLength(f, t) = 1
      BY <1>1, <2>8, JumpLengths
    <3>2. \A k \in 1 .. 4 : layer[f][m][k] = layer[f][m - 1][k]
      BY <2>7, <3>1
    <3>3. \A k \in 3 + Lead(f) .. 4 : k \in 1 .. 4
      BY <1>1
    <3>4. \A k \in 1 .. 2 + Lead(f) : k \in 1 .. 4
      BY <1>1
    <3>5. \A p \in 1 .. m - 1 : p \in 1 .. m
      BY <2>2
    <3> QED
      BY <2>2, <2>5, <3>2, <3>3, <3>4, <3>5, Zenon DEF FarShape
  <2>9. CASE ~Near(f, t)
    <3>1. JumpLength(f, t) = 3 + Lead(f)
      BY <1>1, <2>9, JumpLengths
    <3>2. \A k \in 1 .. 2 + Lead(f) : layer[f][m][k] = JumpWord(f, t, k)
      BY <1>1, <2>7, <3>1
    <3>3. \A k \in 3 + Lead(f) .. 4 : layer[f][m][k] = layer[f][m - 1][k]
      BY <1>1, <2>7, <3>1
    <3>4. m \in 1 .. m
      BY <2>2, <2>3
    <3> QED
      BY <2>2, <2>5, <2>6, <2>9, <3>2, <3>3, <3>4, Zenon DEF FarShape
  <2> QED
    BY <2>8, <2>9
<1> QED
  BY <1>2

LEMMA LayerStays ==
    ASSUME NEW target, NEW layer, LiveInv, LayerInv(target, layer),
           NEW f \in Functions, NEW i \in 0 .. Len(live[f]), NEW j \in i .. Len(live[f]),
           \A l \in i + 1 .. j : Near(f, target[live[f][l]])
    PROVE  \A k \in 1 .. 4 : layer[f][j][k] = layer[f][i][k]
<1> DEFINE Same(m) == \A k \in 1 .. 4 : layer[f][m][k] = layer[f][i][k]
           bad == {m \in i .. j : ~Same(m)}
<1>1. Len(live[f]) \in Nat /\ f \in Nat /\ i \in Nat /\ j \in Nat
  BY LiveLengths
<1>2. bad = {}
  <2> SUFFICES ASSUME bad # {} PROVE FALSE
    OBVIOUS
  <2>1. PICK m \in bad : \A x \in bad : m <= x
    <3>1. bad \in SUBSET Nat
      BY <1>1
    <3> HIDE DEF bad
    <3> QED
      BY <3>1, LeastNatural, Zenon
  <2>2. m \in i .. j /\ m \in Nat /\ ~Same(m) /\ m # i
    BY <1>1, <2>1
  <2>3. m - 1 \in i .. j /\ m - 1 \notin bad /\ m \in 1 .. Len(live[f]) /\ m \in i + 1 .. j
    BY <1>1, <2>1, <2>2
  <2>4. Same(m - 1)
    BY <2>3, Zenon
  <2> HIDE DEF bad
  <2>5. JumpLength(f, target[live[f][m]]) = 1
    BY <1>1, <2>3, JumpLengths
  <2>6. \A k \in 0 .. 4 : layer[f][m][k] = IF k < 1 THEN JumpWord(f, target[live[f][m]], k)
                                          ELSE layer[f][m - 1][k]
    BY <2>3, <2>5, Zenon DEF LayerInv
  <2>7. \A k \in 1 .. 4 : layer[f][m][k] = layer[f][m - 1][k]
    BY <2>6
  <2> QED
    BY <2>2, <2>4, <2>7
<1> QED
  BY <1>1, <1>2

(* A word is the function's own or one of a jump.                          *)
LEMMA WordKinds ==
    ASSUME NEW target, NEW layer, LiveInv, LayerInv(target, layer),
           NEW f \in Functions, NEW i \in 0 .. Len(live[f]), NEW k \in 0 .. 4
    PROVE  layer[f][i][k] = <<"orig", f, k>> \/ \E t : layer[f][i][k] = JumpWord(f, t, k)
<1>1. Len(live[f]) \in Nat /\ f \in Nat /\ Lead(f) \in {0, 1}
  BY LiveLengths
<1>2. CASE k = 0 /\ i = 0
  <2>1. \A l \in 0 .. 4 : layer[f][0][l] = <<"orig", f, l>>
    BY Zenon DEF LayerInv
  <2>2. 0 \in 0 .. 4
    OBVIOUS
  <2>3. layer[f][0][0] = <<"orig", f, 0>>
    BY <2>1, <2>2, Zenon
  <2> QED
    BY <1>2, <2>3
<1>3. CASE k = 0 /\ i # 0
  <2>1. i \in 1 .. Len(live[f]) /\ 0 \in 0 .. 4
    BY <1>1, <1>3
  <2>2. 0 < JumpLength(f, target[live[f][i]])
    BY <1>1, JumpLengths
  <2>3. layer[f][i][0] = JumpWord(f, target[live[f][i]], 0)
    BY <2>1, <2>2, Zenon DEF LayerInv
  <2> QED
    BY <1>3, <2>3, Zenon
<1>4. CASE k # 0
  <2>1. FarShape(target, layer, f, i)
    BY LayerShape
  <2>2. k \in 1 .. 4 /\ (k \in 1 .. 2 + Lead(f) \/ k \in 3 + Lead(f) .. 4)
    BY <1>1, <1>4
  <2> QED
    BY <2>1, <2>2, Zenon DEF FarShape
<1> QED
  BY <1>2, <1>3, <1>4

LEMMA JumpWords ==
    ASSUME NEW f \in Nat, NEW t, NEW k \in Nat
    PROVE  \/ JumpWord(f, t, k) = <<"b", t>> /\ Near(f, t)
           \/ JumpWord(f, t, k) = <<"nop">> /\ ~Near(f, t) /\ k < Lead(f)
           \/ JumpWord(f, t, k) = <<"ldr17", f + Lead(f) + 2>> /\ ~Near(f, t) /\ k = Lead(f)
           \/ JumpWord(f, t, k) = <<"br17">> /\ ~Near(f, t) /\ k = Lead(f) + 1
           \/ JumpWord(f, t, k) = <<"data", t>> /\ ~Near(f, t) /\ k > Lead(f) + 1
<1>1. Lead(f) \in {0, 1}
  BY JumpLengths
<1> QED
  BY <1>1 DEF JumpWord

(* What is moved into a trampoline.                                        *)
LEMMA MovedIsKept ==
    ASSUME NEW target, NEW layer, LiveInv, LayerInv(target, layer),
           NEW f \in Functions, NEW i \in 0 .. Len(live[f]),
           \A k \in 0 .. 4 : code[f + k] = layer[f][i][k], NEW k \in 0 .. 4
    PROVE  Moved(code[f + k]) = Kept(f, layer[f][i], k)
<1>1. PICK words : words = layer[f][i]
  OBVIOUS
<1>2. f \in Nat /\ Lead(f) \in {0, 1} /\ Lead(f) + 2 \in 0 .. 4 /\ k \in Nat
  BY PlacesAssumption, JumpLengths
<1>3. code[f + k] = words[k]
  BY <1>1, Zenon
<1>4. words[k] = <<"orig", f, k>> \/ \E t : words[k] = JumpWord(f, t, k)
  <2>1. layer[f][i][k] = <<"orig", f, k>> \/ \E t : layer[f][i][k] = JumpWord(f, t, k)
    BY WordKinds
  <2> QED
    BY <1>1, <2>1, Zenon
<1>5. CASE words[k][1] # "ldr17"
  <2>1. Moved(words[k]) = words[k]
    BY <1>5, Zenon DEF Moved
  <2>2. Kept(f, words, k) = words[k]
    BY <1>5, Zenon DEF Kept
  <2> QED
    BY <1>1, <1>3, <2>1, <2>2
<1>6. CASE words[k][1] = "ldr17"
  <2>1. words[k] # <<"orig", f, k>>
    BY <1>6
  <2>2. PICK t : words[k] = JumpWord(f, t, k)
    BY <1>4, <2>1, Zenon
  <2>3. words[k] = <<"ldr17", f + Lead(f) + 2>>
    BY <1>2, <1>6, <2>2, JumpWords
  <2>4. words[k][2] = f + (Lead(f) + 2)
    BY <1>2, <2>3
  <2>5. code[f + (Lead(f) + 2)] = words[Lead(f) + 2]
    BY <1>1, <1>2
  <2> QED
    BY <1>1, <1>3, <1>6, <2>4, <2>5, Zenon DEF Moved, Kept
<1> QED
  BY <1>5, <1>6

LEMMA LiveStands ==
    ASSUME LiveInv, live' = live, tried' = tried, job'.hook = job.hook
    PROVE  LiveInv'
BY DEF LiveInv

LEMMA LayersStand ==
    ASSUME NEW target, NEW layer, LayerInv(target, layer), live' = live
    PROVE  LayerInv(target, layer)'
BY Zenon DEF LayerInv

LEMMA FunctionsStand ==
    ASSUME NEW target, NEW layer, NEW written, FunctionInv(target, layer, written),
           live' = live, job'.func = job.func, job'.hook = job.hook,
           \A f \in Functions : \A k \in 0 .. Length[f] - 1 : code'[f + k] = code[f + k]
    PROVE  FunctionInv(target, layer, written)'
<1>1. \A f \in Functions : \A k \in 0 .. 4 : k \in 0 .. Length[f] - 1
  BY FirstPlaces
<1>2. \A f \in Functions : \A k \in 5 .. Length[f] - 1 : k \in 0 .. Length[f] - 1
  BY LengthAssumption
<1> QED
  BY <1>1, <1>2, ZenonT(60) DEF FunctionInv

LEMMA EntriesStand ==
    ASSUME NEW target, EntryInv(target), LiveInv, PoolInv, live' = live, tried' = tried,
           OrigRef' = OrigRef, s_EntryIndex' = s_EntryIndex, job'.hook = job.hook,
           job'.phase = "none" <=> job.phase = "none",
           job.phase # "none" => job.hook \in Hooks,
           \A a \in EntryWords : code'[a] = code[a]
    PROVE  EntryInv(target)'
<1>1. ASSUME NEW g \in Functions, NEW i \in 1 .. Len(live[g]), Kind[live[g][i]] = "inline"
      PROVE  target[live[g][i]] # -1 /\ Entry(live[g][i], target[live[g][i]])'
  <2>1. target[live[g][i]] # -1 /\ Entry(live[g][i], target[live[g][i]])
    BY <1>1, Zenon DEF EntryInv
  <2>2. live[g][i] \in Hooks
    BY LiveLengths
  <2>3. target[live[g][i]] \in Int
    BY <2>2, Zenon DEF EntryInv
  <2>4. \A k \in 0 .. 5 : target[live[g][i]] + k \in EntryWords
    BY <1>1, <2>1, <2>2, EntryWhere
  <2>5. \A k \in 0 .. 4 : k \in 0 .. 5
    OBVIOUS
  <2> QED
    BY <2>1, <2>3, <2>4, <2>5, SameEntry, Zenon
<1>2. ASSUME NEW e \in s_EntryIndex .. InlinePoolCount - 1
      PROVE  code'[InlinePool + EntrySize * e] = <<"none">>
  <2>1. e \in 0 .. InlinePoolCount - 1 /\ 0 \in 0 .. 5
    BY PoolAssumption DEF PoolInv
  <2>2. InlinePool + EntrySize * e + 0 = InlinePool + EntrySize * e
    BY <2>1, PoolAssumption DEF EntrySize
  <2>3. InlinePool + EntrySize * e + 0 \in EntryWords
    BY <2>1, EntryPlaces, Zenon
  <2>4. code[InlinePool + EntrySize * e] = <<"none">>
    BY Zenon DEF EntryInv
  <2> QED
    BY <2>2, <2>3, <2>4
<1>3. ASSUME job.phase # "none", Kind[job.hook] = "inline", job.hook \in Hooks
      PROVE  target[job.hook] # -1 /\ code'[target[job.hook]] = <<"none">>
  <2>1. target[job.hook] # -1 /\ code[target[job.hook]] = <<"none">>
    BY <1>3, Zenon DEF EntryInv
  <2>2. target[job.hook] \in Nat /\ \A k \in 0 .. 5 : target[job.hook] + k \in EntryWords
    BY <1>3, <2>1, EntryWhere
  <2>3. target[job.hook] + 0 = target[job.hook] /\ 0 \in 0 .. 5
    BY <2>2
  <2>4. target[job.hook] \in EntryWords
    BY <2>2, <2>3, Zenon
  <2> QED
    BY <2>1, <2>4
<1> QED
  BY <1>1, <1>2, <1>3, Zenon DEF EntryInv

LEMMA FixKeeps ==
    ASSUME NEW target, NEW layer, NEW written, HookInv(target, layer, written), PoolInv,
           FixInstructions, status' = "running"
    PROVE  HookInv(target, layer, 0)'
<1>1. /\ LiveInv /\ JobInv(target, written) /\ LayerInv(target, layer) /\ SlotInv
      /\ FunctionInv(target, layer, written) /\ TrampolineInv(target, layer) /\ EntryInv(target)
      /\ code = [a \in CodeWords |-> code[a]]
  BY Zenon DEF HookInv
<1>2. PICK f, t, h, a0, count : /\ f = job.func /\ h = job.hook /\ t = Target(job)
                                /\ a0 = job.tramp /\ count = Count(f, t)
  OBVIOUS
<1>3. /\ job.phase = "move" /\ a0 + count \in PoolWords
      /\ code' = [a \in DOMAIN code |->
                    CASE a \in a0 .. a0 + count - 1 -> Moved(code[f + a - a0])
                      [] a = a0 + count -> JumpBack(f, t)
                      [] OTHER -> code[a]]
      /\ job' = [job EXCEPT !.phase = "patch", !.left = Patches(f, t)]
      /\ index' = index /\ s_EntryIndex' = s_EntryIndex /\ OrigRef' = OrigRef
      /\ tried' = tried /\ live' = live
  BY <1>2, Zenon DEF FixInstructions
<1>4. /\ h \in Hooks /\ f \in Functions /\ t = target[h] /\ written = 0 /\ Kind[h] # "replace"
  BY <1>1, <1>2, <1>3 DEF JobInv
<1>5. /\ GivenOne /\ index \in Nat /\ a0 = HookPool + TrampolineSize * index
  BY <1>1, <1>2, <1>3 DEF GivenOne, SlotInv, PoolInv
<1>6. count \in 1 .. 5 /\ f \in Nat /\ a0 \in Nat /\ HookPool <= a0
  <2>1. TrampolineSize * index \in Nat
    BY <1>5, PoolAssumption
  <2> QED
    BY <1>2, <1>4, <1>5, <2>1, CountOfWords, PoolAssumption, PlacesAssumption
<1>7. \A k \in 0 .. count : a0 + k \in PoolWords /\ a0 + k \in CodeWords
  BY <1>3, <1>6, PoolAssumption DEF PoolWords, CodeWords
<1>8. DOMAIN code = CodeWords
  BY <1>1, Zenon
<1>9. ASSUME NEW a \in CodeWords, ~(a \in a0 .. a0 + count)
      PROVE  code'[a] = code[a]
  <2>1. a \notin a0 .. a0 + count - 1 /\ a # a0 + count
    BY <1>6, <1>9
  <2> QED
    BY <1>3, <1>8, <2>1, Zenon
<1>10. \A a \in a0 .. a0 + count : a \in PoolWords
  BY <1>3, <1>6, PoolAssumption DEF PoolWords
<1>11. \A a \in CodeWords : a \notin PoolWords => code'[a] = code[a]
  BY <1>9, <1>10, Zenon
<1>12. \A g \in Functions : \A k \in 0 .. Length[g] - 1 : code'[g + k] = code[g + k]
  BY <1>11, FunctionPlaces, Zenon
<1>13. \A a \in EntryWords : code'[a] = code[a]
  <2>1. PoolWords \cap EntryWords = {}
    BY PlacesAssumption, Zenon
  <2> QED
    BY <1>11, <2>1, Zenon DEF CodeWords
<1>14. /\ job' = [hook |-> h, func |-> f, phase |-> "patch", tramp |-> a0,
                  entry |-> job.entry, left |-> Patches(f, t)]
  <2>1. JobShaped
    BY <1>1 DEF JobInv
  <2> QED
    BY <1>2, <1>3, <2>1 DEF JobShaped
<1>15. /\ job'.hook = h /\ job'.func = f /\ job'.phase = "patch" /\ job'.tramp = a0
       /\ job'.entry = job.entry /\ job'.left = Patches(f, t)
  BY <1>14, Zenon
<1>16. HasTrampoline' /\ GivenOne'
  BY <1>4, <1>15, Zenon DEF HasTrampoline, GivenOne
<1>17. JobInv(target, 0)'
  <2>1. JobShaped'
    BY <1>14 DEF JobShaped
  <2>2. Target(job') = t
    BY <1>2, <1>15, Zenon DEF Target
  <2>3. JumpLength(f, t) \in Nat \ {0}
    BY <1>6, JumpLengths
  <2>4. Patches(f, t) = LeftOf(f, t, 0)
    BY <1>6, PatchesAreJump
  <2>5. job.hook \in tried
    BY <1>1, <1>3 DEF JobInv
  <2> QED
    BY <1>2, <1>3, <1>4, <1>15, <2>1, <2>2, <2>3, <2>4, <2>5 DEF JobInv
<1>18. FunctionInv(target, layer, 0)'
  BY <1>1, <1>2, <1>3, <1>4, <1>12, <1>15, FunctionsStand
<1>19. ASSUME NEW k \in 0 .. count - 1
       PROVE  code'[a0 + k] = Kept(f, layer[f][Len(live[f])], k)
  <2>1. PICK a : a = a0 + k
    OBVIOUS
  <2>2. a \in a0 .. a0 + count - 1 /\ a \in CodeWords /\ k \in 0 .. 4 /\ a # a0 + count
    BY <1>6, <1>7, <2>1
  <2>3. code'[a] = Moved(code[f + a - a0])
    <3> DEFINE word(b) == CASE b \in a0 .. a0 + count - 1 -> Moved(code[f + b - a0])
                            [] b = a0 + count -> JumpBack(f, t)
                            [] OTHER -> code[b]
    <3>1. code' = [b \in CodeWords |-> word(b)]
      BY <1>3, <1>8
    <3>2. word(a) = Moved(code[f + a - a0])
      BY <2>2, Zenon
    <3> HIDE DEF word
    <3> QED
      BY <2>2, <3>1, <3>2
  <2>4. f + a - a0 = f + k
    BY <1>6, <2>1
  <2>5. PICK n : n = Len(live[f]) /\ n \in 0 .. Len(live[f])
    BY <1>1, <1>4, LiveLengths
  <2>6. \A l \in 0 .. 4 : code[f + l] = layer[f][n][l]
    <3>1. \A l \in 0 .. 4 : ~(l < 0)
      OBVIOUS
    <3> QED
      BY <1>1, <1>4, <2>5, <3>1, Zenon DEF FunctionInv
  <2>7. Moved(code[f + k]) = Kept(f, layer[f][n], k)
    BY <1>1, <1>4, <2>2, <2>5, <2>6, MovedIsKept
  <2> QED
    BY <2>1, <2>3, <2>4, <2>5, <2>7
<1>20. code'[a0 + count] = <<"b", f + count>>
  <2>1. PICK a : a = a0 + count
    OBVIOUS
  <2>2. a \notin a0 .. a0 + count - 1 /\ a \in CodeWords
    BY <1>6, <1>7, <2>1
  <2>3. code'[a] = JumpBack(f, t)
    BY <1>3, <1>8, <2>1, <2>2, Zenon
  <2> QED
    BY <1>2, <2>1, <2>3 DEF JumpBack
<1>21. Trampoline(f, t, layer[f][Len(live[f])], a0)'
  BY <1>2, <1>3, <1>7, <1>19, <1>20, Zenon DEF Trampoline
<1>22. ASSUME NEW g \in Functions, NEW i \in 1 .. Len(live[g]), Kind[live[g][i]] # "replace"
       PROVE  OrigRef[live[g][i]] # 0 /\
              Trampoline(g, target[live[g][i]], layer[g][i - 1], OrigRef[live[g][i]])'
  <2>1. PICK a, u : a = OrigRef[live[g][i]] /\ u = target[live[g][i]]
    OBVIOUS
  <2>2. a # 0 /\ Trampoline(g, u, layer[g][i - 1], a) /\ live[g][i] \in Hooks
    BY <1>1, <1>22, <2>1, LiveLengths, Zenon DEF TrampolineInv
  <2>3. PICK s \in 0 .. index : a = HookPool + TrampolineSize * s /\ s < index
    BY <1>1, <1>5, <2>1, <2>2, Zenon DEF SlotInv
  <2>4. s \in Nat
    BY <2>3
  <2>5. Count(g, u) \in 1 .. 5
    BY CountOfWords
  <2>6. ASSUME NEW k \in 0 .. Count(g, u) PROVE code'[a + k] = code[a + k]
    <3>1. k \in 0 .. 5
      BY <2>5
    <3>2. a + k < a0
      BY <1>5, <2>3, <2>4, <3>1, TrampolinesApart
    <3>3. a + k \in CodeWords
      BY <2>2, Zenon DEF Trampoline, CodeWords
    <3>4. ~(a + k \in a0 .. a0 + count)
      BY <1>6, <3>2
    <3> QED
      BY <1>9, <3>3, <3>4
  <2>7. Trampoline(g, u, layer[g][i - 1], a)'
    BY <2>2, <2>6, SameTrampoline
  <2> QED
    BY <1>3, <2>1, <2>2, <2>7, Zenon
<1>23. TrampolineInv(target, layer)'
  BY <1>3, <1>4, <1>15, <1>21, <1>22, Zenon DEF TrampolineInv
<1>24. SlotInv'
  BY <1>1, <1>2, <1>3, <1>5, <1>15, <1>16, Zenon DEF SlotInv
<1>25. EntryInv(target)'
  BY <1>1, <1>2, <1>3, <1>4, <1>13, <1>15, EntriesStand
<1>26. LiveInv' /\ LayerInv(target, layer)'
  BY <1>1, <1>2, <1>3, <1>15, LiveStands, LayersStand
<1>27. code' = [a \in CodeWords |-> code'[a]]
  BY <1>3, <1>8
<1> QED
  BY <1>17, <1>18, <1>23, <1>24, <1>25, <1>26, <1>27, Zenon DEF HookInv

LEMMA TrampolinesStand ==
    ASSUME NEW target, NEW layer, TrampolineInv(target, layer), live' = live, OrigRef' = OrigRef,
           job'.func = job.func, job'.hook = job.hook, job'.tramp = job.tramp,
           HasTrampoline' => HasTrampoline,
           \A a \in PoolWords : code'[a] = code[a]
    PROVE  TrampolineInv(target, layer)'
<1>1. ASSUME NEW f, NEW t, NEW words, NEW a, Trampoline(f, t, words, a)
      PROVE  Trampoline(f, t, words, a)'
  <2>1. \A k \in 0 .. Count(f, t) : a + k \in PoolWords
    BY <1>1, Zenon DEF Trampoline
  <2>2. \A k \in 0 .. Count(f, t) : code'[a + k] = code[a + k]
    BY <2>1, Zenon
  <2> QED
    BY <1>1, <2>2, SameTrampoline
<1>2. ASSUME NEW g \in Functions, NEW i \in 1 .. Len(live[g]), Kind[live[g][i]] # "replace"
      PROVE  OrigRef[live[g][i]] # 0 /\
             Trampoline(g, target[live[g][i]], layer[g][i - 1], OrigRef[live[g][i]])'
  <2>1. PICK a, u, w : a = OrigRef[live[g][i]] /\ u = target[live[g][i]] /\ w = layer[g][i - 1]
    OBVIOUS
  <2>2. a # 0 /\ Trampoline(g, u, w, a)
    BY <1>2, <2>1, Zenon DEF TrampolineInv
  <2>3. Trampoline(g, u, w, a)'
    BY <1>1, <2>2
  <2> QED
    BY <2>1, <2>2, <2>3, Zenon
<1>3. ASSUME HasTrampoline'
      PROVE  Trampoline(job.func, target[job.hook], layer[job.func][Len(live[job.func])], job.tramp)'
  <2>1. PICK a, u, w, f : /\ a = job.tramp /\ u = target[job.hook] /\ f = job.func
                          /\ w = layer[job.func][Len(live[job.func])]
    OBVIOUS
  <2>2. Trampoline(f, u, w, a)
    BY <1>3, <2>1, Zenon DEF TrampolineInv
  <2>3. Trampoline(f, u, w, a)'
    BY <1>1, <2>2
  <2> QED
    BY <2>1, <2>2, <2>3, Zenon
<1> QED
  BY <1>2, <1>3, Zenon DEF TrampolineInv

LEMMA PatchKeeps ==
    ASSUME NEW target, NEW layer, NEW written, HookInv(target, layer, written), PoolInv, PatchWord
    PROVE  HookInv(target, layer, written + 1)'
<1>1. /\ LiveInv /\ JobInv(target, written) /\ LayerInv(target, layer) /\ SlotInv
      /\ FunctionInv(target, layer, written) /\ TrampolineInv(target, layer) /\ EntryInv(target)
      /\ code = [a \in CodeWords |-> code[a]]
  BY Zenon DEF HookInv
<1>2. PICK f, h, t : f = job.func /\ h = job.hook /\ t = target[job.hook]
  OBVIOUS
<1>3. /\ job.phase = "patch"
      /\ index' = index /\ s_EntryIndex' = s_EntryIndex /\ OrigRef' = OrigRef
      /\ tried' = tried /\ live' = live
  BY DEF PatchWord
<1>4. /\ h \in Hooks /\ h \in tried /\ f \in Functions /\ Target(job) = t
      /\ written \in 0 .. JumpLength(f, t) - 1 /\ job.left = LeftOf(f, t, written) /\ JobShaped
  BY <1>1, <1>2, <1>3 DEF JobInv
<1>5. /\ f \in Nat /\ written \in Nat /\ written < JumpLength(f, t) /\ JumpLength(f, t) \in 1 .. 4
      /\ written \in 0 .. 4
  <2>1. f \in Nat
    BY <1>4, PlacesAssumption
  <2>2. JumpLength(f, t) \in 1 .. 4
    BY <2>1, JumpLengths
  <2> QED
    BY <1>4, <2>1, <2>2
<1>6. PICK place, word : place = f + written /\ word = JumpWord(f, t, written)
  OBVIOUS
<1>7. /\ Len(job.left) = JumpLength(f, t) - written
      /\ Head(job.left) = <<place, word>> /\ Tail(job.left) = LeftOf(f, t, written + 1)
  BY <1>4, <1>5, <1>6, NextOfJump
<1>8. code' = [code EXCEPT ![place] = word]
  <2>1. Head(job.left)[1] = place /\ Head(job.left)[2] = word
    BY <1>7
  <2>2. code' = [code EXCEPT ![Head(job.left)[1]] = Head(job.left)[2]]
    BY Zenon DEF PatchWord
  <2> QED
    BY <2>1, <2>2
<1>9. job' = [hook |-> h, func |-> f,
              phase |-> IF written + 1 = JumpLength(f, t) THEN "link" ELSE "patch",
              tramp |-> job.tramp, entry |-> job.entry, left |-> LeftOf(f, t, written + 1)]
  <2>1. job' = [job EXCEPT !.left = Tail(@), !.phase = IF Len(job.left) = 1 THEN "link" ELSE "patch"]
    BY Zenon DEF PatchWord
  <2>2. Len(job.left) = 1 <=> written + 1 = JumpLength(f, t)
    BY <1>5, <1>7
  <2>3. PICK p : /\ p = IF written + 1 = JumpLength(f, t) THEN "link" ELSE "patch"
                 /\ p = IF Len(job.left) = 1 THEN "link" ELSE "patch"
    BY <2>2
  <2>4. job' = [job EXCEPT !.left = LeftOf(f, t, written + 1), !.phase = p]
    BY <1>7, <2>1, <2>3
  <2>5. PICK q, a, e, l, r : /\ q = job.phase /\ a = job.tramp /\ e = job.entry /\ l = job.left
                             /\ r = LeftOf(f, t, written + 1)
    OBVIOUS
  <2>6. job = [hook |-> h, func |-> f, phase |-> q, tramp |-> a, entry |-> e, left |-> l]
    BY <1>2, <1>4, <2>5, Zenon DEF JobShaped
  <2>7. job' = [[hook |-> h, func |-> f, phase |-> q, tramp |-> a, entry |-> e, left |-> l]
                  EXCEPT !.left = r, !.phase = p]
    BY <2>4, <2>5, <2>6, Zenon
  <2>8. job' = [hook |-> h, func |-> f, phase |-> p, tramp |-> a, entry |-> e, left |-> r]
    BY <2>7
  <2> QED
    BY <2>3, <2>5, <2>8
<1>10. /\ job'.hook = h /\ job'.func = f /\ job'.tramp = job.tramp /\ job'.entry = job.entry
       /\ job'.phase = IF written + 1 = JumpLength(f, t) THEN "link" ELSE "patch"
       /\ job'.left = LeftOf(f, t, written + 1)
       /\ job'.phase \in {"patch", "link"}
  BY <1>9
<1>11. DOMAIN code = CodeWords /\ place \in CodeWords /\ place \notin PoolWords /\ place \notin EntryWords
  BY <1>1, <1>4, <1>5, <1>6, FirstPlaces
<1>12. code'[place] = word /\ (\A a \in CodeWords : a # place => code'[a] = code[a])
       /\ code' = [a \in CodeWords |-> code'[a]]
  BY <1>8, <1>11
<1>13. \A a \in PoolWords : code'[a] = code[a]
  BY <1>11, <1>12, Zenon DEF CodeWords
<1>14. \A a \in EntryWords : code'[a] = code[a]
  BY <1>11, <1>12, Zenon DEF CodeWords
<1>15. JobInv(target, written + 1)'
  <2>1. JobShaped'
    <3> DEFINE p == IF written + 1 = JumpLength(f, t) THEN "link" ELSE "patch"
               l == LeftOf(f, t, written + 1)
    <3>1. job' = [hook |-> h, func |-> f, phase |-> p, tramp |-> job.tramp, entry |-> job.entry, left |-> l]
      BY <1>9, Zenon
    <3> HIDE DEF p, l
    <3> QED
      BY <3>1 DEF JobShaped
  <2>2. Target(job') = t
    BY <1>2, <1>4, <1>10, Zenon DEF Target
  <2>3. job'.phase = "patch" => written + 1 \in 0 .. JumpLength(f, t) - 1
    BY <1>5, <1>10
  <2>4. job'.phase = "link" => written + 1 = JumpLength(f, t)
    BY <1>5, <1>10
  <2>5. job'.phase # "none" /\ h \in tried'
    BY <1>3, <1>4, <1>10
  <2> QED
    BY <1>2, <1>4, <1>10, <2>1, <2>2, <2>3, <2>4, <2>5, Zenon DEF JobInv
<1>16. FunctionInv(target, layer, written + 1)'
  <2>1. ASSUME NEW g \in Functions, NEW k \in 0 .. 4
        PROVE  code'[g + k] = IF g = f /\ k < written + 1 THEN JumpWord(f, t, k)
                              ELSE layer[g][Len(live[g])][k]
    <3>1. code[g + k] = IF g = f /\ k < written THEN JumpWord(g, t, k) ELSE layer[g][Len(live[g])][k]
      BY <1>1, <1>2, Zenon DEF FunctionInv
    <3>2. g + k \in CodeWords
      BY FirstPlaces
    <3>3. CASE g = f /\ k = written
      BY <1>5, <1>6, <1>12, <3>3
    <3>4. CASE g = f /\ k # written
      <4>1. g + k # place /\ (k < written <=> k < written + 1)
        BY <1>5, <1>6, <3>4
      <4> QED
        BY <1>12, <3>1, <3>2, <3>4, <4>1
    <3>5. CASE g # f
      <4>1. k \in 0 .. Length[g] - 1 /\ written \in 0 .. Length[f] - 1
        BY <1>4, <1>5, FirstPlaces
      <4>2. g + k # place
        BY <1>4, <1>6, <3>5, <4>1, FunctionsApart
      <4> QED
        BY <1>12, <3>1, <3>2, <3>5, <4>2
    <3> QED
      BY <3>3, <3>4, <3>5
  <2>2. ASSUME NEW g \in Functions, NEW k \in 5 .. Length[g] - 1
        PROVE  code'[g + k] = <<"orig", g, k>>
    <3>1. code[g + k] = <<"orig", g, k>>
      BY <1>1, Zenon DEF FunctionInv
    <3>2. k \in 0 .. Length[g] - 1 /\ written \in 0 .. Length[f] - 1 /\ g \in Nat
      BY <1>4, <1>5, FirstPlaces, PlacesAssumption, LengthAssumption
    <3>3. g + k # place
      <4>1. CASE g # f
        BY <1>4, <1>6, <3>2, <4>1, FunctionsApart
      <4>2. CASE g = f
        BY <1>5, <1>6, <4>2
      <4> QED
        BY <4>1, <4>2
    <3>4. g + k \in CodeWords
      BY <3>2, FunctionPlaces
    <3> QED
      BY <1>12, <3>1, <3>3, <3>4
  <2> QED
    BY <1>2, <1>3, <1>10, <2>1, <2>2, ZenonT(60) DEF FunctionInv
<1>17. HasTrampoline' <=> HasTrampoline
  BY <1>2, <1>3, <1>10, Zenon DEF HasTrampoline
<1>18. GivenOne' <=> GivenOne
  <2>1. job'.phase # "move"
    BY <1>10
  <2> QED
    BY <1>3, <1>17, <2>1 DEF GivenOne
<1>19. TrampolineInv(target, layer)'
  BY <1>1, <1>2, <1>3, <1>10, <1>13, <1>17, TrampolinesStand
<1>20. SlotInv'
  BY <1>1, <1>2, <1>3, <1>10, <1>18, Zenon DEF SlotInv
<1>21. EntryInv(target)'
  <2>1. job'.phase # "none"
    BY <1>10
  <2> QED
    BY <1>1, <1>2, <1>3, <1>4, <1>10, <1>14, <2>1, EntriesStand
<1>22. LiveInv' /\ LayerInv(target, layer)'
  BY <1>1, <1>2, <1>3, <1>10, LiveStands, LayersStand
<1> QED
  BY <1>12, <1>15, <1>16, <1>19, <1>20, <1>21, <1>22, Zenon DEF HookInv

(* The instructions of an inline entry say what they should: the link      *)
(* register is kept and taken back, and the branches reach.                *)
LEMMA LinkKept ==
    /\ Means(SturUnscaledImmediate(LR, SP, -16)) = <<"str", LR, SP, "unscaled", -16>>
    /\ Means(LdurUnscaledImmediate(LR, SP, -16)) = <<"ldr", LR, SP, "unscaled", -16>>
<1>1. /\ LR = <<1, 30>> /\ SP = <<1, 31>> /\ LR \in Registers /\ SP \in Registers
      /\ Is64(LR) = 1 /\ Index(LR) = 30 /\ Is64(SP) = 1 /\ Index(SP) = 31
  BY DEF LR, SP, X, Registers, Is64, Index
<1>2. OrZero(1, 30) = LR /\ OrSp(1, 31) = SP
  BY <1>1 DEF OrZero, OrSp
<1>3. Signed9(-16) = -16
  BY DEF Signed9
<1>4. /\ Means(LoadStoreRegisterUnscaledImmediate(0, -16, SP, LR))
           = <<"str", OrZero(1, 30), OrSp(1, 31), "unscaled", Signed9(-16)>>
      /\ Means(LoadStoreRegisterUnscaledImmediate(1, -16, SP, LR))
           = <<"ldr", OrZero(1, 30), OrSp(1, 31), "unscaled", Signed9(-16)>>
  BY <1>1, UnscaledIntent
<1> QED
  BY <1>2, <1>3, <1>4, Zenon DEF SturUnscaledImmediate, LdurUnscaledImmediate

LEMMA BranchPlaced ==
    ASSUME NEW here \in Int, NEW there \in Int, here - there < 2^25, there - here < 2^25, NEW a \in Int
    PROVE  /\ Placed(Branch(4 * (there - here)), a) = <<"b", a + (there - here)>>
           /\ Placed(BranchLink(4 * (there - here)), a) = <<"bl", a + (there - here)>>
<1>1. PICK r : r = 4 * (there - here)
  OBVIOUS
<1>2. r \in Int /\ r % 4 = 0 /\ -2^27 <= r /\ r < 2^27 /\ r \div 4 = there - here
  BY <1>1
<1>3. Means(UnconditionalBranchImmediate(0, r)) = <<"b", r>>
  BY <1>2, BranchIntent
<1>4. Means(UnconditionalBranchImmediate(1, r)) = <<"bl", r>>
  BY <1>2, BranchIntent
<1> QED
  BY <1>1, <1>2, <1>3, <1>4 DEF Placed, Branch, BranchLink

LEMMA EntryMade ==
    ASSUME NEW h \in Hooks, NEW e \in Nat, \A k \in 0 .. 5 : e + k \in EntryWords,
           NEW a \in PoolWords
    PROVE  /\ DOMAIN InlineEntry(h, e, a) = 0 .. 4
           /\ InlineEntry(h, e, a)[0] = <<"push">>
           /\ InlineEntry(h, e, a)[1] = <<"bl", Impl>>
           /\ InlineEntry(h, e, a)[2] = <<"pop">>
           /\ InlineEntry(h, e, a)[3] = <<"b", a + 1>>
           /\ InlineEntry(h, e, a)[4] = <<"data", Callback[h]>>
<1>1. e + 1 \in EntryWords /\ e + 2 \in EntryWords
  OBVIOUS
<1>2. a \in Int /\ Impl \in Int /\ e + 1 \in Int /\ e + 2 \in Int /\ e + 3 \in Int
  BY PoolAssumption, PlacesAssumption DEF PoolWords
<1>3. (e + 1) - Impl < 2^25 /\ Impl - (e + 1) < 2^25
  BY <1>1, ReachAssumption
<1>4. (e + 2) - a < 2^25 /\ a - (e + 2) < 2^25
  BY <1>1, ReachAssumption
<1>5. Placed(BranchLink(4 * (Impl - (e + 1))), e + 1) = <<"bl", Impl>>
  <2>1. Placed(BranchLink(4 * (Impl - (e + 1))), e + 1) = <<"bl", (e + 1) + (Impl - (e + 1))>>
    BY <1>2, <1>3, BranchPlaced
  <2>2. (e + 1) + (Impl - (e + 1)) = Impl
    BY <1>2
  <2> QED
    BY <2>1, <2>2
<1>6. Placed(Branch(4 * (a - (e + 2))), e + 3) = <<"b", a + 1>>
  <2>1. Placed(Branch(4 * (a - (e + 2))), e + 3) = <<"b", (e + 3) + (a - (e + 2))>>
    BY <1>2, <1>4, BranchPlaced
  <2>2. (e + 3) + (a - (e + 2)) = a + 1
    BY <1>2
  <2> QED
    BY <2>1, <2>2
<1>7. PICK w0, w1, w2, w3 :
        /\ w0 = IF Means(SturUnscaledImmediate(LR, SP, -16)) = <<"str", LR, SP, "unscaled", -16>>
                THEN <<"push">> ELSE <<"none">>
        /\ w1 = Placed(BranchLink(4 * (Impl - (e + 1))), e + 1)
        /\ w2 = IF Means(LdurUnscaledImmediate(LR, SP, -16)) = <<"ldr", LR, SP, "unscaled", -16>>
                THEN <<"pop">> ELSE <<"none">>
        /\ w3 = Placed(Branch(4 * (a - (e + 2))), e + 3)
  OBVIOUS
<1>8. InlineEntry(h, e, a) = [k \in 0 .. 4 |->
         CASE k = 0 -> w0 [] k = 1 -> w1 [] k = 2 -> w2 [] k = 3 -> w3 [] k = 4 -> <<"data", Callback[h]>>]
  BY <1>7 DEF InlineEntry
<1>9. w0 = <<"push">> /\ w2 = <<"pop">>
  BY <1>7, LinkKept, Zenon
<1> QED
  BY <1>5, <1>6, <1>7, <1>8, <1>9

(* The step that ends an installation: one more layer.                     *)
LEMMA LinkKeeps ==
    ASSUME NEW target, NEW layer, NEW written, HookInv(target, layer, written), PoolInv, Link
    PROVE  \E after : HookInv(target, after, 0)'
<1>1. /\ LiveInv /\ JobInv(target, written) /\ LayerInv(target, layer) /\ SlotInv
      /\ FunctionInv(target, layer, written) /\ TrampolineInv(target, layer) /\ EntryInv(target)
      /\ code = [a \in CodeWords |-> code[a]]
  BY Zenon DEF HookInv
<1>2. PICK f, h, t, a0 : f = job.func /\ h = job.hook /\ t = target[job.hook] /\ a0 = job.tramp
  OBVIOUS
<1>3. /\ job.phase = "link"
      /\ index' = index /\ s_EntryIndex' = s_EntryIndex /\ tried' = tried /\ job' = NoJob
      /\ OrigRef' = [OrigRef EXCEPT ![h] = a0] /\ live' = [live EXCEPT ![f] = Append(@, h)]
      /\ code' = IF Kind[h] # "inline" THEN code
                 ELSE [a \in DOMAIN code |->
                         IF a - job.entry \in DOMAIN InlineEntry(h, job.entry, a0)
                         THEN InlineEntry(h, job.entry, a0)[a - job.entry] ELSE code[a]]
  BY <1>2, Zenon DEF Link
<1>4. /\ h \in Hooks /\ h \in tried /\ f \in Functions /\ Target(job) = t
      /\ written = JumpLength(f, t)
  BY <1>1, <1>2, <1>3 DEF JobInv
<1>5. PICK n \in Nat : n = Len(live[f])
  BY <1>1, <1>4, LiveLengths
<1>6. /\ live \in [Functions -> Seq(Hooks)]
      /\ \A x, g \in Functions : \A i \in 1 .. Len(live[x]), j \in 1 .. Len(live[g]) :
            live[x][i] = live[g][j] => x = g /\ i = j
      /\ \A g \in Functions : \A i \in 1 .. Len(live[g]) :
            live[g][i] \in tried /\ live[g][i] # h
      /\ tried \subseteq Hooks
  BY <1>1, <1>2, Zenon DEF LiveInv
<1>7. /\ Len(live'[f]) = n + 1 /\ live'[f][n + 1] = h
      /\ \A i \in 1 .. n : live'[f][i] = live[f][i]
      /\ \A g \in Functions : g # f => live'[g] = live[g]
      /\ live' \in [Functions -> Seq(Hooks)]
  <2>1. live[f] \in Seq(Hooks) /\ live'[f] = Append(live[f], h)
    BY <1>3, <1>4, <1>6
  <2>2. \A g \in Functions : g # f => live'[g] = live[g]
    BY <1>3, <1>6
  <2>3. live' \in [Functions -> Seq(Hooks)]
    <3>1. Append(live[f], h) \in Seq(Hooks)
      BY <1>4, <2>1
    <3> QED
      BY <1>3, <1>6, <3>1
  <2> QED
    BY <1>4, <1>5, <2>1, <2>2, <2>3
<1>8. ASSUME NEW g \in Functions, NEW i \in 1 .. Len(live'[g])
      PROVE  \/ g = f /\ i = n + 1 /\ live'[g][i] = h
             \/ i \in 1 .. Len(live[g]) /\ live'[g][i] = live[g][i] /\ live[g][i] # h
                /\ (g = f => i \in 1 .. n)
  <2>1. CASE g = f /\ i = n + 1
    BY <1>7, <2>1
  <2>2. CASE g = f /\ i # n + 1
    <3>1. i \in 1 .. n
      BY <1>5, <1>7, <2>2
    <3> QED
      BY <1>5, <1>6, <1>7, <2>2, <3>1
  <2>3. CASE g # f
    BY <1>6, <1>7, <2>3
  <2> QED
    BY <2>1, <2>2, <2>3
<1>9. NoJob.hook = 0 /\ NoJob.func = 0 /\ NoJob.phase = "none" /\ NoJob.tramp = 0
  BY DEF NoJob
<1>10. job'.hook = 0 /\ job'.func = 0 /\ job'.phase = "none" /\ job'.tramp = 0
  BY <1>3, <1>9
<1>11. ~GivenOne' /\ ~HasTrampoline'
  BY <1>10 DEF GivenOne, HasTrampoline
<1>12. LiveInv'
  <2>1. ASSUME NEW x \in Functions, NEW g \in Functions, NEW i \in 1 .. Len(live'[x]),
               NEW j \in 1 .. Len(live'[g]), live'[x][i] = live'[g][j]
        PROVE  x = g /\ i = j
    <3>1. \/ x = f /\ i = n + 1 /\ live'[x][i] = h
          \/ i \in 1 .. Len(live[x]) /\ live'[x][i] = live[x][i] /\ live[x][i] # h
      BY <1>8
    <3>2. \/ g = f /\ j = n + 1 /\ live'[g][j] = h
          \/ j \in 1 .. Len(live[g]) /\ live'[g][j] = live[g][j] /\ live[g][j] # h
      BY <1>8
    <3>3. CASE live'[x][i] = h
      BY <2>1, <3>1, <3>2, <3>3
    <3>4. CASE live'[x][i] # h
      <4>1. i \in 1 .. Len(live[x]) /\ j \in 1 .. Len(live[g]) /\ live[x][i] = live[g][j]
        BY <2>1, <3>1, <3>2, <3>4
      <4> QED
        BY <1>6, <4>1
    <3> QED
      BY <3>3, <3>4
  <2>2. ASSUME NEW g \in Functions, NEW i \in 1 .. Len(live'[g])
        PROVE  live'[g][i] \in tried' /\ live'[g][i] # job'.hook
    <3>1. live'[g][i] \in tried
      <4>1. CASE live'[g][i] = h
        BY <1>4, <4>1
      <4>2. CASE live'[g][i] # h
        <5>1. i \in 1 .. Len(live[g]) /\ live'[g][i] = live[g][i]
          BY <1>8, <4>2
        <5> QED
          BY <1>6, <5>1, Zenon
      <4> QED
        BY <4>1, <4>2
    <3>2. live'[g][i] # 0
      BY <1>6, <3>1, HooksAssumption
    <3> QED
      BY <1>3, <1>10, <3>1, <3>2
  <2> QED
    BY <1>3, <1>6, <1>7, <2>1, <2>2, Zenon DEF LiveInv
<1>13. JobInv(target, 0)'
  BY <1>3, <1>10 DEF JobInv, JobShaped, NoJob
<1>14. PICK after : after =
         [g \in Functions |->
            IF g # f THEN layer[g]
            ELSE [i \in 0 .. n + 1 |-> IF i = n + 1 THEN [k \in 0 .. 4 |-> code[f + k]] ELSE layer[f][i]]]
  OBVIOUS
<1>15. /\ \A g \in Functions : g # f => after[g] = layer[g]
       /\ \A i \in 0 .. n : after[f][i] = layer[f][i]
       /\ \A k \in 0 .. 4 : after[f][n + 1][k] = code[f + k]
  <2>1. after[f] = [i \in 0 .. n + 1 |-> IF i = n + 1 THEN [k \in 0 .. 4 |-> code[f + k]] ELSE layer[f][i]]
    BY <1>4, <1>14, Zenon
  <2>2. after[f][n + 1] = [k \in 0 .. 4 |-> code[f + k]]
    BY <1>5, <2>1
  <2>3. \A i \in 0 .. n : after[f][i] = layer[f][i]
    BY <1>5, <2>1
  <2>4. \A g \in Functions : g # f => after[g] = layer[g]
    BY <1>14, Zenon
  <2> QED
    BY <2>2, <2>3, <2>4
<1>16. ASSUME NEW g \in Functions, NEW i \in 1 .. Len(live'[g])
       PROVE  after[g][i - 1] = layer[g][i - 1] /\ (g = f /\ i = n + 1 => i - 1 = Len(live[f]))
  <2>1. CASE g = f
    <3>1. i - 1 \in 0 .. n
      BY <1>5, <1>7, <2>1
    <3> QED
      BY <1>5, <1>15, <2>1, <3>1
  <2>2. CASE g # f
    BY <1>15, <2>2
  <2> QED
    BY <2>1, <2>2
<1>17. LayerInv(target, after)'
  <2>1. ASSUME NEW g \in Functions, NEW k \in 0 .. 4 PROVE after[g][0][k] = <<"orig", g, k>>
    <3>1. after[g][0] = layer[g][0]
      BY <1>5, <1>15
    <3> QED
      BY <1>1, <3>1, Zenon DEF LayerInv
  <2>2. ASSUME NEW g \in Functions, NEW i \in 1 .. Len(live'[g]), NEW k \in 0 .. 4
        PROVE  after[g][i][k] = IF k < JumpLength(g, target[live'[g][i]])
                                THEN JumpWord(g, target[live'[g][i]], k) ELSE after[g][i - 1][k]
    <3>1. CASE g = f /\ i = n + 1
      <4>1. live'[g][i] = h
        BY <1>7, <3>1
      <4>2. after[g][i][k] = code[f + k]
        BY <1>15, <3>1
      <4>3. code[f + k] = IF k < written THEN JumpWord(f, t, k) ELSE layer[f][n][k]
        BY <1>1, <1>2, <1>4, <1>5, Zenon DEF FunctionInv
      <4>4. after[g][i - 1] = layer[f][n]
        BY <1>5, <1>16, <3>1
      <4> QED
        BY <1>2, <1>4, <3>1, <4>1, <4>2, <4>3, <4>4, Zenon
    <3>2. CASE ~(g = f /\ i = n + 1)
      <4>1. i \in 1 .. Len(live[g]) /\ live'[g][i] = live[g][i] /\ (g = f => i \in 1 .. n)
        BY <1>8, <3>2
      <4>2. after[g][i] = layer[g][i]
        BY <1>5, <1>15, <4>1
      <4>3. after[g][i - 1] = layer[g][i - 1]
        BY <1>16
      <4>4. layer[g][i][k] = IF k < JumpLength(g, target[live[g][i]])
                             THEN JumpWord(g, target[live[g][i]], k) ELSE layer[g][i - 1][k]
        BY <1>1, <4>1, Zenon DEF LayerInv
      <4> QED
        BY <4>1, <4>2, <4>3, <4>4, Zenon
    <3> QED
      BY <3>1, <3>2
  <2> QED
    BY <2>1, <2>2, Zenon DEF LayerInv
<1>18. a0 \in Nat /\ (Kind[h] # "replace" => a0 # 0 /\ a0 = HookPool + TrampolineSize * index
                                            /\ index \in Nat /\ HasTrampoline)
       /\ (Kind[h] = "replace" => a0 = 0 /\ ~HasTrampoline)
  <2>1. CASE Kind[h] = "replace"
    <3>1. ~GivenOne /\ ~HasTrampoline
      BY <1>2, <1>3, <2>1 DEF GivenOne, HasTrampoline
    <3> QED
      BY <1>1, <1>2, <2>1, <3>1 DEF SlotInv
  <2>2. CASE Kind[h] # "replace"
    <3>1. GivenOne /\ HasTrampoline
      BY <1>2, <1>3, <2>2 DEF GivenOne, HasTrampoline
    <3>2. index \in Nat /\ a0 = HookPool + TrampolineSize * index
      BY <1>1, <1>2, <3>1 DEF SlotInv, PoolInv
    <3>3. TrampolineSize * index \in Nat
      BY <3>2, PoolAssumption
    <3> QED
      BY <2>2, <3>1, <3>2, <3>3, PoolAssumption
  <2> QED
    BY <2>1, <2>2
<1>19. /\ OrigRef \in [Hooks -> Nat] /\ OrigRef' \in [Hooks -> Nat] /\ OrigRef'[h] = a0
       /\ \A g \in Hooks : g # h => OrigRef'[g] = OrigRef[g]
       /\ OrigRef[h] = 0
  <2>1. OrigRef \in [Hooks -> Nat] /\ OrigRef[h] = 0
    BY <1>1, <1>2, <1>4, Zenon DEF SlotInv
  <2> QED
    BY <1>3, <1>4, <1>18, <2>1
(* The entry of an inline hook.                                            *)
<1>20. PICK e : e = job.entry
  OBVIOUS
<1>21. ASSUME Kind[h] = "inline"
       PROVE  /\ e = t /\ e \in Nat /\ t # -1
              /\ \A k \in 0 .. 5 : e + k \in EntryWords /\ e + k \in CodeWords
              /\ \A k \in 0 .. 4 : code'[e + k] = InlineEntry(h, e, a0)[k]
              /\ \A a \in CodeWords : ~(a \in e .. e + 4) => code'[a] = code[a]
              /\ \A a \in e .. e + 4 : a \in EntryWords
              /\ DOMAIN InlineEntry(h, e, a0) = 0 .. 4
              /\ code' = [a \in CodeWords |-> code'[a]]
              /\ a0 \in PoolWords
  <2>1. e = t
    BY <1>2, <1>4, <1>20, <1>21, Zenon DEF Target
  <2>2. t # -1
    BY <1>1, <1>2, <1>3, <1>21 DEF EntryInv
  <2>3. e \in Nat /\ \A k \in 0 .. 5 : e + k \in EntryWords /\ e + k \in CodeWords
    BY <1>1, <1>2, <1>4, <1>21, <2>1, <2>2, EntryWhere
  <2>4. a0 \in PoolWords
    <3>1. HasTrampoline
      BY <1>18, <1>21
    <3>2. Count(f, t) \in Nat
      BY CountOfWords
    <3>3. 0 \in 0 .. Count(f, t) /\ a0 + 0 = a0
      BY <1>18, <3>2
    <3>4. Trampoline(f, t, layer[f][Len(live[f])], a0)
      BY <1>1, <1>2, <3>1, Zenon DEF TrampolineInv
    <3>5. a0 + 0 \in PoolWords
      BY <3>3, <3>4, Zenon DEF Trampoline
    <3> QED
      BY <3>3, <3>5
  <2>5. PICK words : words = InlineEntry(h, e, a0)
    OBVIOUS
  <2>6. DOMAIN words = 0 .. 4
    <3>1. \A k \in 0 .. 5 : e + k \in EntryWords
      BY <2>3
    <3>2. e \in Nat
      BY <2>3
    <3> QED
      BY <1>4, <2>4, <2>5, <3>1, <3>2, EntryMade, Zenon
  <2>7. code' = [a \in CodeWords |-> IF a - e \in 0 .. 4 THEN words[a - e] ELSE code[a]]
    <3>1. DOMAIN code = CodeWords
      BY <1>1
    <3> QED
      BY <1>3, <1>20, <1>21, <2>5, <2>6, <3>1
  <2>8. \A k \in 0 .. 4 : code'[e + k] = words[k]
    <3> SUFFICES ASSUME NEW k \in 0 .. 4 PROVE code'[e + k] = words[k]
      OBVIOUS
    <3>1. (e + k) - e = k /\ k \in 0 .. 5 /\ e + k \in CodeWords
      BY <2>3
    <3> QED
      BY <2>7, <3>1
  <2>9. \A a \in CodeWords : ~(a \in e .. e + 4) => code'[a] = code[a]
    <3> SUFFICES ASSUME NEW a \in CodeWords, ~(a \in e .. e + 4) PROVE code'[a] = code[a]
      OBVIOUS
    <3>1. a \in Int
      BY PlacesAssumption, PoolAssumption, LengthAssumption DEF CodeWords, WordsOf, PoolWords, EntryWords
    <3>2. ~(a - e \in 0 .. 4)
      BY <2>3, <3>1
    <3> QED
      BY <2>7, <3>2
  <2>10. \A a \in e .. e + 4 : a \in EntryWords
    <3> SUFFICES ASSUME NEW a \in e .. e + 4 PROVE a \in EntryWords
      OBVIOUS
    <3>1. a - e \in 0 .. 5 /\ e + (a - e) = a
      BY <2>3
    <3> QED
      BY <2>3, <3>1
  <2> QED
    BY <2>1, <2>2, <2>3, <2>4, <2>5, <2>6, <2>7, <2>8, <2>9, <2>10
<1>22. \A a \in CodeWords : a \notin EntryWords => code'[a] = code[a]
  BY <1>3, <1>21
<1>23. code' = [a \in CodeWords |-> code'[a]]
  BY <1>1, <1>3, <1>21
<1>24. FunctionInv(target, after, 0)'
  <2>1. ASSUME NEW g \in Functions, NEW k \in 0 .. 4
        PROVE  code'[g + k] = after[g][Len(live'[g])][k]
    <3>1. code'[g + k] = code[g + k]
      BY <1>22, FirstPlaces
    <3>2. CASE g = f
      BY <1>7, <1>15, <3>1, <3>2
    <3>3. CASE g # f
      <4>1. code[g + k] = layer[g][Len(live[g])][k]
        BY <1>1, <1>2, <3>3, Zenon DEF FunctionInv
      <4> QED
        BY <1>7, <1>15, <3>1, <3>3, <4>1
    <3> QED
      BY <3>2, <3>3
  <2>2. ASSUME NEW g \in Functions, NEW k \in 5 .. Length[g] - 1
        PROVE  code'[g + k] = <<"orig", g, k>>
    <3>1. k \in 0 .. Length[g] - 1
      BY LengthAssumption
    <3>2. code'[g + k] = code[g + k]
      BY <1>22, <3>1, FunctionPlaces
    <3> QED
      BY <1>1, <3>2, Zenon DEF FunctionInv
  <2>3. \A k \in 0 .. 4 : ~(k < 0)
    OBVIOUS
  <2> QED
    BY <2>1, <2>2, <2>3, Zenon DEF FunctionInv
<1>25. TrampolineInv(target, after)'
  <2>1. ASSUME NEW g, NEW u, NEW w, NEW a, Trampoline(g, u, w, a)
        PROVE  Trampoline(g, u, w, a)'
    <3>1. \A k \in 0 .. Count(g, u) : a + k \in PoolWords
      BY <2>1, Zenon DEF Trampoline
    <3>2. PoolWords \cap EntryWords = {}
      BY PlacesAssumption, Zenon
    <3>3. \A k \in 0 .. Count(g, u) : code'[a + k] = code[a + k]
      BY <1>22, <3>1, <3>2, Zenon DEF CodeWords
    <3> QED
      BY <2>1, <3>3, SameTrampoline
  <2>2. ASSUME NEW g \in Functions, NEW i \in 1 .. Len(live'[g]), Kind[live'[g][i]] # "replace"
        PROVE  OrigRef'[live'[g][i]] # 0 /\
               \E a, u, w : /\ a = OrigRef'[live'[g][i]] /\ u = target[live'[g][i]]
                            /\ w = after[g][i - 1] /\ Trampoline(g, u, w, a)
    <3>1. CASE g = f /\ i = n + 1
      <4>1. live'[g][i] = h
        BY <1>7, <3>1
      <4>2. Kind[h] # "replace"
        BY <2>2, <4>1
      <4>3. a0 # 0 /\ HasTrampoline /\ OrigRef'[h] = a0
        BY <1>18, <1>19, <4>2
      <4>4. Trampoline(f, t, layer[f][Len(live[f])], a0)
        BY <1>1, <1>2, <4>3, Zenon DEF TrampolineInv
      <4>5. after[g][i - 1] = layer[f][Len(live[f])]
        BY <1>16, <3>1
      <4> QED
        BY <1>2, <3>1, <4>1, <4>3, <4>4, <4>5, Zenon
    <3>2. CASE ~(g = f /\ i = n + 1)
      <4>1. i \in 1 .. Len(live[g]) /\ live'[g][i] = live[g][i] /\ live[g][i] # h
        BY <1>8, <3>2
      <4>2. live[g][i] \in Hooks
        BY <1>1, <4>1, LiveLengths
      <4>3. OrigRef'[live[g][i]] = OrigRef[live[g][i]]
        BY <1>19, <4>1, <4>2
      <4>4. OrigRef[live[g][i]] # 0 /\
            Trampoline(g, target[live[g][i]], layer[g][i - 1], OrigRef[live[g][i]])
        BY <1>1, <2>2, <4>1, Zenon DEF TrampolineInv
      <4>5. after[g][i - 1] = layer[g][i - 1]
        BY <1>16
      <4> QED
        BY <4>1, <4>3, <4>4, <4>5, Zenon
    <3> QED
      BY <3>1, <3>2
  <2>3. ASSUME NEW g \in Functions, NEW i \in 1 .. Len(live'[g]), Kind[live'[g][i]] # "replace"
        PROVE  (OrigRef[live[g][i]] # 0 /\
                Trampoline(g, target[live[g][i]], after[g][i - 1], OrigRef[live[g][i]]))'
    <3>1. PICK a, u, w : /\ a = OrigRef'[live'[g][i]] /\ u = target[live'[g][i]]
                         /\ w = after[g][i - 1] /\ Trampoline(g, u, w, a) /\ a # 0
      BY <2>2, <2>3, Zenon
    <3>2. Trampoline(g, u, w, a)'
      BY <2>1, <3>1
    <3> QED
      BY <3>1, <3>2, Zenon
  <2> QED
    BY <1>11, <2>3, Zenon DEF TrampolineInv
<1>26. SlotInv'
  <2>1. ASSUME NEW g \in Hooks, OrigRef'[g] # 0
        PROVE  /\ g \in tried' /\ g # job'.hook
               /\ \E s \in 0 .. index' : OrigRef'[g] = HookPool + TrampolineSize * s
    <3>1. g # job'.hook
      BY <1>10, HooksAssumption
    <3>2. CASE g = h
      <4>1. a0 # 0
        BY <1>19, <2>1, <3>2
      <4>2. a0 = HookPool + TrampolineSize * index /\ index \in 0 .. index'
        BY <1>3, <1>18, <4>1
      <4> QED
        BY <1>3, <1>4, <1>19, <3>1, <3>2, <4>2, Zenon
    <3>3. CASE g # h
      BY <1>1, <1>3, <1>19, <2>1, <3>1, <3>3, Zenon DEF SlotInv
    <3> QED
      BY <3>2, <3>3
  <2>2. ASSUME NEW g \in Hooks, g # h, OrigRef'[g] # 0
        PROVE  OrigRef'[g] # OrigRef'[h]
    <3>1. CASE a0 = 0
      BY <1>19, <2>2, <3>1
    <3>2. CASE a0 # 0
      <4>1. a0 = HookPool + TrampolineSize * index /\ index \in Nat /\ HasTrampoline
        BY <1>18, <3>2
      <4>2. PICK s \in 0 .. index : OrigRef[g] = HookPool + TrampolineSize * s /\ s < index
        BY <1>1, <1>19, <2>2, <4>1, Zenon DEF SlotInv, GivenOne
      <4>3. s \in Nat /\ 0 \in 0 .. 5
        BY <4>2
      <4>4. HookPool + TrampolineSize * s + 0 < HookPool + TrampolineSize * index
        BY <4>1, <4>2, <4>3, TrampolinesApart
      <4>5. OrigRef[g] \in Nat /\ a0 \in Nat /\ OrigRef[g] + 0 < a0
        BY <1>18, <1>19, <4>1, <4>2, <4>4
      <4> QED
        BY <1>19, <2>2, <4>5
    <3> QED
      BY <3>1, <3>2
  <2>3. ASSUME NEW g1 \in Hooks, NEW g2 \in Hooks, OrigRef'[g1] # 0, OrigRef'[g1] = OrigRef'[g2]
        PROVE  g1 = g2
    <3>1. CASE g1 = h \/ g2 = h
      BY <2>2, <2>3, <3>1
    <3>2. CASE g1 # h /\ g2 # h
      BY <1>1, <1>19, <2>3, <3>2, ZenonT(60) DEF SlotInv
    <3> QED
      BY <3>1, <3>2
  <2> QED
    BY <1>10, <1>11, <1>19, <2>1, <2>3, Zenon DEF SlotInv
<1>27. EntryInv(target)'
  <2>1. ASSUME NEW g \in Hooks, g # h, Kind[g] = "inline", target[g] # -1, Entry(g, target[g])
        PROVE  Entry(g, target[g])'
    <3>1. PICK a : a = target[g]
      OBVIOUS
    <3>2. a \in Nat /\ \A k \in 0 .. 5 : a + k \in EntryWords /\ a + k \in CodeWords
      BY <1>1, <2>1, <3>1, EntryWhere
    <3>3. \A k \in 0 .. 4 : code'[a + k] = code[a + k]
      <4>1. CASE Kind[h] # "inline"
        BY <1>3, <4>1
      <4>2. CASE Kind[h] = "inline"
        <5>1. /\ e = t /\ e \in Nat /\ t # -1
              /\ \A b \in CodeWords : ~(b \in e .. e + 4) => code'[b] = code[b]
          BY <1>21, <4>2
        <5>2. PICK d \in 0 .. s_EntryIndex - 1 : e = InlinePool + EntrySize * d
          BY <1>1, <1>2, <1>4, <4>2, <5>1, EntryWhere
        <5>3. PICK c \in 0 .. s_EntryIndex - 1 : a = InlinePool + EntrySize * c
          BY <1>1, <2>1, <3>1, EntryWhere
        <5>4. a # e
          BY <1>1, <1>2, <1>4, <2>1, <3>1, <4>2, <5>1, Zenon DEF EntryInv
        <5>5. c # d /\ c \in Nat /\ d \in Nat
          BY <5>2, <5>3, <5>4
        <5> SUFFICES ASSUME NEW k \in 0 .. 4 PROVE code'[a + k] = code[a + k]
          OBVIOUS
        <5>6. ~(a + k \in e .. e + 4)
          BY <5>1, <5>2, <5>3, <5>5, PoolAssumption DEF EntrySize
        <5>7. a + k \in CodeWords
          BY <3>2
        <5> QED
          BY <5>1, <5>6, <5>7
      <4> QED
        BY <4>1, <4>2
    <3>4. OrigRef'[g] = OrigRef[g]
      BY <1>19, <2>1
    <3>5. Entry(g, a)'
      BY <2>1, <3>1, <3>2, <3>3, <3>4, SameEntry
    <3> QED
      BY <3>1, <3>5
  <2>2. ASSUME Kind[h] = "inline"
        PROVE  Entry(h, t)'
    <3>1. /\ e = t /\ e \in Nat /\ a0 \in PoolWords
          /\ \A k \in 0 .. 5 : e + k \in EntryWords
          /\ \A k \in 0 .. 4 : code'[e + k] = InlineEntry(h, e, a0)[k]
      BY <1>21, <2>2
    <3>2. /\ code'[e + 0] = InlineEntry(h, e, a0)[0] /\ code'[e + 1] = InlineEntry(h, e, a0)[1]
          /\ code'[e + 2] = InlineEntry(h, e, a0)[2] /\ code'[e + 3] = InlineEntry(h, e, a0)[3]
          /\ code'[e + 4] = InlineEntry(h, e, a0)[4] /\ e + 0 = e
      BY <3>1
    <3>3. /\ InlineEntry(h, e, a0)[0] = <<"push">> /\ InlineEntry(h, e, a0)[1] = <<"bl", Impl>>
          /\ InlineEntry(h, e, a0)[2] = <<"pop">> /\ InlineEntry(h, e, a0)[3] = <<"b", a0 + 1>>
          /\ InlineEntry(h, e, a0)[4] = <<"data", Callback[h]>>
      BY <1>4, <3>1, EntryMade, Zenon
    <3> QED
      BY <1>19, <3>1, <3>2, <3>3, Zenon DEF Entry
  <2>3. ASSUME NEW g \in Functions, NEW i \in 1 .. Len(live'[g]), Kind[live'[g][i]] = "inline"
        PROVE  (target[live[g][i]] # -1 /\ Entry(live[g][i], target[live[g][i]]))'
    <3>1. CASE live'[g][i] = h
      <4>1. Kind[h] = "inline"
        BY <2>3, <3>1
      <4>2. t # -1 /\ Entry(h, t)'
        BY <1>21, <2>2, <4>1
      <4> QED
        BY <1>2, <3>1, <4>2, Zenon
    <3>2. CASE live'[g][i] # h
      <4>1. i \in 1 .. Len(live[g]) /\ live'[g][i] = live[g][i]
        BY <1>8, <3>2
      <4>2. live[g][i] \in Hooks
        BY <1>1, <4>1, LiveLengths
      <4>3. PICK x : x = live[g][i]
        OBVIOUS
      <4>4. x \in Hooks /\ x # h /\ Kind[x] = "inline" /\ target[x] # -1 /\ Entry(x, target[x])
        BY <1>1, <2>3, <3>2, <4>1, <4>2, <4>3, Zenon DEF EntryInv
      <4>5. Entry(x, target[x])'
        BY <2>1, <4>4
      <4> QED
        BY <4>1, <4>3, <4>4, <4>5, Zenon
    <3> QED
      BY <3>1, <3>2
  <2>4. ASSUME NEW c \in s_EntryIndex' .. InlinePoolCount - 1
        PROVE  code'[InlinePool + EntrySize * c] = <<"none">>
    <3>1. c \in s_EntryIndex .. InlinePoolCount - 1 /\ c \in Nat
      BY <1>3 DEF PoolInv
    <3>2. code[InlinePool + EntrySize * c] = <<"none">>
      BY <1>1, <3>1, Zenon DEF EntryInv
    <3>3. CASE Kind[h] # "inline"
      BY <1>3, <3>2, <3>3
    <3>4. CASE Kind[h] = "inline"
      <4>1. /\ e = t /\ e \in Nat /\ t # -1
            /\ \A b \in CodeWords : ~(b \in e .. e + 4) => code'[b] = code[b]
        BY <1>21, <3>4
      <4>2. PICK d \in 0 .. s_EntryIndex - 1 : e = InlinePool + EntrySize * d
        BY <1>1, <1>2, <1>4, <3>4, <4>1, EntryWhere
      <4>3. PICK a : a = InlinePool + EntrySize * c
        OBVIOUS
      <4>4. ~(a \in e .. e + 4)
        BY <3>1, <4>1, <4>2, <4>3, PoolAssumption DEF EntrySize, PoolInv
      <4>5. a \in CodeWords
        <5>1. c \in 0 .. InlinePoolCount - 1 /\ 0 \in 0 .. 5
          BY <3>1
        <5>2. InlinePool + EntrySize * c + 0 \in CodeWords
          BY <5>1, EntryPlaces, Zenon
        <5>3. InlinePool + EntrySize * c + 0 = a
          BY <3>1, <4>3, PoolAssumption DEF EntrySize
        <5> QED
          BY <5>2, <5>3
      <4> QED
        BY <3>2, <4>1, <4>3, <4>4, <4>5
    <3> QED
      BY <3>3, <3>4
  <2>5. /\ target \in [Hooks -> Int]
        /\ \A g \in Hooks : Kind[g] # "inline" => target[g] = Callback[g]
        /\ \A g \in Hooks : Kind[g] = "inline" /\ target[g] # -1 =>
              g \in tried /\ \E c \in 0 .. s_EntryIndex - 1 : target[g] = InlinePool + EntrySize * c
        /\ \A g, x \in Hooks : /\ Kind[g] = "inline" /\ Kind[x] = "inline"
                               /\ target[g] # -1 /\ target[g] = target[x]
                               => g = x
    BY <1>1, Zenon DEF EntryInv
  <2> QED
    BY <1>3, <1>10, <2>3, <2>4, <2>5, Zenon DEF EntryInv
<1> QED
  BY <1>12, <1>13, <1>17, <1>23, <1>24, <1>25, <1>26, <1>27, Zenon DEF HookInv

LEMMA HookNextKeepsCode ==
    ASSUME CodeInv, HookNext
    PROVE  CodeInv'
<1>1. PoolInv /\ PoolInv'
  BY HookNextKeepsPools DEF CodeInv
<1>2. status = "running"
  BY Zenon DEF HookNext, Begin, NotFound, AllocForTrampoline, FixInstructions, PatchWord, Link
<1>3. PICK target, layer, written : HookInv(target, layer, written)
  BY <1>2, Zenon DEF CodeInv
<1>4. ASSUME status' = "running"
      PROVE  (\E t, l, w : HookInv(t, l, w))'
  <2>1. ASSUME NEW h \in Hooks, NEW f \in Functions, Begin(h, f)
        PROVE  (\E t, l, w : HookInv(t, l, w))'
    <3>1. \E t : HookInv(t, layer, 0)'
      BY <1>1, <1>3, <1>4, <2>1, BeginKeeps
    <3> QED
      BY <3>1
  <2>2. ASSUME NEW h \in Hooks, NotFound(h)
        PROVE  HookInv(target, layer, written)'
    BY <1>1, <1>3, <2>2, NotFoundKeeps
  <2>3. ASSUME AllocForTrampoline
        PROVE  HookInv(target, layer, written)'
    BY <1>1, <1>3, <1>4, <2>3, AllocKeeps
  <2>4. ASSUME FixInstructions
        PROVE  HookInv(target, layer, 0)'
    BY <1>1, <1>3, <1>4, <2>4, FixKeeps
  <2>5. ASSUME PatchWord
        PROVE  HookInv(target, layer, written + 1)'
    BY <1>1, <1>3, <2>5, PatchKeeps
  <2>6. ASSUME Link
        PROVE  (\E t, l, w : HookInv(t, l, w))'
    <3>1. \E after : HookInv(target, after, 0)'
      BY <1>1, <1>3, <2>6, LinkKeeps
    <3> QED
      BY <3>1
  <2> QED
    BY <2>1, <2>2, <2>3, <2>4, <2>5, <2>6, Zenon DEF HookNext
<1> QED
  BY <1>1, <1>4, Zenon DEF CodeInv

LEMMA CodeInvStands == ASSUME CodeInv, UNCHANGED hookVars PROVE CodeInv'
<1>1. /\ code' = code /\ index' = index /\ s_EntryIndex' = s_EntryIndex /\ OrigRef' = OrigRef
      /\ tried' = tried /\ live' = live /\ job' = job /\ status' = status
  BY DEF hookVars
<1>2. PoolInv'
  <2>1. PoolInv /\ JobShaped'
    BY <1>1 DEF CodeInv, PoolInv, JobShaped
  <2> QED
    BY <1>1, <2>1, RestKeepsPools
<1>3. ASSUME NEW target, NEW layer, NEW written, HookInv(target, layer, written), PoolInv
      PROVE  HookInv(target, layer, written)'
  <2>1. /\ LiveInv /\ JobInv(target, written) /\ LayerInv(target, layer) /\ SlotInv
        /\ FunctionInv(target, layer, written) /\ TrampolineInv(target, layer) /\ EntryInv(target)
        /\ code = [a \in CodeWords |-> code[a]]
    BY <1>3, Zenon DEF HookInv
  <2>2. LiveInv' /\ LayerInv(target, layer)'
    BY <1>1, <2>1, LiveStands, LayersStand
  <2>3. JobInv(target, written)'
    BY <1>1, <2>1 DEF JobInv, JobShaped
  <2>4. FunctionInv(target, layer, written)'
    BY <1>1, <2>1, FunctionsStand
  <2>5. HasTrampoline' <=> HasTrampoline
    BY <1>1 DEF HasTrampoline
  <2>6. TrampolineInv(target, layer)'
    BY <1>1, <2>1, <2>5, TrampolinesStand
  <2>7. SlotInv'
    BY <1>1, <2>1, <2>5 DEF SlotInv, GivenOne
  <2>8. EntryInv(target)'
    <3>1. job.phase # "none" => job.hook \in Hooks
      BY <2>1 DEF JobInv
    <3> QED
      BY <1>1, <1>3, <2>1, <3>1, EntriesStand
  <2>9. code' = [a \in CodeWords |-> code'[a]]
    BY <1>1, <2>1
  <2> QED
    BY <2>2, <2>3, <2>4, <2>6, <2>7, <2>8, <2>9, Zenon DEF HookInv
<1>4. ASSUME status' = "running"
      PROVE  (\E t, l, w : HookInv(t, l, w))'
  <2>1. PICK target, layer, written : HookInv(target, layer, written)
    BY <1>1, <1>4, Zenon DEF CodeInv
  <2>2. HookInv(target, layer, written)'
    BY <1>3, <2>1 DEF CodeInv
  <2> QED
    BY <2>2
<1> QED
  BY <1>2, <1>4, Zenon DEF CodeInv

(* What has been given out stays what it is: in every state each function  *)
(* holds the jumps of its hooks laid one over the other, each trampoline   *)
(* what its hook found there, each inline entry the way to its callback,   *)
(* whatever is installed, in any order, on any functions.                  *)
THEOREM CodeIsWellLaid == Spec => []CodeInv
<1>1. Init => CodeInv
  BY PoolInvInit, CodeInvInit, Zenon DEF Init, CodeInv
<1>2. CodeInv /\ [Next]_vars => CodeInv'
  <2> SUFFICES ASSUME CodeInv, [Next]_vars PROVE CodeInv'
    OBVIOUS
  <2>1. HookNext \/ UNCHANGED hookVars
    BY Zenon DEF Next, vars
  <2> QED
    BY <2>1, HookNextKeepsCode, CodeInvStands
<1> QED
  BY <1>1, <1>2, PTL DEF Spec

----
(* The third part: what a call of a hooked function does.                  *)

(* What a call does: steps of Run, one after the other.                    *)
Reaches(s, m, t) ==
    \E n \in 0 .. m : \E r :
        r[0] = s /\ r[n] = t /\ \A i \in 1 .. n : r[i] = Run(r[i - 1])

LEMMA ReachesAtOnce == ASSUME NEW s, NEW m \in Nat PROVE Reaches(s, m, s)
<1> DEFINE r == [i \in {0} |-> s]
<1>1. r[0] = s
  OBVIOUS
<1>2. \A i \in 1 .. 0 : r[i] = Run(r[i - 1])
  OBVIOUS
<1>3. 0 \in 0 .. m
  OBVIOUS
<1> HIDE DEF r
<1> QED
  BY <1>1, <1>2, <1>3, Zenon DEF Reaches

LEMMA ReachesStep ==
    ASSUME NEW s, NEW m \in Nat, NEW u, NEW t, Run(s) = u, Reaches(u, m, t)
    PROVE  Reaches(s, m + 1, t)
<1>1. PICK n \in 0 .. m : \E r : r[0] = u /\ r[n] = t /\ \A i \in 1 .. n : r[i] = Run(r[i - 1])
  BY Zenon DEF Reaches
<1>6. PICK r : r[0] = u /\ r[n] = t /\ \A i \in 1 .. n : r[i] = Run(r[i - 1])
  BY <1>1
<1> DEFINE q == [i \in 0 .. n + 1 |-> IF i = 0 THEN s ELSE r[i - 1]]
<1>2. n \in Nat /\ n + 1 \in 0 .. m + 1 /\ 0 \in 0 .. n + 1
  BY <1>1
<1>3. q[0] = s
  BY <1>2
<1>4. q[n + 1] = t
  <2>1. PICK k : k = n + 1 /\ k \in 0 .. n + 1 /\ k # 0 /\ k - 1 = n
    BY <1>2
  <2>2. q[k] = r[k - 1]
    BY <2>1, Zenon
  <2> QED
    BY <1>6, <2>1, <2>2
<1>5. ASSUME NEW i \in 1 .. n + 1 PROVE q[i] = Run(q[i - 1])
  <2>1. i \in 0 .. n + 1 /\ i # 0 /\ i - 1 \in 0 .. n + 1
    BY <1>2
  <2>2. q[i] = r[i - 1]
    BY <2>1, Zenon
  <2>3. CASE i = 1
    <3>1. i - 1 = 0
      BY <2>3
    <3> QED
      BY <1>3, <1>6, <2>2, <3>1
  <2>4. CASE i # 1
    <3>1. i - 1 \in 1 .. n /\ i - 1 # 0
      BY <1>2, <2>4
    <3>2. q[i - 1] = r[i - 1 - 1]
      BY <2>1, <3>1, Zenon
    <3> QED
      BY <1>6, <2>2, <3>1, <3>2, Zenon
  <2> QED
    BY <2>3, <2>4
<1> HIDE DEF q
<1> QED
  BY <1>2, <1>3, <1>4, <1>5, Zenon DEF Reaches

LEMMA ReachesLater ==
    ASSUME NEW s, NEW m \in Nat, NEW l \in Nat, m <= l, NEW t, Reaches(s, m, t)
    PROVE  Reaches(s, l, t)
<1>1. \A n \in 0 .. m : n \in 0 .. l
  OBVIOUS
<1> QED
  BY <1>1, Zenon DEF Reaches

LEMMA EndStays == ASSUME NEW s, s.end # "no" PROVE Run(s) = s
BY Zenon DEF Run

(* The steps of a call are there, up to any number.                        *)
Steps(s, m, r) == [n \in 0 .. m |-> IF n = 0 THEN s ELSE Run(r[n - 1])]

LEMMA RunExists ==
    ASSUME NEW s, NEW m \in Nat
    PROVE  \E r : r = Steps(s, m, r)
<1> DEFINE P(l) == \E r : r = [n \in 0 .. l |-> IF n = 0 THEN s ELSE Run(r[n - 1])]
           bad == {l \in Nat : ~P(l)}
<1>1. bad = {}
  <2> SUFFICES ASSUME bad # {} PROVE FALSE
    OBVIOUS
  <2>1. PICK l \in bad : \A x \in bad : l <= x
    <3>1. bad \in SUBSET Nat
      OBVIOUS
    <3> HIDE DEF bad
    <3> QED
      BY <3>1, LeastNatural, Zenon
  <2>2. l \in Nat /\ ~P(l)
    BY <2>1
  <2>3. l # 0
    <3>1. PICK r : r = [n \in 0 .. 0 |-> s]
      OBVIOUS
    <3>2. r = [n \in 0 .. 0 |-> IF n = 0 THEN s ELSE Run(r[n - 1])]
      BY <3>1
    <3>3. P(0)
      BY <3>2
    <3> QED
      BY <2>2, <3>3
  <2>4. l - 1 \in Nat /\ l - 1 \notin bad
    <3>1. l - 1 \in Nat /\ ~(l <= l - 1)
      BY <2>2, <2>3
    <3> HIDE DEF bad
    <3> QED
      BY <2>1, <3>1, Zenon
  <2>5. PICK k \in Nat : k = l - 1 /\ l = k + 1
    BY <2>2, <2>4
  <2>6. P(k)
    BY <2>4, <2>5
  <2> HIDE DEF bad
  <2>7. PICK r : r = [n \in 0 .. k |-> IF n = 0 THEN s ELSE Run(r[n - 1])]
    BY <2>6
  <2>8. PICK q : q = [n \in 0 .. l |-> IF n = 0 THEN s ELSE Run(r[n - 1])]
    OBVIOUS
  <2>9. \A n \in 0 .. l : n # 0 => n - 1 \in 0 .. k /\ n - 1 \in 0 .. l
    BY <2>5
  <2>10. \A n \in 0 .. k : q[n] = r[n]
    <3> SUFFICES ASSUME NEW n \in 0 .. k PROVE q[n] = r[n]
      OBVIOUS
    <3>1. n \in 0 .. l
      BY <2>5
    <3>2. q[n] = IF n = 0 THEN s ELSE Run(r[n - 1])
      BY <2>8, <3>1, Zenon
    <3>3. r[n] = IF n = 0 THEN s ELSE Run(r[n - 1])
      BY <2>7, Zenon
    <3> QED
      BY <3>2, <3>3
  <2>11. \A n \in 0 .. l : (IF n = 0 THEN s ELSE Run(r[n - 1])) = (IF n = 0 THEN s ELSE Run(q[n - 1]))
    BY <2>9, <2>10, Zenon
  <2>12. q = [n \in 0 .. l |-> IF n = 0 THEN s ELSE Run(q[n - 1])]
    BY <2>8, <2>11, Zenon
  <2> QED
    BY <2>2, <2>12, Zenon
<1>2. P(m)
  BY <1>1
<1> QED
  BY <1>2, Zenon DEF Steps

(* A call that comes to an end within its bound is what it came to.        *)
LEMMA CallEnds ==
    ASSUME NEW f \in Functions, Len(live[f]) \in Nat, NEW m \in Nat, m <= MaxSteps(f),
           NEW t, t.end # "no", Reaches(Start(f), m, t)
    PROVE  Call(f) = t
<1>1. PICK max \in Nat : max = MaxSteps(f)
  BY LengthAssumption DEF MaxSteps
<1>2. PICK s : s = Start(f)
  OBVIOUS
<1> DEFINE r == CHOOSE q : q = Steps(s, max, q)
<1>3. Call(f) = r[max]
  BY <1>1, <1>2, Zenon DEF Call, Steps
<1>4. r = [n \in 0 .. max |-> IF n = 0 THEN s ELSE Run(r[n - 1])]
  <2>1. \E q : q = Steps(s, max, q)
    BY RunExists, Zenon
  <2>2. r = Steps(s, max, r)
    BY <2>1, Zenon
  <2> QED
    BY <2>2, Zenon DEF Steps
<1> HIDE DEF r
<1>5. r[0] = s /\ \A n \in 1 .. max : r[n] = Run(r[n - 1])
  <2>1. 0 \in 0 .. max /\ \A n \in 1 .. max : n \in 0 .. max /\ n # 0
    OBVIOUS
  <2> QED
    BY <1>4, <2>1, Zenon
<1>11. PICK n \in 0 .. m : \E q : q[0] = s /\ q[n] = t /\ \A i \in 1 .. n : q[i] = Run(q[i - 1])
  BY <1>2, Zenon DEF Reaches
<1>6. PICK q : q[0] = s /\ q[n] = t /\ \A i \in 1 .. n : q[i] = Run(q[i - 1])
  BY <1>11
<1>7. n \in Nat /\ n <= max
  BY <1>1, <1>6
<1> DEFINE P(i) == r[i] = IF i <= n THEN q[i] ELSE t
           bad == {i \in 0 .. max : ~P(i)}
<1>8. bad = {}
  <2> SUFFICES ASSUME bad # {} PROVE FALSE
    OBVIOUS
  <2>1. PICK i \in bad : \A x \in bad : i <= x
    <3>1. bad \in SUBSET Nat
      OBVIOUS
    <3> HIDE DEF bad
    <3> QED
      BY <3>1, LeastNatural, Zenon
  <2>2. i \in 0 .. max /\ i \in Nat /\ ~P(i)
    BY <2>1
  <2>3. i # 0
    BY <1>5, <1>6, <1>7, <2>2
  <2>4. i - 1 \in 0 .. max /\ i - 1 \notin bad /\ i \in 1 .. max
    BY <2>1, <2>2, <2>3
  <2>5. P(i - 1)
    BY <2>4
  <2> HIDE DEF bad
  <2>6. r[i] = Run(r[i - 1])
    BY <1>5, <2>4, Zenon
  <2>7. CASE i <= n
    <3>1. i \in 1 .. n /\ i - 1 <= n
      BY <1>7, <2>2, <2>3, <2>7
    <3>2. q[i] = Run(q[i - 1])
      BY <1>6, <3>1, Zenon
    <3> QED
      BY <2>2, <2>5, <2>6, <2>7, <3>1, <3>2, Zenon
  <2>8. CASE ~(i <= n)
    <3>1. r[i - 1] = t
      <4>1. CASE i - 1 <= n
        <5>1. i - 1 = n
          BY <1>7, <2>2, <2>8, <4>1
        <5> QED
          BY <1>6, <2>5, <4>1, <5>1, Zenon
      <4> QED
        BY <2>5, <4>1, Zenon
    <3>2. r[i] = t
      BY <2>6, <3>1, EndStays
    <3> QED
      BY <2>2, <2>8, <3>2, Zenon
  <2> QED
    BY <2>7, <2>8
<1>9. max \in 0 .. max /\ (max <= n => max = n)
  BY <1>7
<1>10. P(max)
  BY <1>8, <1>9
<1> QED
  BY <1>3, <1>6, <1>9, <1>10, Zenon

(* The states of a call, field by field, and its ends.                     *)
At(pc, x17, lr, kept, trace) ==
    [pc |-> pc, x17 |-> x17, lr |-> lr, kept |-> kept, trace |-> trace, end |-> "no"]

Finishes(s, m, trace) == \E t : Reaches(s, m, t) /\ t.end = "returned" /\ t.trace = trace
Fails(s, m) == \E t : Reaches(s, m, t) /\ t.end = "crashed"

LEMMA FinishesStep ==
    ASSUME NEW s, NEW m \in Nat, NEW u, NEW trace, Run(s) = u, Finishes(u, m, trace)
    PROVE  Finishes(s, m + 1, trace)
<1>1. PICK t : Reaches(u, m, t) /\ t.end = "returned" /\ t.trace = trace
  BY Zenon DEF Finishes
<1>2. Reaches(s, m + 1, t)
  BY <1>1, ReachesStep
<1> QED
  BY <1>1, <1>2, Zenon DEF Finishes

LEMMA FailsStep ==
    ASSUME NEW s, NEW m \in Nat, NEW u, Run(s) = u, Fails(u, m)
    PROVE  Fails(s, m + 1)
<1>1. PICK t : Reaches(u, m, t) /\ t.end = "crashed"
  BY Zenon DEF Fails
<1>2. Reaches(s, m + 1, t)
  BY <1>1, ReachesStep
<1> QED
  BY <1>1, <1>2, Zenon DEF Fails

LEMMA FinishesLater ==
    ASSUME NEW s, NEW m \in Nat, NEW l \in Nat, m <= l, NEW trace, Finishes(s, m, trace)
    PROVE  Finishes(s, l, trace)
<1>1. PICK t : Reaches(s, m, t) /\ t.end = "returned" /\ t.trace = trace
  BY Zenon DEF Finishes
<1>2. Reaches(s, l, t)
  BY <1>1, ReachesLater
<1> QED
  BY <1>1, <1>2, Zenon DEF Finishes

LEMMA CallFinishes ==
    ASSUME NEW f \in Functions, Len(live[f]) \in Nat, NEW m \in Nat, m <= MaxSteps(f),
           NEW trace, Finishes(Start(f), m, trace)
    PROVE  Call(f).end = "returned" /\ Call(f).trace = trace
<1>1. PICK t : Reaches(Start(f), m, t) /\ t.end = "returned" /\ t.trace = trace
  BY Zenon DEF Finishes
<1>2. t.end # "no"
  BY <1>1
<1>3. Call(f) = t
  BY <1>1, <1>2, CallEnds
<1> QED
  BY <1>1, <1>3

LEMMA CallFails ==
    ASSUME NEW f \in Functions, Len(live[f]) \in Nat, NEW m \in Nat, m <= MaxSteps(f),
           Fails(Start(f), m)
    PROVE  Call(f).end = "crashed"
<1>1. PICK t : Reaches(Start(f), m, t) /\ t.end = "crashed"
  BY Zenon DEF Fails
<1>2. t.end # "no"
  BY <1>1
<1>3. Call(f) = t
  BY <1>1, <1>2, CallEnds
<1> QED
  BY <1>1, <1>3

(* One step of a call, on each kind of word.                               *)
LEMMA OnWord ==
    ASSUME NEW pc \in CodeWords, NEW x, NEW lr, NEW kept, NEW trace
    PROVE  Run(At(pc, x, lr, kept, trace)) = RunWord(At(pc, x, lr, kept, trace), code[pc])
<1>1. pc # Impl /\ HookAt(pc) = {}
  BY PlacesAssumption DEF HookAt
<1>2. PICK s : s = At(pc, x, lr, kept, trace)
  OBVIOUS
<1>3. s.end = "no" /\ s.pc = pc
  BY <1>2 DEF At
<1>4. Run(s) = RunWord(s, code[s.pc])
  BY <1>1, <1>3, Zenon DEF Run
<1> QED
  BY <1>2, <1>3, <1>4, Zenon

LEMMA GoOrig ==
    ASSUME NEW pc \in CodeWords, NEW x, NEW lr, NEW kept, NEW trace,
           NEW f, NEW k, code[pc] = <<"orig", f, k>>, k # Length[f] - 1
    PROVE  Run(At(pc, x, lr, kept, trace)) = At(pc + 1, x, lr, kept, Append(trace, <<"orig", k>>))
<1>1. RunWord(At(pc, x, lr, kept, trace), code[pc]) = RunOrig(At(pc, x, lr, kept, trace), f, k)
  BY DEF RunWord
<1>2. RunOrig(At(pc, x, lr, kept, trace), f, k) = At(pc + 1, x, lr, kept, Append(trace, <<"orig", k>>))
  <2>1. PICK e : e = Append(trace, <<"orig", k>>)
    OBVIOUS
  <2> QED
    BY <2>1 DEF RunOrig, At
<1> QED
  BY <1>1, <1>2, OnWord, Zenon

LEMMA GoLast ==
    ASSUME NEW pc \in CodeWords, NEW x, NEW kept, NEW trace,
           NEW f, NEW k, code[pc] = <<"orig", f, k>>, k = Length[f] - 1
    PROVE  LET t == Run(At(pc, x, 0, kept, trace))
           IN t.end = "returned" /\ t.trace = Append(trace, <<"orig", k>>)
<1>1. RunWord(At(pc, x, 0, kept, trace), code[pc]) = RunOrig(At(pc, x, 0, kept, trace), f, k)
  BY DEF RunWord
<1>2. PICK e : e = Append(trace, <<"orig", k>>)
  OBVIOUS
<1>3. PICK t : t = RunOrig(At(pc, x, 0, kept, trace), f, k)
  OBVIOUS
<1>6. [At(pc, x, 0, kept, trace) EXCEPT !.pc = @ + 1, !.trace = Append(@, <<"orig", k>>)]
         = At(pc + 1, x, 0, kept, e)
  <2>1. PICK s : s = At(pc, x, 0, kept, trace)
    OBVIOUS
  <2>2. s.trace = trace /\ [s EXCEPT !.pc = @ + 1] = At(pc + 1, x, 0, kept, trace)
    BY <2>1 DEF At
  <2>3. [At(pc + 1, x, 0, kept, trace) EXCEPT !.trace = e] = At(pc + 1, x, 0, kept, e)
    BY DEF At
  <2>4. [s EXCEPT !.pc = @ + 1, !.trace = Append(@, <<"orig", k>>)]
           = [[s EXCEPT !.pc = @ + 1] EXCEPT !.trace = Append(@, <<"orig", k>>)]
    OBVIOUS
  <2>5. [At(pc + 1, x, 0, kept, trace) EXCEPT !.trace = Append(@, <<"orig", k>>)]
           = [At(pc + 1, x, 0, kept, trace) EXCEPT !.trace = e]
    BY <1>2 DEF At
  <2> QED
    BY <2>1, <2>2, <2>3, <2>4, <2>5
<1>4. t = Returns(At(pc + 1, x, 0, kept, e))
  BY <1>3, <1>6, Zenon DEF RunOrig
<1>5. t.end = "returned" /\ t.trace = e
  BY <1>4 DEF Returns, At
<1> QED
  BY <1>1, <1>2, <1>3, <1>5, OnWord, Zenon

LEMMA GoNop ==
    ASSUME NEW pc \in CodeWords, NEW x, NEW lr, NEW kept, NEW trace, code[pc] = <<"nop">>
    PROVE  Run(At(pc, x, lr, kept, trace)) = At(pc + 1, x, lr, kept, trace)
<1>1. RunWord(At(pc, x, lr, kept, trace), code[pc]) = At(pc + 1, x, lr, kept, trace)
  BY DEF RunWord, At
<1> QED
  BY <1>1, OnWord, Zenon

LEMMA GoB ==
    ASSUME NEW pc \in CodeWords, NEW x, NEW lr, NEW kept, NEW trace, NEW a, code[pc] = <<"b", a>>
    PROVE  Run(At(pc, x, lr, kept, trace)) = At(a, x, lr, kept, trace)
<1>1. RunWord(At(pc, x, lr, kept, trace), code[pc]) = At(a, x, lr, kept, trace)
  BY DEF RunWord, At
<1> QED
  BY <1>1, OnWord, Zenon

LEMMA GoBl ==
    ASSUME NEW pc \in CodeWords, NEW x, NEW lr, NEW kept, NEW trace, NEW a, code[pc] = <<"bl", a>>
    PROVE  Run(At(pc, x, lr, kept, trace)) = At(a, x, pc + 1, kept, trace)
<1>1. RunWord(At(pc, x, lr, kept, trace), code[pc]) = At(a, x, pc + 1, kept, trace)
  <2>1. PICK s : s = At(pc, x, lr, kept, trace)
    OBVIOUS
  <2>2. PICK b : b = pc + 1
    OBVIOUS
  <2>3. s.pc = pc
    BY <2>1 DEF At
  <2>4. RunWord(s, code[pc]) = [s EXCEPT !.pc = a, !.lr = b]
    BY <2>2, <2>3 DEF RunWord
  <2>5. [s EXCEPT !.pc = a, !.lr = b] = At(a, x, b, kept, trace)
    <3>1. [s EXCEPT !.pc = a] = At(a, x, lr, kept, trace)
      BY <2>1 DEF At
    <3>2. [At(a, x, lr, kept, trace) EXCEPT !.lr = b] = At(a, x, b, kept, trace)
      BY DEF At
    <3>3. [s EXCEPT !.pc = a, !.lr = b] = [[s EXCEPT !.pc = a] EXCEPT !.lr = b]
      OBVIOUS
    <3> QED
      BY <3>1, <3>2, <3>3
  <2> QED
    BY <2>1, <2>2, <2>4, <2>5, Zenon
<1> QED
  BY <1>1, OnWord, Zenon

LEMMA GoLoad ==
    ASSUME NEW pc \in CodeWords, NEW x, NEW lr, NEW kept, NEW trace, NEW a, code[pc] = <<"ldr17", a>>
    PROVE  /\ \A v : code[a] = <<"data", v>> =>
                 Run(At(pc, x, lr, kept, trace)) = At(pc + 1, v, lr, kept, trace)
           /\ code[a][1] # "data" =>
                 Run(At(pc, x, lr, kept, trace)) = At(pc + 1, -1, lr, kept, trace)
<1>1. RunWord(At(pc, x, lr, kept, trace), code[pc])
        = At(pc + 1, IF code[a][1] = "data" THEN code[a][2] ELSE -1, lr, kept, trace)
  <2>1. PICK s : s = At(pc, x, lr, kept, trace)
    OBVIOUS
  <2>2. PICK v : v = IF code[a][1] = "data" THEN code[a][2] ELSE -1
    OBVIOUS
  <2>3. [s EXCEPT !.pc = @ + 1] = At(pc + 1, x, lr, kept, trace)
    BY <2>1 DEF At
  <2>4. RunWord(s, code[pc]) = [[s EXCEPT !.pc = @ + 1] EXCEPT !.x17 = v]
    BY <2>2 DEF RunWord
  <2>5. [At(pc + 1, x, lr, kept, trace) EXCEPT !.x17 = v] = At(pc + 1, v, lr, kept, trace)
    BY DEF At
  <2> QED
    BY <2>1, <2>2, <2>3, <2>4, <2>5, Zenon
<1>2. ASSUME NEW v, code[a] = <<"data", v>>
      PROVE  (IF code[a][1] = "data" THEN code[a][2] ELSE -1) = v
  BY <1>2
<1> QED
  BY <1>1, <1>2, OnWord, Zenon

LEMMA GoMoved ==
    ASSUME NEW pc \in CodeWords, NEW x, NEW lr, NEW kept, NEW trace, NEW v, code[pc] = <<"x17", v>>
    PROVE  Run(At(pc, x, lr, kept, trace)) = At(pc + 1, v, lr, kept, trace)
<1>1. RunWord(At(pc, x, lr, kept, trace), code[pc]) = At(pc + 1, v, lr, kept, trace)
  <2>1. PICK s : s = At(pc, x, lr, kept, trace)
    OBVIOUS
  <2>2. [s EXCEPT !.pc = @ + 1] = At(pc + 1, x, lr, kept, trace)
    BY <2>1 DEF At
  <2>3. RunWord(s, code[pc]) = [[s EXCEPT !.pc = @ + 1] EXCEPT !.x17 = v]
    BY DEF RunWord
  <2>5. [At(pc + 1, x, lr, kept, trace) EXCEPT !.x17 = v] = At(pc + 1, v, lr, kept, trace)
    BY DEF At
  <2> QED
    BY <2>1, <2>2, <2>3, <2>5, Zenon
<1> QED
  BY <1>1, OnWord, Zenon

LEMMA GoBr ==
    ASSUME NEW pc \in CodeWords, NEW x, NEW lr, NEW kept, NEW trace, code[pc] = <<"br17">>
    PROVE  Run(At(pc, x, lr, kept, trace)) = At(x, x, lr, kept, trace)
<1>1. RunWord(At(pc, x, lr, kept, trace), code[pc]) = At(x, x, lr, kept, trace)
  BY DEF RunWord, At
<1> QED
  BY <1>1, OnWord, Zenon

LEMMA GoPush ==
    ASSUME NEW pc \in CodeWords, NEW x, NEW lr, NEW kept, NEW trace, code[pc] = <<"push">>
    PROVE  Run(At(pc, x, lr, kept, trace)) = At(pc + 1, x, lr, lr, trace)
<1>1. RunWord(At(pc, x, lr, kept, trace), code[pc]) = At(pc + 1, x, lr, lr, trace)
  <2>1. PICK s : s = At(pc, x, lr, kept, trace)
    OBVIOUS
  <2>2. [s EXCEPT !.pc = @ + 1] = At(pc + 1, x, lr, kept, trace)
    BY <2>1 DEF At
  <2>3. RunWord(s, code[pc]) = [[s EXCEPT !.pc = @ + 1] EXCEPT !.kept = s.lr]
    BY DEF RunWord
  <2>4. s.lr = lr
    BY <2>1 DEF At
  <2>5. [At(pc + 1, x, lr, kept, trace) EXCEPT !.kept = lr] = At(pc + 1, x, lr, lr, trace)
    BY DEF At
  <2> QED
    BY <2>1, <2>2, <2>3, <2>4, <2>5, Zenon
<1> QED
  BY <1>1, OnWord, Zenon

LEMMA GoPop ==
    ASSUME NEW pc \in CodeWords, NEW x, NEW lr, NEW kept, NEW trace, code[pc] = <<"pop">>
    PROVE  Run(At(pc, x, lr, kept, trace)) = At(pc + 1, x, kept, kept, trace)
<1>1. RunWord(At(pc, x, lr, kept, trace), code[pc]) = At(pc + 1, x, kept, kept, trace)
  <2>1. PICK s : s = At(pc, x, lr, kept, trace)
    OBVIOUS
  <2>2. [s EXCEPT !.pc = @ + 1] = At(pc + 1, x, lr, kept, trace)
    BY <2>1 DEF At
  <2>3. RunWord(s, code[pc]) = [[s EXCEPT !.pc = @ + 1] EXCEPT !.lr = s.kept]
    BY DEF RunWord
  <2>4. s.kept = kept
    BY <2>1 DEF At
  <2>5. [At(pc + 1, x, lr, kept, trace) EXCEPT !.lr = kept] = At(pc + 1, x, kept, kept, trace)
    BY DEF At
  <2> QED
    BY <2>1, <2>2, <2>3, <2>4, <2>5, Zenon
<1> QED
  BY <1>1, OnWord, Zenon

LEMMA GoNone ==
    ASSUME NEW pc \in CodeWords, NEW x, NEW lr, NEW kept, NEW trace, code[pc] = <<"none">>
    PROVE  Run(At(pc, x, lr, kept, trace)).end = "crashed"
<1>1. RunWord(At(pc, x, lr, kept, trace), code[pc]).end = "crashed"
  BY DEF RunWord, At, Crashes
<1> QED
  BY <1>1, OnWord, Zenon

(* X17 that was never loaded.                                              *)
LEMMA GoNowhere ==
    ASSUME NEW x, NEW lr, NEW kept, NEW trace
    PROVE  Run(At(-1, x, lr, kept, trace)).end = "crashed"
<1>1. -1 # Impl /\ HookAt(-1) = {} /\ -1 \notin CodeWords
  <2>1. -1 \notin Nat
    OBVIOUS
  <2>2. CodeWords \subseteq Nat
    <3>1. \A f \in Functions : WordsOf(f) \subseteq Nat
      BY PlacesAssumption, LengthAssumption DEF WordsOf
    <3>2. PoolWords \subseteq Nat /\ EntryWords \subseteq Nat
      BY PoolAssumption DEF PoolWords, EntryWords, EntrySize
    <3> QED
      BY <3>1, <3>2, Zenon DEF CodeWords
  <2>3. \A h \in Hooks : Callback[h] \in Nat
    BY HooksAssumption, Zenon
  <2> QED
    BY <2>1, <2>2, <2>3, PlacesAssumption, Zenon DEF HookAt
<1>2. PICK s : s = At(-1, x, lr, kept, trace)
  OBVIOUS
<1>3. s.end = "no" /\ s.pc = -1
  BY <1>2 DEF At
<1>4. Run(s) = Crashes(s)
  BY <1>1, <1>3, Zenon DEF Run
<1>5. Crashes(s).end = "crashed"
  BY <1>2 DEF At, Crashes
<1> QED
  BY <1>2, <1>4, <1>5, Zenon

(* A callback is the one of a single hook.                                 *)
LEMMA OneAt == ASSUME NEW h \in Hooks PROVE HookAt(Callback[h]) = {h}
BY HooksAssumption, Zenon DEF HookAt

LEMMA OnCallback ==
    ASSUME NEW h \in Hooks, NEW x, NEW lr, NEW kept, NEW trace
    PROVE  Run(At(Callback[h], x, lr, kept, trace))
             = RunCallback(At(Callback[h], x, lr, kept, trace), h)
<1>1. Callback[h] # Impl /\ HookAt(Callback[h]) = {h}
  BY OneAt, PlacesAssumption, Zenon
<1>2. PICK s : s = At(Callback[h], x, lr, kept, trace)
  OBVIOUS
<1>3. s.end = "no" /\ s.pc = Callback[h]
  BY <1>2 DEF At
<1>4. (CHOOSE g \in HookAt(s.pc) : TRUE) = h
  BY <1>1, <1>3
<1>5. Run(s) = RunCallback(s, CHOOSE g \in HookAt(s.pc) : TRUE)
  <2>1. HookAt(s.pc) # {} /\ s.pc # Impl /\ s.pc \notin CodeWords
    BY <1>1, <1>3, PlacesAssumption, Zenon
  <2> QED
    BY <1>3, <2>1, Zenon DEF Run
<1> QED
  BY <1>2, <1>4, <1>5, Zenon

LEMMA GoReplace ==
    ASSUME NEW h \in Hooks, Kind[h] = "replace", NEW x, NEW kept, NEW trace
    PROVE  LET t == Run(At(Callback[h], x, 0, kept, trace))
           IN t.end = "returned" /\ t.trace = Append(trace, <<"cb", h>>)
<1>1. PICK e : e = Append(trace, <<"cb", h>>)
  OBVIOUS
<1>2. PICK t : t = RunCallback(At(Callback[h], x, 0, kept, trace), h)
  OBVIOUS
<1>3. t.end = "returned" /\ t.trace = e
  BY <1>1, <1>2 DEF RunCallback, Returns, At
<1> QED
  BY <1>1, <1>2, <1>3, OnCallback, Zenon

LEMMA GoTrampoline ==
    ASSUME NEW h \in Hooks, Kind[h] = "trampoline", OrigRef[h] # 0,
           NEW x, NEW lr, NEW kept, NEW trace
    PROVE  Run(At(Callback[h], x, lr, kept, trace))
             = At(OrigRef[h], x, lr, kept, Append(trace, <<"cb", h>>))
<1>1. PICK e : e = Append(trace, <<"cb", h>>)
  OBVIOUS
<1>2. PICK t : t = RunCallback(At(Callback[h], x, lr, kept, trace), h)
  OBVIOUS
<1>3. t = At(OrigRef[h], x, lr, kept, e)
  BY <1>1, <1>2 DEF RunCallback, At
<1> QED
  BY <1>1, <1>2, <1>3, OnCallback, Zenon

LEMMA GoUnlinked ==
    ASSUME NEW h \in Hooks, Kind[h] = "trampoline", OrigRef[h] = 0,
           NEW x, NEW lr, NEW kept, NEW trace
    PROVE  Run(At(Callback[h], x, lr, kept, trace)).end = "crashed"
<1>1. PICK t : t = RunCallback(At(Callback[h], x, lr, kept, trace), h)
  OBVIOUS
<1>2. t.end = "crashed"
  BY <1>1 DEF RunCallback, Crashes, At
<1> QED
  BY <1>1, <1>2, OnCallback, Zenon

LEMMA GoImpl ==
    ASSUME NEW h \in Hooks, NEW a, a + 2 \in CodeWords, DOMAIN code = CodeWords,
           code[a + 2] = <<"data", Callback[h]>>, NEW x, NEW kept, NEW trace
    PROVE  Run(At(Impl, x, a, kept, trace)) = At(a, x, a, kept, Append(trace, <<"cb", h>>))
<1>1. PICK s : s = At(Impl, x, a, kept, trace)
  OBVIOUS
<1>2. s.end = "no" /\ s.pc = Impl /\ s.lr = a
  BY <1>1 DEF At
<1>3. Run(s) = RunImpl(s)
  <2>1. s.end = "no" /\ s.pc = Impl /\ s.pc \notin CodeWords /\ HookAt(s.pc) = {}
    BY <1>2, PlacesAssumption, Zenon DEF HookAt
  <2> QED
    BY <2>1, Zenon DEF Run
<1>4. DOMAIN code = CodeWords
  OBVIOUS
<1>5. PICK word : word = code[a + 2]
  OBVIOUS
<1>6. word[1] = "data" /\ word[2] = Callback[h] /\ HookAt(word[2]) = {h}
  <2>1. word[1] = "data" /\ word[2] = Callback[h]
    BY <1>5
  <2> QED
    BY <2>1, OneAt, Zenon
<1>7. (CHOOSE g \in HookAt(word[2]) : TRUE) = h
  BY <1>6
<1>8. RunImpl(s) = [s EXCEPT !.trace = Append(@, <<"cb", h>>), !.pc = s.lr]
  <2>1. HookAt(word[2]) # {}
    BY <1>6, Zenon
  <2> QED
    BY <1>2, <1>4, <1>5, <1>6, <1>7, <2>1, Zenon DEF RunImpl
<1>9. PICK e : e = Append(trace, <<"cb", h>>)
  OBVIOUS
<1>10. [s EXCEPT !.trace = Append(@, <<"cb", h>>), !.pc = s.lr] = At(a, x, a, kept, e)
  <2>1. [s EXCEPT !.trace = Append(@, <<"cb", h>>)] = At(Impl, x, a, kept, e)
    <3>1. s.trace = trace
      BY <1>1 DEF At
    <3>2. [s EXCEPT !.trace = e] = At(Impl, x, a, kept, e)
      BY <1>1 DEF At
    <3> QED
      BY <1>9, <3>1, <3>2
  <2>2. [At(Impl, x, a, kept, e) EXCEPT !.pc = a] = At(a, x, a, kept, e)
    BY DEF At
  <2>3. [s EXCEPT !.trace = Append(@, <<"cb", h>>), !.pc = s.lr]
           = [[s EXCEPT !.trace = Append(@, <<"cb", h>>)] EXCEPT !.pc = a]
    BY <1>2
  <2> QED
    BY <2>1, <2>2, <2>3
<1> QED
  BY <1>1, <1>3, <1>8, <1>9, <1>10, Zenon

(* What a call leaves behind: callbacks and instructions of the function.  *)
Events == {<<"cb", h>> : h \in Hooks} \cup {<<"orig", k>> : k \in Nat}

Origs(k, l) == [i \in 1 .. l - k |-> <<"orig", k + i - 1>>]

LEMMA OrigsAreEvents ==
    ASSUME NEW k \in Nat, NEW l \in Nat, k <= l
    PROVE  Origs(k, l) \in Seq(Events) /\ Len(Origs(k, l)) = l - k
<1>1. PICK n \in Nat : n = l - k
  OBVIOUS
<1>2. ASSUME NEW i \in 1 .. n PROVE <<"orig", k + i - 1>> \in Events
  <2>1. k + i - 1 \in Nat
    OBVIOUS
  <2> QED
    BY <2>1, Zenon DEF Events
<1>3. Origs(k, l) = [i \in 1 .. n |-> <<"orig", k + i - 1>>]
  BY <1>1 DEF Origs
<1> DEFINE e(i) == <<"orig", k + i - 1>>
<1>4. \A i \in 1 .. n : e(i) \in Events
  BY <1>2
<1> HIDE DEF e
<1>5. [i \in 1 .. n |-> e(i)] \in Seq(Events) /\ Len([i \in 1 .. n |-> e(i)]) = n
  BY <1>4
<1> QED
  BY <1>1, <1>3, <1>5 DEF e

LEMMA OneEvent ==
    ASSUME NEW e \in Events
    PROVE  <<e>> \in Seq(Events) /\ Len(<<e>>) = 1 /\ <<e>>[1] = e
OBVIOUS

LEMMA OrigsFirst ==
    ASSUME NEW k \in Nat, NEW l \in Nat, k < l, NEW trace \in Seq(Events)
    PROVE  /\ <<"orig", k>> \in Events
           /\ Append(trace, <<"orig", k>>) \in Seq(Events)
           /\ Append(trace, <<"orig", k>>) \o Origs(k + 1, l) = trace \o Origs(k, l)
           /\ k = l - 1 => Append(trace, <<"orig", k>>) = trace \o Origs(k, l)
<1>1. PICK e : e = <<"orig", k>>
  OBVIOUS
<1>2. e \in Events
  BY <1>1, Zenon DEF Events
<1>3. PICK one : one = <<e>>
  OBVIOUS
<1>4. one \in Seq(Events) /\ Len(one) = 1 /\ one[1] = e
  BY <1>2, <1>3, OneEvent
<1>5. PICK p : p = Origs(k + 1, l)
  OBVIOUS
<1>6. PICK q : q = Origs(k, l)
  OBVIOUS
<1>7. k + 1 \in Nat /\ k + 1 <= l /\ k <= l
  OBVIOUS
<1>8. p \in Seq(Events) /\ Len(p) = l - (k + 1) /\ q \in Seq(Events) /\ Len(q) = l - k
  BY <1>5, <1>6, <1>7, OrigsAreEvents
<1>9. \A i \in 1 .. l - (k + 1) : p[i] = <<"orig", (k + 1) + i - 1>>
  BY <1>5, Zenon DEF Origs
<1>10. \A i \in 1 .. l - k : q[i] = <<"orig", k + i - 1>>
  BY <1>6, Zenon DEF Origs
<1>11. PICK r : r = one \o p
  OBVIOUS
<1>12. /\ r \in Seq(Events) /\ Len(r) = Len(one) + Len(p)
       /\ \A i \in 1 .. Len(one) + Len(p) : r[i] = IF i <= Len(one) THEN one[i] ELSE p[i - Len(one)]
  BY <1>4, <1>8, <1>11, ConcatProperties
<1>13. Len(r) = l - k
  BY <1>4, <1>8, <1>12
<1>14. ASSUME NEW i \in 1 .. l - k PROVE r[i] = q[i]
  <2>1. i \in 1 .. Len(one) + Len(p)
    BY <1>4, <1>8
  <2>2. CASE i = 1
    <3>1. r[i] = one[1]
      BY <1>4, <1>12, <2>1, <2>2
    <3>2. k + i - 1 = k
      BY <2>2
    <3> QED
      BY <1>1, <1>4, <1>10, <3>1, <3>2
  <2>3. CASE i # 1
    <3>1. i - 1 \in 1 .. l - (k + 1) /\ (k + 1) + (i - 1) - 1 = k + i - 1 /\ ~(i <= 1)
      BY <2>3
    <3>2. r[i] = p[i - 1]
      BY <1>4, <1>12, <2>1, <3>1
    <3>3. p[i - 1] = <<"orig", (k + 1) + (i - 1) - 1>>
      BY <1>9, <3>1, Zenon
    <3> QED
      BY <1>10, <3>1, <3>2, <3>3
  <2> QED
    BY <2>2, <2>3
<1>15. r = q
  BY <1>8, <1>12, <1>13, <1>14, SeqEqual
<1>16. Append(trace, e) \in Seq(Events) /\ Append(trace, e) = trace \o one
  BY <1>2, <1>3, AppendProperties, AppendIsConcat
<1>17. (trace \o one) \o p = trace \o r
  <2>1. (trace \o one) \o p = trace \o (one \o p)
    <3>1. one \in Seq(Events) /\ p \in Seq(Events)
      BY <1>4, <1>8
    <3> QED
      BY <3>1, ConcatAssociative
  <2> QED
    BY <1>11, <2>1
<1>18. ASSUME k = l - 1 PROVE q = one
  <2>1. Len(p) = 0
    BY <1>8, <1>18
  <2>2. p = <<>>
    BY <1>8, <2>1
  <2>3. r = one
    BY <1>4, <1>11, <2>2, ConcatEmptySeq
  <2> QED
    BY <1>15, <2>3
<1> QED
  BY <1>1, <1>2, <1>5, <1>6, <1>15, <1>16, <1>17, <1>18

LEMMA WholeIsOrigs ==
    ASSUME NEW f \in Functions
    PROVE  /\ Untouched(f) = Origs(0, Length[f])
           /\ Tail(Untouched(f)) = Origs(1, Length[f])
<1>1. PICK l \in Nat : l = Length[f] /\ l >= 5
  BY LengthAssumption
<1>2. Untouched(f) = Origs(0, l)
  <2>1. \A i \in 1 .. l : <<"orig", i - 1>> = <<"orig", 0 + i - 1>>
    <3> SUFFICES ASSUME NEW i \in 1 .. l PROVE <<"orig", i - 1>> = <<"orig", 0 + i - 1>>
      OBVIOUS
    <3>1. i - 1 = 0 + i - 1
      OBVIOUS
    <3> QED
      BY <3>1
  <2>2. l - 0 = l
    OBVIOUS
  <2> QED
    BY <1>1, <2>1, <2>2 DEF Untouched, Origs
<1>3. PICK s : s = Origs(0, l)
  OBVIOUS
<1>4. s = [i \in 1 .. l |-> <<"orig", 0 + i - 1>>]
  BY <1>3 DEF Origs
<1>5. Tail(s) = [i \in 1 .. l - 1 |-> s[i + 1]]
  <2>1. s = [i \in 1 .. l |-> s[i]]
    BY <1>4
  <2> QED
    BY <1>1, <2>1, FunctionIsSeq
<1>6. \A i \in 1 .. l - 1 : s[i + 1] = <<"orig", 1 + i - 1>>
  <2> SUFFICES ASSUME NEW i \in 1 .. l - 1 PROVE s[i + 1] = <<"orig", 1 + i - 1>>
    OBVIOUS
  <2>1. i + 1 \in 1 .. l /\ 0 + (i + 1) - 1 = 1 + i - 1
    BY <1>1
  <2> QED
    BY <1>4, <2>1
<1>7. Tail(s) = Origs(1, l)
  BY <1>5, <1>6, Zenon DEF Origs
<1> QED
  BY <1>1, <1>2, <1>3, <1>7

LEMMA EventFirst ==
    ASSUME NEW trace \in Seq(Events), NEW rest \in Seq(Events), NEW e \in Events
    PROVE  /\ Append(trace, e) \in Seq(Events)
           /\ Append(trace, e) \o rest = trace \o (<<e>> \o rest)
           /\ Append(trace, e) = trace \o (<<e>> \o <<>>)
           /\ <<e>> \o rest \in Seq(Events) /\ (<<e>> \o rest)[1] = e
           /\ Len(<<e>> \o rest) = Len(rest) + 1
<1>1. <<e>> \in Seq(Events) /\ Len(<<e>>) = 1 /\ <<e>>[1] = e /\ Len(trace) \in Nat /\ Len(rest) \in Nat
  OBVIOUS
<1>2. PICK one : one = <<e>>
  OBVIOUS
<1>3. Append(trace, e) = trace \o one /\ Append(trace, e) \in Seq(Events)
  BY <1>2, AppendProperties, AppendIsConcat
<1>4. one \in Seq(Events) /\ Len(one) = 1 /\ one[1] = e
  BY <1>1, <1>2
<1>5. (trace \o one) \o rest = trace \o (one \o rest)
  BY <1>4, ConcatAssociative
<1>6. one \o <<>> = one
  BY <1>4, ConcatEmptySeq
<1>7. one \o rest \in Seq(Events) /\ Len(one \o rest) = Len(rest) + 1 /\ (one \o rest)[1] = e
  <2>1. PICK r : r = one \o rest
    OBVIOUS
  <2>2. /\ r \in Seq(Events) /\ Len(r) = Len(one) + Len(rest)
        /\ \A i \in 1 .. Len(one) + Len(rest) : r[i] = IF i <= Len(one) THEN one[i] ELSE rest[i - Len(one)]
    BY <1>4, <2>1, ConcatProperties
  <2>3. 1 \in 1 .. Len(one) + Len(rest)
    BY <1>1, <1>4
  <2>4. r[1] = one[1]
    BY <1>4, <2>2, <2>3
  <2> QED
    BY <1>1, <1>4, <2>1, <2>2, <2>4
<1> QED
  BY <1>2, <1>3, <1>5, <1>6, <1>7

(* Whoever comes to pc, to return to the caller, does this much in so many *)
(* steps, and has returned.                                                *)
Does(pc, x17, kept, m, rest) ==
    \A trace \in Seq(Events) : Finishes(At(pc, x17, 0, kept, trace), m, trace \o rest)

LEMMA DoesLater ==
    ASSUME NEW pc, NEW x, NEW kept, NEW m \in Nat, NEW l \in Nat, m <= l, NEW rest,
           Does(pc, x, kept, m, rest)
    PROVE  Does(pc, x, kept, l, rest)
<1>1. ASSUME NEW trace \in Seq(Events)
      PROVE  Finishes(At(pc, x, 0, kept, trace), l, trace \o rest)
  <2>1. Finishes(At(pc, x, 0, kept, trace), m, trace \o rest)
    BY Zenon DEF Does
  <2> QED
    BY <2>1, FinishesLater
<1> QED
  BY <1>1, Zenon DEF Does

LEMMA DoesStep ==
    ASSUME NEW pc, NEW x, NEW kept, NEW m \in Nat, NEW rest, NEW q, NEW y, NEW k,
           \A trace : Run(At(pc, x, 0, kept, trace)) = At(q, y, 0, k, trace),
           Does(q, y, k, m, rest)
    PROVE  Does(pc, x, kept, m + 1, rest)
<1>1. ASSUME NEW trace \in Seq(Events)
      PROVE  Finishes(At(pc, x, 0, kept, trace), m + 1, trace \o rest)
  <2>1. Finishes(At(q, y, 0, k, trace), m, trace \o rest)
    BY Zenon DEF Does
  <2>2. Run(At(pc, x, 0, kept, trace)) = At(q, y, 0, k, trace)
    BY Zenon
  <2> QED
    BY <2>1, <2>2, FinishesStep
<1> QED
  BY <1>1, Zenon DEF Does

LEMMA DoesEvent ==
    ASSUME NEW pc, NEW x, NEW kept, NEW m \in Nat, NEW rest \in Seq(Events), NEW q, NEW y, NEW k,
           NEW e \in Events,
           \A trace : Run(At(pc, x, 0, kept, trace)) = At(q, y, 0, k, Append(trace, e)),
           Does(q, y, k, m, rest)
    PROVE  Does(pc, x, kept, m + 1, <<e>> \o rest)
<1>1. ASSUME NEW trace \in Seq(Events)
      PROVE  Finishes(At(pc, x, 0, kept, trace), m + 1, trace \o (<<e>> \o rest))
  <2>1. Append(trace, e) \in Seq(Events) /\ Append(trace, e) \o rest = trace \o (<<e>> \o rest)
    BY EventFirst
  <2>2. Finishes(At(q, y, 0, k, Append(trace, e)), m, Append(trace, e) \o rest)
    BY <2>1, Zenon DEF Does
  <2>3. Run(At(pc, x, 0, kept, trace)) = At(q, y, 0, k, Append(trace, e))
    BY Zenon
  <2>4. PICK t : t = trace \o (<<e>> \o rest)
    OBVIOUS
  <2>5. Finishes(At(q, y, 0, k, Append(trace, e)), m, t)
    BY <2>1, <2>2, <2>4
  <2>6. Finishes(At(pc, x, 0, kept, trace), m + 1, t)
    BY <2>3, <2>5, FinishesStep
  <2> QED
    BY <2>4, <2>6
<1> QED
  BY <1>1, Zenon DEF Does

(* A step that returns.                                                    *)
LEMMA DoesReturn ==
    ASSUME NEW pc, NEW x, NEW kept, NEW m \in Nat, NEW rest,
           \A trace \in Seq(Events) :
              LET t == Run(At(pc, x, 0, kept, trace))
              IN t.end = "returned" /\ t.trace = trace \o rest
    PROVE  Does(pc, x, kept, m + 1, rest)
<1>1. ASSUME NEW trace \in Seq(Events)
      PROVE  Finishes(At(pc, x, 0, kept, trace), m + 1, trace \o rest)
  <2>1. PICK t : t = Run(At(pc, x, 0, kept, trace))
    OBVIOUS
  <2>2. t.end = "returned" /\ t.trace = trace \o rest
    BY <2>1, Zenon
  <2>3. Reaches(t, m, t)
    BY ReachesAtOnce
  <2>4. Reaches(At(pc, x, 0, kept, trace), m + 1, t)
    BY <2>1, <2>3, ReachesStep
  <2> QED
    BY <2>2, <2>4, Zenon DEF Finishes
<1> QED
  BY <1>1, Zenon DEF Does

(* An instruction of the function, wherever it was moved.                  *)
LEMMA DoesOrig ==
    ASSUME NEW f \in Functions, NEW a \in CodeWords, NEW k \in 0 .. Length[f] - 1,
           code[a] = <<"orig", f, k>>, NEW x, NEW kept, NEW m \in Nat,
           k # Length[f] - 1 => Does(a + 1, x, kept, m, Origs(k + 1, Length[f]))
    PROVE  Does(a, x, kept, m + 1, Origs(k, Length[f]))
<1>1. PICK l \in Nat : l = Length[f] /\ k \in Nat /\ k < l /\ k + 1 <= l
  BY LengthAssumption
<1>2. PICK e : e = <<"orig", k>>
  OBVIOUS
<1>3. \A trace \in Seq(Events) :
         /\ e \in Events
         /\ Append(trace, e) \in Seq(Events)
         /\ Append(trace, e) \o Origs(k + 1, l) = trace \o Origs(k, l)
         /\ k = l - 1 => Append(trace, e) = trace \o Origs(k, l)
  BY <1>1, <1>2, OrigsFirst
<1>4. CASE k = l - 1
  <2>1. ASSUME NEW trace \in Seq(Events)
        PROVE  LET t == Run(At(a, x, 0, kept, trace))
               IN t.end = "returned" /\ t.trace = trace \o Origs(k, l)
    <3>1. LET t == Run(At(a, x, 0, kept, trace))
          IN t.end = "returned" /\ t.trace = Append(trace, e)
      BY <1>1, <1>2, <1>4, GoLast
    <3>2. Append(trace, e) = trace \o Origs(k, l)
      BY <1>3, <1>4
    <3> QED
      BY <3>1, <3>2
  <2>2. Does(a, x, kept, m + 1, Origs(k, l))
    BY <2>1, DoesReturn
  <2> QED
    BY <1>1, <2>2
<1>5. CASE k # l - 1
  <2>1. ASSUME NEW trace \in Seq(Events)
        PROVE  Finishes(At(a, x, 0, kept, trace), m + 1, trace \o Origs(k, l))
    <3>1. Run(At(a, x, 0, kept, trace)) = At(a + 1, x, 0, kept, Append(trace, e))
      BY <1>1, <1>2, <1>5, GoOrig
    <3>2. Does(a + 1, x, kept, m, Origs(k + 1, l))
      BY <1>1, <1>5
    <3>3. Finishes(At(a + 1, x, 0, kept, Append(trace, e)), m, Append(trace, e) \o Origs(k + 1, l))
      BY <1>3, <3>2, Zenon DEF Does
    <3>4. PICK t : t = trace \o Origs(k, l)
      OBVIOUS
    <3>5. Finishes(At(a + 1, x, 0, kept, Append(trace, e)), m, t)
      BY <1>3, <3>3, <3>4
    <3>6. Finishes(At(a, x, 0, kept, trace), m + 1, t)
      BY <3>1, <3>5, FinishesStep
    <3> QED
      BY <3>4, <3>6
  <2> QED
    BY <1>1, <2>1, Zenon DEF Does
<1> QED
  BY <1>4, <1>5

(* Several of them, at b what would be at f, up to c, where it goes on.    *)
LEMMA DoesOrigs ==
    ASSUME NEW f \in Functions, NEW b \in Int, NEW c \in 1 .. Length[f], NEW lo \in 0 .. c,
           lo < c \/ c < Length[f],
           \A k \in lo .. c - 1 : b + k \in CodeWords /\ code[b + k] = <<"orig", f, k>>,
           NEW x, NEW kept, NEW m \in Nat,
           c < Length[f] => Does(b + c, x, kept, m, Origs(c, Length[f]))
    PROVE  Does(b + lo, x, kept, m + (c - lo), Origs(lo, Length[f]))
<1>1. PICK l \in Nat : l = Length[f] /\ c \in Nat /\ lo \in Nat /\ c <= l /\ c - lo \in Nat
  BY LengthAssumption
<1> DEFINE P(j) == Does(b + (c - j), x, kept, m + j, Origs(c - j, l))
           bad == {j \in 0 .. c - lo : (j > 0 \/ c < l) /\ ~P(j)}
<1> HIDE DEF P
<1>2. bad = {}
  <2> SUFFICES ASSUME bad # {} PROVE FALSE
    OBVIOUS
  <2>1. PICK j \in bad : \A i \in bad : j <= i
    <3>1. bad \in SUBSET Nat
      BY <1>1
    <3> HIDE DEF bad
    <3> QED
      BY <3>1, LeastNatural, Zenon
  <2>2. j \in 0 .. c - lo /\ j \in Nat /\ (j > 0 \/ c < l) /\ ~P(j)
    BY <2>1
  <2>3. j # 0
    <3> SUFFICES ASSUME j = 0 PROVE FALSE
      OBVIOUS
    <3>1. Does(b + c, x, kept, m, Origs(c, l))
      BY <1>1, <2>2
    <3>2. c - 0 = c /\ m + 0 = m
      BY <1>1
    <3>3. P(0)
      BY <3>1, <3>2 DEF P
    <3> QED
      BY <2>2, <3>3
  <2>4. PICK i \in Nat : j = i + 1 /\ i \in 0 .. c - lo
    <3>1. j - 1 \in Nat /\ j = (j - 1) + 1 /\ j - 1 \in 0 .. c - lo
      BY <1>1, <2>2, <2>3
    <3> QED
      BY <3>1
  <2>5. i > 0 \/ c < l => P(i)
    <3>1. i \notin bad
      BY <1>1, <2>1, <2>2, <2>4
    <3> QED
      BY <2>4, <3>1
  <2>6. PICK k : k = c - j
    OBVIOUS
  <2>7. k \in lo .. c - 1 /\ k \in 0 .. l - 1 /\ k + 1 = c - i /\ b + k + 1 = b + (c - i)
    BY <1>1, <2>2, <2>4, <2>6
  <2>8. k # l - 1 => Does(b + k + 1, x, kept, m + i, Origs(k + 1, l))
    <3> SUFFICES ASSUME k # l - 1 PROVE Does(b + k + 1, x, kept, m + i, Origs(k + 1, l))
      OBVIOUS
    <3>1. i > 0 \/ c < l
      BY <1>1, <2>2, <2>4, <2>6, <2>7
    <3>2. P(i)
      BY <2>5, <3>1
    <3> QED
      BY <2>7, <3>2 DEF P
  <2>9. PICK a : a = b + k
    OBVIOUS
  <2>10. a \in CodeWords /\ code[a] = <<"orig", f, k>>
    BY <2>7, <2>9
  <2>11. m + i \in Nat
    BY <2>4
  <2>12. Does(a, x, kept, m + i + 1, Origs(k, l))
    BY <1>1, <2>7, <2>8, <2>9, <2>10, <2>11, DoesOrig
  <2>13. m + i + 1 = m + j /\ a = b + (c - j)
    BY <2>4, <2>6, <2>9
  <2>14. P(j)
    BY <2>6, <2>12, <2>13 DEF P
  <2> QED
    BY <2>2, <2>14
<1>3. c - lo \in 0 .. c - lo /\ (c - lo > 0 \/ c < l) /\ c - (c - lo) = lo
  BY <1>1
<1>4. P(c - lo)
  BY <1>2, <1>3
<1> QED
  BY <1>1, <1>3, <1>4 DEF P

(* The function itself, from one of its own instructions on.               *)
LEMMA RestOfFunction ==
    ASSUME NEW f \in Functions, NEW k \in 0 .. Length[f] - 1,
           \A l \in k .. Length[f] - 1 : code[f + l] = <<"orig", f, l>>,
           NEW x, NEW kept
    PROVE  Does(f + k, x, kept, Length[f] - k, Origs(k, Length[f]))
<1>1. PICK n : n = Length[f] /\ n \in Nat /\ n >= 5 /\ k \in 0 .. n /\ n \in 1 .. n
  BY LengthAssumption
<1>2. f \in Int
  BY PlacesAssumption
<1>3. \A l \in k .. n - 1 : f + l \in CodeWords /\ code[f + l] = <<"orig", f, l>>
  <2> SUFFICES ASSUME NEW l \in k .. n - 1 PROVE f + l \in CodeWords /\ code[f + l] = <<"orig", f, l>>
    OBVIOUS
  <2>1. l \in 0 .. Length[f] - 1
    BY <1>1
  <2>2. f + l \in CodeWords
    BY <2>1, FunctionPlaces
  <2> QED
    BY <1>1, <2>2
<1>4. k < n
  BY <1>1
<1>5. Does(f + k, x, kept, 0 + (n - k), Origs(k, n))
  <2>1. ~(n < n)
    BY <1>1
  <2> QED
    BY <1>1, <1>2, <1>3, <1>4, <2>1, DoesOrigs
<1>6. 0 + (n - k) = n - k
  BY <1>1
<1> QED
  BY <1>1, <1>5, <1>6

(* A trampoline of a function's own instructions, and back.                *)
LEMMA TrampolineOfOrigs ==
    ASSUME NEW f \in Functions, NEW a \in Int, NEW c \in 1 .. 5, NEW lo \in 0 .. 1,
           \A k \in 0 .. c : a + k \in CodeWords,
           \A k \in 0 .. c - 1 : code[a + k] = <<"orig", f, k>>,
           code[a + c] = <<"b", f + c>>,
           \A k \in c .. Length[f] - 1 : code[f + k] = <<"orig", f, k>>,
           NEW x, NEW kept
    PROVE  Does(a + lo, x, kept, Length[f] + 1, Origs(lo, Length[f]))
<1>1. PICK n : n = Length[f] /\ n \in Nat /\ n >= 5 /\ c \in 1 .. n /\ lo \in 0 .. c
  BY LengthAssumption
<1>2. \A k \in lo .. c - 1 : a + k \in CodeWords /\ code[a + k] = <<"orig", f, k>>
  <2> SUFFICES ASSUME NEW k \in lo .. c - 1
               PROVE  a + k \in CodeWords /\ code[a + k] = <<"orig", f, k>>
    OBVIOUS
  <2>1. k \in 0 .. c /\ k \in 0 .. c - 1
    OBVIOUS
  <2> QED
    BY <2>1
<1>3. lo < c \/ c < n
  BY <1>1
<1>4. PICK m \in Nat : m = IF c < n THEN n - c + 1 ELSE 0
  BY <1>1
<1>5. ASSUME c < n PROVE Does(a + c, x, kept, m, Origs(c, n))
  <2>1. c \in 0 .. n - 1 /\ n - c \in Nat
    BY <1>1, <1>5
  <2>2. Does(f + c, x, kept, n - c, Origs(c, n))
    BY <1>1, <2>1, RestOfFunction
  <2>3. PICK p : p = a + c
    OBVIOUS
  <2>4. p \in CodeWords /\ code[p] = <<"b", f + c>>
    BY <2>3
  <2>5. \A trace : Run(At(p, x, 0, kept, trace)) = At(f + c, x, 0, kept, trace)
    BY <2>4, GoB
  <2>6. Does(p, x, kept, n - c + 1, Origs(c, n))
    BY <2>1, <2>2, <2>5, DoesStep
  <2> QED
    BY <1>4, <1>5, <2>3, <2>6
<1>6. Does(a + lo, x, kept, m + (c - lo), Origs(lo, n))
  BY <1>1, <1>2, <1>3, <1>4, <1>5, DoesOrigs
<1>7. m + (c - lo) \in Nat /\ n + 1 \in Nat /\ m + (c - lo) <= n + 1
  BY <1>1, <1>4
<1>8. Does(a + lo, x, kept, n + 1, Origs(lo, n))
  BY <1>6, <1>7, DoesLater
<1> QED
  BY <1>1, <1>8

(* A function that jumps.                                                  *)
LEMMA FarWords ==
    ASSUME NEW f \in Functions, NEW t, ~Near(f, t)
    PROVE  /\ Lead(f) = 0 => /\ JumpWord(f, t, 0) = <<"ldr17", f + 2>>
                             /\ JumpWord(f, t, 1) = <<"br17">>
                             /\ JumpWord(f, t, 2) = <<"data", t>>
           /\ Lead(f) = 1 => /\ JumpWord(f, t, 0) = <<"nop">>
                             /\ JumpWord(f, t, 1) = <<"ldr17", f + 3>>
                             /\ JumpWord(f, t, 2) = <<"br17">>
                             /\ JumpWord(f, t, 3) = <<"data", t>>
<1>1. f \in Nat
  BY PlacesAssumption
<1>2. CASE Lead(f) = 0
  <2>1. f + 0 + 2 = f + 2
    BY <1>1
  <2> QED
    BY <1>2, <2>1 DEF JumpWord
<1>3. CASE Lead(f) = 1
  <2>1. f + 1 + 2 = f + 3
    BY <1>1
  <2> QED
    BY <1>3, <2>1 DEF JumpWord
<1> QED
  BY <1>2, <1>3

LEMMA FarJumpBehind ==
    ASSUME NEW f \in Functions, NEW t, ~Near(f, t),
           \A k \in 1 .. 2 + Lead(f) : code[f + k] = JumpWord(f, t, k),
           NEW x, Lead(f) = 0 => x = t,
           NEW kept, NEW m \in Nat, NEW rest, Does(t, t, kept, m, rest)
    PROVE  Does(f + 1, x, kept, m + 2, rest)
<1>1. f \in Nat /\ Lead(f) \in {0, 1}
  BY PlacesAssumption, JumpLengths
<1>2. PICK a : a = f + 1
  OBVIOUS
<1>3. a \in CodeWords
  BY <1>2, FirstPlaces
<1>4. CASE Lead(f) = 0
  <2>1. 1 \in 1 .. 2 + Lead(f)
    BY <1>4
  <2>2. code[a] = <<"br17">>
    BY <1>2, <1>4, <2>1, FarWords
  <2>3. \A trace : Run(At(a, t, 0, kept, trace)) = At(t, t, 0, kept, trace)
    BY <1>3, <2>2, GoBr
  <2>4. Does(a, t, kept, m + 1, rest)
    BY <2>3, DoesStep
  <2>5. m + 1 \in Nat /\ m + 2 \in Nat /\ m + 1 <= m + 2
    OBVIOUS
  <2>6. Does(a, t, kept, m + 2, rest)
    BY <2>4, <2>5, DoesLater
  <2> QED
    BY <1>2, <1>4, <2>6
<1>5. CASE Lead(f) = 1
  <2>1. 1 \in 1 .. 2 + Lead(f) /\ 2 \in 1 .. 2 + Lead(f) /\ 3 \in 1 .. 2 + Lead(f) /\ f + 1 + 1 = f + 2
    BY <1>1, <1>5
  <2>2. code[a] = <<"ldr17", f + 3>> /\ code[f + 2] = <<"br17">> /\ code[f + 3] = <<"data", t>>
    BY <1>2, <1>5, <2>1, FarWords
  <2>3. PICK b : b = f + 2
    OBVIOUS
  <2>4. b \in CodeWords /\ a + 1 = b
    BY <1>2, <2>1, <2>3, FirstPlaces
  <2>5. \A trace : Run(At(b, t, 0, kept, trace)) = At(t, t, 0, kept, trace)
    BY <2>2, <2>3, <2>4, GoBr
  <2>6. Does(b, t, kept, m + 1, rest)
    BY <2>5, DoesStep
  <2>7. \A trace : Run(At(a, x, 0, kept, trace)) = At(b, t, 0, kept, trace)
    BY <1>3, <2>2, <2>4, GoLoad
  <2>8. m + 1 \in Nat /\ m + 1 + 1 = m + 2
    OBVIOUS
  <2>9. Does(a, x, kept, m + 1 + 1, rest)
    BY <2>6, <2>7, <2>8, DoesStep
  <2> QED
    BY <1>2, <2>8, <2>9
<1> QED
  BY <1>1, <1>4, <1>5

LEMMA FarJump ==
    ASSUME NEW f \in Functions, NEW t, ~Near(f, t),
           \A k \in 0 .. 2 + Lead(f) : code[f + k] = JumpWord(f, t, k),
           NEW x, NEW kept, NEW m \in Nat, NEW rest, Does(t, t, kept, m, rest)
    PROVE  Does(f, x, kept, m + 3, rest)
<1>1. f \in Nat /\ Lead(f) \in {0, 1}
  BY PlacesAssumption, JumpLengths
<1>2. f \in CodeWords /\ f + 0 = f
  BY <1>1, FirstPlaces
<1>3. PICK a : a = f + 1
  OBVIOUS
<1>4. \A k \in 1 .. 2 + Lead(f) : code[f + k] = JumpWord(f, t, k)
  BY <1>1
<1>5. 0 \in 0 .. 2 + Lead(f)
  BY <1>1
<1>6. code[f] = JumpWord(f, t, 0)
  BY <1>2, <1>5
<1>7. PICK y : y = IF Lead(f) = 0 THEN t ELSE x
  OBVIOUS
<1>8. \A trace : Run(At(f, x, 0, kept, trace)) = At(a, y, 0, kept, trace)
  <2>1. CASE Lead(f) = 0
    <3>1. 2 \in 0 .. 2 + Lead(f)
      BY <2>1
    <3>2. code[f + 2] = <<"data", t>> /\ code[f] = <<"ldr17", f + 2>>
      BY <1>6, <2>1, <3>1, FarWords
    <3> QED
      BY <1>2, <1>3, <1>7, <2>1, <3>2, GoLoad
  <2>2. CASE Lead(f) = 1
    <3>1. code[f] = <<"nop">>
      BY <1>6, <2>2, FarWords
    <3> QED
      BY <1>2, <1>3, <1>7, <2>2, <3>1, GoNop
  <2> QED
    BY <1>1, <2>1, <2>2
<1>9. Does(a, y, kept, m + 2, rest)
  BY <1>3, <1>4, <1>7, FarJumpBehind
<1>10. m + 2 \in Nat /\ m + 2 + 1 = m + 3
  OBVIOUS
<1>11. Does(f, x, kept, m + 2 + 1, rest)
  BY <1>8, <1>9, <1>10, DoesStep
<1> QED
  BY <1>10, <1>11

LEMMA JumpGoes ==
    ASSUME NEW f \in Functions, NEW t,
           \A k \in 0 .. JumpLength(f, t) - 1 : code[f + k] = JumpWord(f, t, k),
           NEW x, NEW kept, NEW m \in Nat, NEW rest, \A y : Does(t, y, kept, m, rest)
    PROVE  Does(f, x, kept, m + 3, rest)
<1>1. f \in Nat /\ Lead(f) \in {0, 1}
  BY PlacesAssumption, JumpLengths
<1>2. CASE Near(f, t)
  <2>1. JumpLength(f, t) = 1 /\ JumpWord(f, t, 0) = <<"b", t>>
    BY <1>1, <1>2, JumpLengths DEF JumpWord
  <2>2. f \in CodeWords /\ f + 0 = f /\ 0 \in 0 .. JumpLength(f, t) - 1
    BY <1>1, <2>1, FirstPlaces
  <2>3. code[f] = <<"b", t>>
    BY <2>1, <2>2
  <2>4. \A trace : Run(At(f, x, 0, kept, trace)) = At(t, x, 0, kept, trace)
    BY <2>2, <2>3, GoB
  <2>5. Does(f, x, kept, m + 1, rest)
    BY <2>4, DoesStep
  <2>6. m + 1 \in Nat /\ m + 3 \in Nat /\ m + 1 <= m + 3
    OBVIOUS
  <2> QED
    BY <2>5, <2>6, DoesLater
<1>3. CASE ~Near(f, t)
  <2>1. JumpLength(f, t) - 1 = 2 + Lead(f)
    BY <1>1, <1>3, JumpLengths
  <2>2. \A k \in 0 .. 2 + Lead(f) : code[f + k] = JumpWord(f, t, k)
    BY <2>1
  <2> QED
    BY <1>3, <2>2, FarJump
<1> QED
  BY <1>2, <1>3

(* A trampoline over the jump of an older hook leads to that hook.  The    *)
(* words are those of the older hook's layer, w, its target is u.          *)
LEMMA TrampolineOfJump ==
    ASSUME NEW f \in Functions, NEW t, NEW u, NEW w, NEW a \in Int, Trampoline(f, t, w, a),
           \A k \in 0 .. JumpLength(f, u) - 1 : w[k] = JumpWord(f, u, k),
           Near(f, t) /\ ~Near(f, u) => \A k \in 1 .. 4 : code[f + k] = w[k],
           NEW x, NEW kept, NEW m \in Nat, NEW rest, \A y : Does(u, y, kept, m, rest)
    PROVE  Does(a, x, kept, m + 4, rest)
<1>1. f \in Nat /\ Lead(f) \in {0, 1}
  BY PlacesAssumption, JumpLengths
<1>2. PICK c : c = Count(f, t) /\ c \in {1, 4, 5}
  BY CountOfWords
<1>3. /\ \A k \in 0 .. c : a + k \in PoolWords
      /\ \A k \in 0 .. c - 1 : code[a + k] = Kept(f, w, k)
      /\ code[a + c] = <<"b", f + c>>
  BY <1>2, Zenon DEF Trampoline
<1>4. PoolWords \subseteq CodeWords
  BY Zenon DEF CodeWords
<1>5. \A k \in 0 .. c : a + k \in CodeWords
  BY <1>3, <1>4, Zenon
<1>6. a \in CodeWords /\ a + 0 = a /\ 0 \in 0 .. c - 1
  <2>1. 0 \in 0 .. c /\ a + 0 = a /\ 0 \in 0 .. c - 1
    BY <1>2
  <2>2. a + 0 \in CodeWords
    BY <1>5, <2>1
  <2> QED
    BY <2>1, <2>2
<1>7. code[a] = Kept(f, w, 0)
  BY <1>3, <1>6
<1>8. CASE Near(f, u)
  <2>1. JumpLength(f, u) = 1 /\ JumpWord(f, u, 0) = <<"b", u>>
    BY <1>1, <1>8, JumpLengths DEF JumpWord
  <2>2. 0 \in 0 .. JumpLength(f, u) - 1
    BY <2>1
  <2>3. w[0] = <<"b", u>>
    BY <2>1, <2>2
  <2>4. code[a] = <<"b", u>>
    BY <1>7, <2>3 DEF Kept
  <2>5. \A trace : Run(At(a, x, 0, kept, trace)) = At(u, x, 0, kept, trace)
    BY <1>6, <2>4, GoB
  <2>6. Does(a, x, kept, m + 1, rest)
    BY <2>5, DoesStep
  <2>7. m + 1 \in Nat /\ m + 4 \in Nat /\ m + 1 <= m + 4
    OBVIOUS
  <2> QED
    BY <2>6, <2>7, DoesLater
<1>9. CASE ~Near(f, u)
  <2>1. JumpLength(f, u) - 1 = 2 + Lead(f)
    BY <1>1, <1>9, JumpLengths
  <2>2. \A k \in 0 .. 2 + Lead(f) : w[k] = JumpWord(f, u, k)
    BY <2>1
  <2>3. /\ Lead(f) = 0 => w[0] = <<"ldr17", f + 2>> /\ w[1] = <<"br17">> /\ w[2] = <<"data", u>>
        /\ Lead(f) = 1 => /\ w[0] = <<"nop">> /\ w[1] = <<"ldr17", f + 3>>
                          /\ w[2] = <<"br17">> /\ w[3] = <<"data", u>>
    <3>1. CASE Lead(f) = 0
      <4>1. 0 \in 0 .. 2 + Lead(f) /\ 1 \in 0 .. 2 + Lead(f) /\ 2 \in 0 .. 2 + Lead(f)
        BY <3>1
      <4> QED
        BY <1>9, <2>2, <3>1, <4>1, FarWords
    <3>2. CASE Lead(f) = 1
      <4>1. /\ 0 \in 0 .. 2 + Lead(f) /\ 1 \in 0 .. 2 + Lead(f)
            /\ 2 \in 0 .. 2 + Lead(f) /\ 3 \in 0 .. 2 + Lead(f)
        BY <3>2
      <4> QED
        BY <1>9, <2>2, <3>2, <4>1, FarWords
    <3> QED
      BY <1>1, <3>1, <3>2
  <2>4. /\ Lead(f) = 0 => /\ Kept(f, w, 0) = <<"x17", u>> /\ Kept(f, w, 1) = <<"br17">>
        /\ Lead(f) = 1 => /\ Kept(f, w, 0) = <<"nop">> /\ Kept(f, w, 1) = <<"x17", u>>
                          /\ Kept(f, w, 2) = <<"br17">>
    <3>1. CASE Lead(f) = 0
      <4>1. Lead(f) + 2 = 2
        BY <3>1
      <4> QED
        BY <2>3, <3>1, <4>1 DEF Kept
    <3>2. CASE Lead(f) = 1
      <4>1. Lead(f) + 2 = 3
        BY <3>2
      <4> QED
        BY <2>3, <3>2, <4>1 DEF Kept
    <3> QED
      BY <1>1, <3>1, <3>2
  <2>5. Does(u, u, kept, m, rest)
    BY Zenon
  <2>6. PICK b : b = a + 1
    OBVIOUS
  <2>7. b \in CodeWords /\ (c > 1 => code[b] = Kept(f, w, 1))
    <3>1. 1 \in 0 .. c /\ (c > 1 => 1 \in 0 .. c - 1)
      BY <1>2
    <3> QED
      BY <1>3, <1>5, <2>6, <3>1
  <2>8. PICK y : y = IF Lead(f) = 0 THEN u ELSE x
    OBVIOUS
  <2>9. \A trace : Run(At(a, x, 0, kept, trace)) = At(b, y, 0, kept, trace)
    <3>1. CASE Lead(f) = 0
      <4>1. code[a] = <<"x17", u>>
        BY <1>7, <2>4, <3>1
      <4> QED
        BY <1>6, <2>6, <2>8, <3>1, <4>1, GoMoved
    <3>2. CASE Lead(f) = 1
      <4>1. code[a] = <<"nop">>
        BY <1>7, <2>4, <3>2
      <4> QED
        BY <1>6, <2>6, <2>8, <3>2, <4>1, GoNop
    <3> QED
      BY <1>1, <3>1, <3>2
  <2>10. Does(b, y, kept, m + 3, rest)
    <3>1. CASE Near(f, t)
      <4>1. c = 1
        BY <1>1, <1>2, <3>1, JumpLengths
      <4>2. code[b] = <<"b", f + 1>>
        BY <1>3, <2>6, <4>1
      <4>3. \A k \in 1 .. 2 + Lead(f) : code[f + k] = JumpWord(f, u, k)
        <5> SUFFICES ASSUME NEW k \in 1 .. 2 + Lead(f) PROVE code[f + k] = JumpWord(f, u, k)
          OBVIOUS
        <5>1. k \in 1 .. 4 /\ k \in 0 .. 2 + Lead(f)
          BY <1>1
        <5>2. code[f + k] = w[k]
          BY <1>9, <3>1, <5>1
        <5> QED
          BY <2>2, <5>1, <5>2
      <4>4. Does(f + 1, y, kept, m + 2, rest)
        BY <1>9, <2>5, <2>8, <4>3, FarJumpBehind
      <4>5. \A trace : Run(At(b, y, 0, kept, trace)) = At(f + 1, y, 0, kept, trace)
        BY <2>7, <4>2, GoB
      <4>6. m + 2 \in Nat /\ m + 2 + 1 = m + 3
        OBVIOUS
      <4>7. Does(b, y, kept, m + 2 + 1, rest)
        BY <4>4, <4>5, <4>6, DoesStep
      <4> QED
        BY <4>6, <4>7
    <3>2. CASE ~Near(f, t)
      <4>1. c = 4 + Lead(f) /\ c > 1
        BY <1>1, <1>2, <3>2, JumpLengths
      <4>2. CASE Lead(f) = 0
        <5>1. code[b] = <<"br17">>
          BY <2>4, <2>7, <4>1, <4>2
        <5>2. \A trace : Run(At(b, u, 0, kept, trace)) = At(u, u, 0, kept, trace)
          BY <2>7, <5>1, GoBr
        <5>3. Does(b, u, kept, m + 1, rest)
          BY <2>5, <5>2, DoesStep
        <5>4. m + 1 \in Nat /\ m + 3 \in Nat /\ m + 1 <= m + 3
          OBVIOUS
        <5>5. Does(b, u, kept, m + 3, rest)
          BY <5>3, <5>4, DoesLater
        <5> QED
          BY <2>8, <4>2, <5>5
      <4>3. CASE Lead(f) = 1
        <5>1. code[b] = <<"x17", u>>
          BY <2>4, <2>7, <4>1, <4>3
        <5>2. PICK d : d = a + 2
          OBVIOUS
        <5>3. d \in CodeWords /\ code[d] = <<"br17">> /\ b + 1 = d
          <6>1. 2 \in 0 .. c /\ 2 \in 0 .. c - 1 /\ a + 1 + 1 = a + 2
            BY <4>1, <4>3
          <6> QED
            BY <1>3, <1>5, <2>4, <2>6, <4>3, <5>2, <6>1
        <5>4. \A trace : Run(At(d, u, 0, kept, trace)) = At(u, u, 0, kept, trace)
          BY <5>3, GoBr
        <5>5. Does(d, u, kept, m + 1, rest)
          BY <2>5, <5>4, DoesStep
        <5>6. \A trace : Run(At(b, y, 0, kept, trace)) = At(d, u, 0, kept, trace)
          BY <2>7, <5>1, <5>3, GoMoved
        <5>7. m + 1 \in Nat /\ m + 1 + 1 \in Nat /\ m + 3 \in Nat /\ m + 1 + 1 <= m + 3
          OBVIOUS
        <5>8. Does(b, y, kept, m + 1 + 1, rest)
          BY <5>5, <5>6, <5>7, DoesStep
        <5> QED
          BY <5>7, <5>8, DoesLater
      <4> QED
        BY <1>1, <4>2, <4>3
    <3> QED
      BY <3>1, <3>2
  <2>11. m + 3 \in Nat /\ m + 3 + 1 = m + 4
    OBVIOUS
  <2>12. Does(a, x, kept, m + 3 + 1, rest)
    BY <2>9, <2>10, <2>11, DoesStep
  <2> QED
    BY <2>11, <2>12
<1> QED
  BY <1>8, <1>9

(* What is expected of a function with some hooks, hook by hook.           *)
Afters(f, hooks, m, after) ==
    [i \in 0 .. m |-> IF i = 0 THEN Untouched(f)
                      ELSE <<<<"cb", hooks[i]>>>> \o Leaves(hooks[i], after[i - 1])]

LEMMA AftersExist ==
    ASSUME NEW f, NEW hooks, NEW m \in Nat
    PROVE  \E after : after = Afters(f, hooks, m, after)
<1> DEFINE bad == {l \in Nat : ~\E after : after = Afters(f, hooks, l, after)}
<1>1. bad = {}
  <2> SUFFICES ASSUME bad # {} PROVE FALSE
    OBVIOUS
  <2>1. PICK l \in bad : \A x \in bad : l <= x
    <3>1. bad \in SUBSET Nat
      OBVIOUS
    <3> HIDE DEF bad
    <3> QED
      BY <3>1, LeastNatural, Zenon
  <2>2. l \in Nat /\ ~\E after : after = Afters(f, hooks, l, after)
    BY <2>1
  <2>3. l # 0
    <3>1. PICK r : r = [i \in 0 .. 0 |-> Untouched(f)]
      OBVIOUS
    <3>2. r = Afters(f, hooks, 0, r)
      BY <3>1 DEF Afters
    <3> QED
      BY <2>2, <3>2, Zenon
  <2>4. PICK k \in Nat : k = l - 1 /\ l = k + 1 /\ ~(l <= k)
    <3>1. l - 1 \in Nat /\ l = (l - 1) + 1 /\ ~(l <= l - 1)
      BY <2>2, <2>3
    <3> QED
      BY <3>1
  <2>5. \E after : after = Afters(f, hooks, k, after)
    BY <2>1, <2>4
  <2> HIDE DEF bad
  <2>6. PICK r : r = Afters(f, hooks, k, r)
    BY <2>5
  <2>7. PICK q : q = Afters(f, hooks, l, r)
    OBVIOUS
  <2>8. \A n \in 0 .. l : n # 0 => n - 1 \in 0 .. k
    BY <2>4
  <2>9. \A n \in 0 .. k : q[n] = r[n]
    <3> SUFFICES ASSUME NEW n \in 0 .. k PROVE q[n] = r[n]
      OBVIOUS
    <3>1. n \in 0 .. l
      BY <2>4
    <3>2. q[n] = IF n = 0 THEN Untouched(f)
                 ELSE <<<<"cb", hooks[n]>>>> \o Leaves(hooks[n], r[n - 1])
      BY <2>7, <3>1, Zenon DEF Afters
    <3>3. r[n] = IF n = 0 THEN Untouched(f)
                 ELSE <<<<"cb", hooks[n]>>>> \o Leaves(hooks[n], r[n - 1])
      BY <2>6, Zenon DEF Afters
    <3> QED
      BY <3>2, <3>3
  <2>10. \A n \in 0 .. l : (IF n = 0 THEN Untouched(f)
                            ELSE <<<<"cb", hooks[n]>>>> \o Leaves(hooks[n], r[n - 1]))
                           = (IF n = 0 THEN Untouched(f)
                              ELSE <<<<"cb", hooks[n]>>>> \o Leaves(hooks[n], q[n - 1]))
    BY <2>8, <2>9, Zenon
  <2>11. q = Afters(f, hooks, l, q)
    BY <2>7, <2>10, Zenon DEF Afters
  <2> QED
    BY <2>2, <2>11, Zenon
<1>2. m \notin bad
  BY <1>1, Zenon
<1> QED
  BY <1>2

After(f, hooks, after) ==
    /\ after[0] = Untouched(f)
    /\ \A i \in 1 .. Len(hooks) :
          /\ after[i] = <<<<"cb", hooks[i]>>>> \o Leaves(hooks[i], after[i - 1])
          /\ Leaves(hooks[i], after[i - 1]) \in Seq(Events)
          /\ after[i][1] = <<"cb", hooks[i]>>

LEMMA ExpectedAfter ==
    ASSUME NEW f \in Functions, NEW hooks \in Seq(Hooks)
    PROVE  \E after : After(f, hooks, after) /\ Expected(f, hooks) = after[Len(hooks)]
<1>1. PICK n \in Nat : n = Len(hooks)
  OBVIOUS
<1> DEFINE after == CHOOSE a : a = Afters(f, hooks, Len(hooks), a)
<1>2. Expected(f, hooks) = after[Len(hooks)]
  BY Zenon DEF Expected, Afters
<1>3. after = Afters(f, hooks, n, after)
  <2>1. \E a : a = Afters(f, hooks, Len(hooks), a)
    BY <1>1, AftersExist
  <2>2. after = Afters(f, hooks, Len(hooks), after)
    BY <2>1, Zenon
  <2> HIDE DEF after
  <2> QED
    BY <1>1, <2>2
<1> HIDE DEF after
<1>4. after[0] = Untouched(f)
  <2>1. 0 \in 0 .. n
    OBVIOUS
  <2> QED
    BY <1>3, <2>1, Zenon DEF Afters
<1>5. ASSUME NEW i \in 1 .. n
      PROVE  after[i] = <<<<"cb", hooks[i]>>>> \o Leaves(hooks[i], after[i - 1])
  <2>1. i \in 0 .. n /\ i # 0
    OBVIOUS
  <2> QED
    BY <1>3, <2>1, Zenon DEF Afters
<1>6. ASSUME NEW i \in 1 .. n, after[i - 1] \in Seq(Events), Len(after[i - 1]) > 0
      PROVE  /\ Leaves(hooks[i], after[i - 1]) \in Seq(Events)
             /\ after[i] \in Seq(Events) /\ Len(after[i]) > 0
             /\ after[i][1] = <<"cb", hooks[i]>>
  <2>1. PICK h \in Hooks : h = hooks[i]
    BY <1>1
  <2>2. PICK s \in Seq(Events) : s = after[i - 1] /\ Len(s) > 0
    BY <1>6
  <2>3. Kind[h] \in {"trampoline", "replace", "inline"}
    BY HooksAssumption
  <2>4. <<>> \in Seq(Events) /\ Tail(s) \in Seq(Events)
    BY <2>2
  <2>5. Leaves(hooks[i], s) \in Seq(Events)
    BY <2>1, <2>3, <2>4 DEF Leaves
  <2>6. PICK rest \in Seq(Events) : rest = Leaves(hooks[i], s)
    BY <2>5
  <2>7. PICK e \in Events : e = <<"cb", h>>
    BY Zenon DEF Events
  <2>8. /\ <<e>> \o rest \in Seq(Events) /\ (<<e>> \o rest)[1] = e
        /\ Len(<<e>> \o rest) = Len(rest) + 1
    <3>1. <<>> \in Seq(Events)
      OBVIOUS
    <3> QED
      BY <3>1, EventFirst
  <2>9. Len(rest) \in Nat
    BY <2>6
  <2>10. after[i] = <<e>> \o rest
    BY <1>5, <2>1, <2>2, <2>6, <2>7
  <2> QED
    BY <2>1, <2>2, <2>5, <2>7, <2>8, <2>9, <2>10
<1> DEFINE bad == {i \in 0 .. n : ~(after[i] \in Seq(Events) /\ Len(after[i]) > 0)}
<1>7. bad = {}
  <2> SUFFICES ASSUME bad # {} PROVE FALSE
    OBVIOUS
  <2>1. PICK i \in bad : \A j \in bad : i <= j
    <3>1. bad \in SUBSET Nat
      OBVIOUS
    <3> HIDE DEF bad
    <3> QED
      BY <3>1, LeastNatural, Zenon
  <2>2. i \in 0 .. n /\ ~(after[i] \in Seq(Events) /\ Len(after[i]) > 0)
    BY <2>1
  <2>3. i # 0
    <3>1. PICK l \in Nat : l = Length[f] /\ l >= 5
      BY LengthAssumption
    <3>2. Origs(0, l) \in Seq(Events) /\ Len(Origs(0, l)) = l - 0
      <4>1. 0 \in Nat /\ 0 <= l
        OBVIOUS
      <4> QED
        BY <4>1, OrigsAreEvents
    <3>3. after[0] = Origs(0, l)
      BY <1>4, <3>1, WholeIsOrigs
    <3> QED
      BY <2>2, <3>1, <3>2, <3>3
  <2>4. i \in 1 .. n /\ i - 1 \in 0 .. n /\ ~(i <= i - 1)
    BY <2>2, <2>3
  <2>5. i - 1 \notin bad
    BY <2>1, <2>4
  <2>6. after[i - 1] \in Seq(Events) /\ Len(after[i - 1]) > 0
    BY <2>4, <2>5, Zenon
  <2> QED
    BY <1>6, <2>2, <2>4, <2>6
<1>8. \A i \in 1 .. n : i - 1 \in 0 .. n
  OBVIOUS
<1>9. \A i \in 1 .. n : after[i - 1] \in Seq(Events) /\ Len(after[i - 1]) > 0
  BY <1>7, <1>8
<1>10. After(f, hooks, after)
  BY <1>1, <1>4, <1>5, <1>6, <1>9, Zenon DEF After
<1> QED
  BY <1>1, <1>2, <1>10

(* A function that a call can be told of: its hooks break none, and if     *)
(* there is one whose trampoline jumps back into it, its words stand.      *)
Ready(target, layer, written, f) ==
    /\ HookInv(target, layer, written)
    /\ PoolInv
    /\ ~Breaks(f, live[f])
    /\ (\E j \in 1 .. Len(live[f]) : IsNear(f, live[f][j]) /\ Kind[live[f][j]] # "replace")
          => \A k \in 1 .. 4 : code[f + k] = layer[f][Len(live[f])][k]

LEMMA NearTarget ==
    ASSUME NEW target, EntryInv(target), PoolInv, NEW f \in Functions, NEW h \in Hooks,
           Kind[h] = "inline" => target[h] # -1
    PROVE  /\ IsNear(f, h) <=> Near(f, target[h])
           /\ Kind[h] # "inline" => target[h] = Callback[h]
<1>1. CASE Kind[h] = "inline"
  <2>1. PICK a : a = target[h]
    OBVIOUS
  <2>2. a \in Nat /\ a + 0 \in EntryWords
    <3>1. \A k \in 0 .. 5 : target[h] + k \in EntryWords
      BY <1>1, EntryWhere
    <3>2. target[h] \in Nat
      BY <1>1, EntryWhere
    <3>3. 0 \in 0 .. 5
      OBVIOUS
    <3> QED
      BY <2>1, <3>1, <3>2, <3>3
  <2>3. a \in EntryWords
    BY <2>2
  <2>4. Near(f, a) <=> Near(f, InlinePool)
    BY <2>3, ReachAssumption
  <2> QED
    BY <1>1, <2>1, <2>4, Zenon DEF IsNear
<1>2. CASE Kind[h] # "inline"
  <2>1. target[h] = Callback[h]
    BY <1>2, Zenon DEF EntryInv
  <2> QED
    BY <1>2, <2>1, Zenon DEF IsNear
<1> QED
  BY <1>1, <1>2

LEMMA ReadyHooks ==
    ASSUME NEW target, NEW layer, NEW written, NEW f \in Functions, Ready(target, layer, written, f),
           NEW i \in 1 .. Len(live[f])
    PROVE  /\ live[f][i] \in Hooks
           /\ IsNear(f, live[f][i]) <=> Near(f, target[live[f][i]])
           /\ Kind[live[f][i]] # "inline" => target[live[f][i]] = Callback[live[f][i]]
           /\ Kind[live[f][i]] = "inline" => target[live[f][i]] # -1 /\ i = 1
           /\ \A j \in i + 1 .. Len(live[f]) :
                 IsNear(f, live[f][i]) /\ Kind[live[f][i]] # "replace" => IsNear(f, live[f][j])
<1>1. LiveInv /\ EntryInv(target) /\ PoolInv /\ ~Breaks(f, live[f])
  BY Zenon DEF Ready, HookInv
<1>2. Len(live[f]) \in Nat /\ \A j \in 1 .. Len(live[f]) : live[f][j] \in Hooks
  BY <1>1, LiveLengths
<1>3. DOMAIN live[f] = 1 .. Len(live[f])
  <2>1. live[f] \in Seq(Hooks)
    <3>1. live \in [Functions -> Seq(Hooks)]
      BY <1>1, Zenon DEF LiveInv
    <3> QED
      BY <3>1, Zenon
  <2> QED
    BY <2>1
<1>4. Kind[live[f][i]] = "inline" => target[live[f][i]] # -1
  BY <1>1, Zenon DEF EntryInv
<1>5. /\ IsNear(f, live[f][i]) <=> Near(f, target[live[f][i]])
      /\ Kind[live[f][i]] # "inline" => target[live[f][i]] = Callback[live[f][i]]
  BY <1>1, <1>2, <1>4, NearTarget
<1>6. ASSUME NEW j \in 1 .. Len(live[f]), NEW l \in 1 .. Len(live[f]), j < l
      PROVE  /\ Kind[live[f][l]] # "inline"
             /\ IsNear(f, live[f][j]) /\ Kind[live[f][j]] # "replace" => IsNear(f, live[f][l])
  BY <1>1, <1>3, <1>6, Zenon DEF Breaks
<1>7. i # 1 => Kind[live[f][i]] # "inline"
  <2>1. ASSUME i # 1 PROVE Kind[live[f][i]] # "inline"
    <3>1. 1 \in 1 .. Len(live[f]) /\ 1 < i
      BY <1>2, <2>1
    <3> QED
      BY <1>6, <3>1
  <2> QED
    BY <2>1
<1>8. \A j \in i + 1 .. Len(live[f]) : j \in 1 .. Len(live[f]) /\ i < j
  BY <1>2
<1> QED
  BY <1>2, <1>4, <1>5, <1>6, <1>7, <1>8

(* Behind a near hook that keeps a way back the function is as it was when *)
(* that hook came.                                                         *)
LEMMA BehindNear ==
    ASSUME NEW target, NEW layer, NEW written, NEW f \in Functions, Ready(target, layer, written, f),
           NEW i \in 1 .. Len(live[f]), Near(f, target[live[f][i]]), Kind[live[f][i]] # "replace"
    PROVE  \A k \in 1 .. 4 : code[f + k] = layer[f][i - 1][k]
<1>1. LiveInv /\ LayerInv(target, layer)
  BY Zenon DEF Ready, HookInv
<1>2. Len(live[f]) \in Nat
  BY <1>1, LiveLengths
<1>3. IsNear(f, live[f][i])
  BY ReadyHooks
<1>4. \A k \in 1 .. 4 : code[f + k] = layer[f][Len(live[f])][k]
  BY <1>3, Zenon DEF Ready
<1>5. PICK h : h = i - 1 /\ h \in 0 .. Len(live[f]) /\ Len(live[f]) \in h .. Len(live[f]) /\ h + 1 = i
  BY <1>2
<1>6. ASSUME NEW l \in h + 1 .. Len(live[f]) PROVE Near(f, target[live[f][l]])
  <2>1. l \in 1 .. Len(live[f]) /\ (l = i \/ l \in i + 1 .. Len(live[f]))
    BY <1>2, <1>5
  <2>2. IsNear(f, live[f][l])
    BY <1>3, <2>1, ReadyHooks
  <2> QED
    BY <2>1, <2>2, ReadyHooks
<1>7. \A k \in 1 .. 4 : layer[f][Len(live[f])][k] = layer[f][h][k]
  <2>1. PICK n : n = Len(live[f])
    OBVIOUS
  <2>2. h \in 0 .. Len(live[f]) /\ n \in h .. Len(live[f])
    BY <1>5, <2>1
  <2>3. \A l \in h + 1 .. n : Near(f, target[live[f][l]])
    BY <1>6, <2>1
  <2>4. \A k \in 1 .. 4 : layer[f][n][k] = layer[f][h][k]
    BY <1>1, <2>2, <2>3, LayerStays, SMTT(60)
  <2> QED
    BY <2>1, <2>4
<1>8. ASSUME NEW k \in 1 .. 4 PROVE code[f + k] = layer[f][h][k]
  <2>1. code[f + k] = layer[f][Len(live[f])][k]
    BY <1>4, Zenon
  <2>2. layer[f][Len(live[f])][k] = layer[f][h][k]
    BY <1>7, Zenon
  <2> QED
    BY <2>1, <2>2, Zenon
<1>9. h = i - 1
  BY <1>5
<1> QED
  BY <1>8, <1>9, Zenon

LEMMA BehindJumps ==
    ASSUME NEW target, NEW layer, NEW written, NEW f \in Functions, HookInv(target, layer, written),
           NEW k \in 3 + Lead(f) .. Length[f] - 1
    PROVE  code[f + k] = <<"orig", f, k>>
<1>1. LiveInv /\ LayerInv(target, layer) /\ FunctionInv(target, layer, written) /\ JobInv(target, written)
  BY Zenon DEF HookInv
<1>2. Len(live[f]) \in Nat /\ f \in Nat /\ Lead(f) \in {0, 1} /\ Length[f] \in Nat
  BY <1>1, LiveLengths, LengthAssumption
<1>3. CASE k >= 5
  <2>1. k \in 5 .. Length[f] - 1
    BY <1>2, <1>3
  <2> QED
    BY <1>1, <2>1, Zenon DEF FunctionInv
<1>4. CASE ~(k >= 5)
  <2>1. k \in 0 .. 4 /\ k \in 3 + Lead(f) .. 4
    BY <1>2, <1>4
  <2>2. Len(live[f]) \in 0 .. Len(live[f])
    BY <1>2
  <2>3. layer[f][Len(live[f])][k] = <<"orig", f, k>>
    <3>1. FarShape(target, layer, f, Len(live[f]))
      BY <1>1, <2>2, LayerShape
    <3> QED
      BY <2>1, <3>1, Zenon DEF FarShape
  <2>4. ~(f = job.func /\ k < written)
    <3> SUFFICES ASSUME f = job.func, k < written PROVE FALSE
      OBVIOUS
    <3>1. JumpLength(job.func, target[job.hook]) \in {1, 3 + Lead(f)}
      BY <1>2, JumpLengths
    <3>2. CASE job.phase = "patch"
      <4>1. written \in 0 .. JumpLength(job.func, target[job.hook]) - 1
        BY <1>1, <3>2, Zenon DEF JobInv
      <4> QED
        BY <1>2, <3>1, <4>1
    <3>3. CASE job.phase = "link"
      <4>1. written = JumpLength(job.func, target[job.hook])
        BY <1>1, <3>3, Zenon DEF JobInv
      <4> QED
        BY <1>2, <3>1, <4>1
    <3>4. CASE job.phase \notin {"patch", "link"}
      <4>1. written = 0
        BY <1>1, <3>4, Zenon DEF JobInv
      <4> QED
        BY <1>2, <4>1
    <3> QED
      BY <3>2, <3>3, <3>4
  <2>5. code[f + k] = layer[f][Len(live[f])][k]
    <3>1. code[f + k] = IF f = job.func /\ k < written THEN JumpWord(f, target[job.hook], k)
                        ELSE layer[f][Len(live[f])][k]
      BY <1>1, <2>1, Zenon DEF FunctionInv
    <3> QED
      BY <2>4, <3>1
  <2> QED
    BY <2>3, <2>5
<1> QED
  BY <1>3, <1>4

(* What the hooks of a function do, from the oldest on: when a call comes  *)
(* to the target of one, it does what is expected of it and the older ones.*)
HookSteps(f, i) == Length[f] + 8 * i

HookDoes(target, f, after, i) ==
    \A x, kept : Does(target[live[f][i]], x, kept, HookSteps(f, i), after[i])

LEMMA ReplaceDoes ==
    ASSUME NEW h \in Hooks, Kind[h] = "replace", NEW x, NEW kept, NEW m \in Nat
    PROVE  Does(Callback[h], x, kept, m + 1, <<<<"cb", h>>>> \o <<>>)
<1>1. PICK e \in Events : e = <<"cb", h>>
  BY Zenon DEF Events
<1>2. ASSUME NEW trace \in Seq(Events)
      PROVE  LET t == Run(At(Callback[h], x, 0, kept, trace))
             IN t.end = "returned" /\ t.trace = trace \o (<<e>> \o <<>>)
  <2>1. LET t == Run(At(Callback[h], x, 0, kept, trace))
        IN t.end = "returned" /\ t.trace = Append(trace, e)
    BY <1>1, GoReplace
  <2>2. <<>> \in Seq(Events)
    OBVIOUS
  <2>3. Append(trace, e) = trace \o (<<e>> \o <<>>)
    BY <2>2, EventFirst
  <2> QED
    BY <2>1, <2>3
<1>3. Does(Callback[h], x, kept, m + 1, <<e>> \o <<>>)
  BY <1>2, DoesReturn
<1> QED
  BY <1>1, <1>3

LEMMA FirstTrampoline ==
    ASSUME NEW target, NEW layer, NEW written, NEW f \in Functions, Ready(target, layer, written, f),
           1 \in 1 .. Len(live[f]), Kind[live[f][1]] # "replace",
           NEW lo \in 0 .. 1, NEW x, NEW kept
    PROVE  Does(OrigRef[live[f][1]] + lo, x, kept, Length[f] + 1, Origs(lo, Length[f]))
<1>1. /\ LiveInv /\ LayerInv(target, layer) /\ HookInv(target, layer, written)
      /\ TrampolineInv(target, layer) /\ SlotInv
  BY Zenon DEF Ready, HookInv
<1>2. f \in Nat /\ Lead(f) \in {0, 1} /\ Len(live[f]) \in Nat /\ Length[f] \in Nat /\ Length[f] >= 5
  BY <1>1, LiveLengths, LengthAssumption
<1>3. PICK h \in Hooks : h = live[f][1]
  BY <1>1, LiveLengths
<1>4. PICK a \in Nat : a = OrigRef[h]
  BY <1>1, Zenon DEF SlotInv
<1>5. PICK t : t = target[h]
  OBVIOUS
<1>6. PICK w : w = layer[f][0]
  OBVIOUS
<1>7. Trampoline(f, t, w, a)
  <2>1. Trampoline(f, target[live[f][1]], layer[f][1 - 1], OrigRef[live[f][1]])
    BY <1>1, Zenon DEF TrampolineInv
  <2>2. 1 - 1 = 0
    OBVIOUS
  <2> QED
    BY <1>3, <1>4, <1>5, <1>6, <2>1, <2>2
<1>8. \A k \in 0 .. 4 : w[k] = <<"orig", f, k>>
  BY <1>1, <1>6, Zenon DEF LayerInv
<1>9. PICK c : c = Count(f, t) /\ c \in 1 .. 5
  <2>1. Count(f, t) \in 1 .. 5
    BY CountOfWords
  <2> QED
    BY <2>1
<1>10. /\ \A k \in 0 .. c : a + k \in PoolWords
       /\ \A k \in 0 .. c - 1 : code[a + k] = Kept(f, w, k)
       /\ code[a + c] = <<"b", f + c>>
  BY <1>7, <1>9, Zenon DEF Trampoline
<1>11. \A k \in 0 .. c : a + k \in CodeWords
  BY <1>10, Zenon DEF CodeWords
<1>12. ASSUME NEW k \in 0 .. c - 1 PROVE code[a + k] = <<"orig", f, k>>
  <2>1. k \in 0 .. 4
    BY <1>9
  <2>2. w[k] = <<"orig", f, k>>
    BY <1>8, <2>1
  <2>3. Kept(f, w, k) = w[k]
    BY <2>2 DEF Kept
  <2> QED
    BY <1>10, <2>2, <2>3
<1>13. ASSUME NEW k \in c .. Length[f] - 1 PROVE code[f + k] = <<"orig", f, k>>
  <2>1. CASE Near(f, t)
    <3>1. c = 1
      BY <1>2, <1>9, <2>1, JumpLengths
    <3>2. CASE k >= 5
      <4>1. k \in 3 + Lead(f) .. Length[f] - 1
        BY <1>2, <3>2
      <4> QED
        BY <1>1, <4>1, BehindJumps
    <3>3. CASE ~(k >= 5)
      <4>1. k \in 1 .. 4 /\ k \in 0 .. 4 /\ 1 - 1 = 0
        BY <3>1, <3>3
      <4>2. \A l \in 1 .. 4 : code[f + l] = layer[f][1 - 1][l]
        BY <1>3, <1>5, <2>1, BehindNear
      <4> QED
        BY <1>6, <1>8, <4>1, <4>2
    <3> QED
      BY <3>2, <3>3
  <2>2. CASE ~Near(f, t)
    <3>1. c = 4 + Lead(f)
      BY <1>2, <1>9, <2>2, JumpLengths
    <3>2. k \in 3 + Lead(f) .. Length[f] - 1
      BY <1>2, <3>1
    <3> QED
      BY <1>1, <3>2, BehindJumps
  <2> QED
    BY <2>1, <2>2
<1>14. Does(a + lo, x, kept, Length[f] + 1, Origs(lo, Length[f]))
  <2>1. a \in Int
    BY <1>4
  <2> QED
    BY <1>9, <1>10, <1>11, <1>12, <1>13, <2>1, TrampolineOfOrigs
<1> QED
  BY <1>3, <1>4, <1>14

LEMMA StepByStep ==
    ASSUME NEW m \in Nat
    PROVE  /\ m + 1 \in Nat /\ m + 1 + 1 \in Nat /\ m + 1 + 1 + 1 \in Nat /\ m + 1 + 1 + 1 + 1 \in Nat
           /\ m + 1 + 1 + 1 + 1 + 1 = m + 5
OBVIOUS

(* An inline hook: its entry, the common part with the callback, and back. *)
LEMMA InlineDoes ==
    ASSUME NEW h \in Hooks, NEW e \in Nat, Entry(h, e), DOMAIN code = CodeWords,
           \A k \in 0 .. 5 : e + k \in CodeWords,
           NEW m \in Nat, NEW rest \in Seq(Events), NEW a,
           a = OrigRef[h] + 1, \A x, kept : Does(a, x, kept, m, rest),
           NEW x, NEW kept
    PROVE  Does(e, x, kept, m + 5, <<<<"cb", h>>>> \o rest)
<1>1. /\ code[e] = <<"push">> /\ code[e + 1] = <<"bl", Impl>> /\ code[e + 2] = <<"pop">>
      /\ code[e + 3] = <<"b", a>> /\ code[e + 4] = <<"data", Callback[h]>>
  BY Zenon DEF Entry
<1>2. PICK e1 : e1 = e + 1 /\ e1 \in CodeWords
  OBVIOUS
<1>3. PICK e2 : e2 = e + 2 /\ e2 \in CodeWords /\ e1 + 1 = e2
  BY <1>2
<1>4. PICK e3 : e3 = e + 3 /\ e3 \in CodeWords /\ e2 + 1 = e3
  BY <1>3
<1>5. e2 + 2 = e + 4 /\ e2 + 2 \in CodeWords /\ e \in CodeWords
  <2>1. e2 + 2 = e + 4 /\ e + 0 = e
    BY <1>3
  <2>2. e + 4 \in CodeWords /\ e + 0 \in CodeWords
    OBVIOUS
  <2> QED
    BY <2>1, <2>2
<1>6. PICK ev \in Events : ev = <<"cb", h>>
  BY Zenon DEF Events
<1>9. code[e2 + 2] = <<"data", Callback[h]>> /\ code[e1] = <<"bl", Impl>>
  BY <1>1, <1>2, <1>5
<1>7. ASSUME NEW trace \in Seq(Events)
      PROVE  Finishes(At(e, x, 0, kept, trace), m + 5, trace \o (<<ev>> \o rest))
  <2>1. PICK more : more = Append(trace, ev)
    OBVIOUS
  <2>2. PICK whole : whole = trace \o (<<ev>> \o rest)
    OBVIOUS
  <2>3. more \in Seq(Events) /\ more \o rest = whole
    BY <2>1, <2>2, EventFirst
  <2>4. Run(At(e, x, 0, kept, trace)) = At(e1, x, 0, 0, trace)
    BY <1>1, <1>2, <1>5, GoPush
  <2>5. Run(At(e1, x, 0, 0, trace)) = At(Impl, x, e2, 0, trace)
    BY <1>2, <1>3, <1>9, GoBl
  <2>6. Run(At(Impl, x, e2, 0, trace)) = At(e2, x, e2, 0, more)
    <3>1. DOMAIN code = CodeWords
      OBVIOUS
    <3>2. e2 + 2 \in CodeWords /\ code[e2 + 2] = <<"data", Callback[h]>>
      BY <1>5, <1>9
    <3>3. Run(At(Impl, x, e2, 0, trace)) = At(e2, x, e2, 0, Append(trace, <<"cb", h>>))
      BY <3>1, <3>2, GoImpl, ZenonT(60)
    <3> QED
      BY <1>6, <2>1, <3>3
  <2>7. Run(At(e2, x, e2, 0, more)) = At(e3, x, 0, 0, more)
    BY <1>1, <1>3, <1>4, GoPop
  <2>8. Run(At(e3, x, 0, 0, more)) = At(a, x, 0, 0, more)
    BY <1>1, <1>4, GoB
  <2>9. Finishes(At(a, x, 0, 0, more), m, whole)
    <3>1. Does(a, x, 0, m, rest)
      BY Zenon
    <3>2. Finishes(At(a, x, 0, 0, more), m, more \o rest)
      BY <2>3, <3>1, Zenon DEF Does
    <3> QED
      BY <2>3, <3>2
  <2>10. Finishes(At(e3, x, 0, 0, more), m + 1, whole)
    BY <2>8, <2>9, FinishesStep
  <2>11. m + 1 \in Nat /\ m + 1 + 1 \in Nat /\ m + 1 + 1 + 1 \in Nat /\ m + 1 + 1 + 1 + 1 \in Nat
         /\ m + 1 + 1 + 1 + 1 + 1 = m + 5
    BY StepByStep
  <2>12. Finishes(At(e2, x, e2, 0, more), m + 1 + 1, whole)
    BY <2>7, <2>10, <2>11, FinishesStep
  <2>13. Finishes(At(Impl, x, e2, 0, trace), m + 1 + 1 + 1, whole)
    BY <2>6, <2>11, <2>12, FinishesStep
  <2>14. Finishes(At(e1, x, 0, 0, trace), m + 1 + 1 + 1 + 1, whole)
    BY <2>5, <2>11, <2>13, FinishesStep
  <2>15. Finishes(At(e, x, 0, kept, trace), m + 1 + 1 + 1 + 1 + 1, whole)
    BY <2>4, <2>11, <2>14, FinishesStep
  <2> QED
    BY <2>2, <2>11, <2>15
<1>8. Does(e, x, kept, m + 5, <<ev>> \o rest)
  BY <1>7, Zenon DEF Does
<1> QED
  BY <1>6, <1>8

LEMMA LaterTrampoline ==
    ASSUME NEW target, NEW layer, NEW written, NEW f \in Functions, Ready(target, layer, written, f),
           NEW i \in 2 .. Len(live[f]), Kind[live[f][i]] # "replace",
           NEW m \in Nat, NEW rest,
           \A y, k : Does(target[live[f][i - 1]], y, k, m, rest),
           NEW x, NEW kept
    PROVE  Does(OrigRef[live[f][i]], x, kept, m + 4, rest)
<1>1. LiveInv /\ LayerInv(target, layer) /\ TrampolineInv(target, layer) /\ SlotInv
  BY Zenon DEF Ready, HookInv
<1>2. f \in Nat /\ Len(live[f]) \in Nat /\ i \in 1 .. Len(live[f]) /\ i - 1 \in 1 .. Len(live[f])
      /\ Lead(f) \in {0, 1}
  BY <1>1, LiveLengths
<1>3. PICK j : j = i - 1
  OBVIOUS
<1>4. PICK u : u = target[live[f][j]]
  OBVIOUS
<1>5. PICK w : w = layer[f][j]
  OBVIOUS
<1>6. PICK t : t = target[live[f][i]]
  OBVIOUS
<1>7. PICK a \in Int : a = OrigRef[live[f][i]]
  <2>1. live[f][i] \in Hooks
    BY <1>1, <1>2, LiveLengths
  <2>2. OrigRef \in [Hooks -> Nat]
    BY <1>1, Zenon DEF SlotInv
  <2> QED
    BY <2>1, <2>2
<1>8. Trampoline(f, t, w, a)
  <2>1. Trampoline(f, target[live[f][i]], layer[f][i - 1], OrigRef[live[f][i]])
    BY <1>1, <1>2, Zenon DEF TrampolineInv
  <2> QED
    BY <1>3, <1>5, <1>6, <1>7, <2>1
<1>9. ASSUME NEW k \in 0 .. JumpLength(f, u) - 1 PROVE w[k] = JumpWord(f, u, k)
  <2>1. JumpLength(f, u) \in {1, 3 + Lead(f)}
    BY <1>2, JumpLengths
  <2>2. k \in 0 .. 4 /\ k < JumpLength(f, u)
    BY <1>2, <2>1
  <2>3. j \in 1 .. Len(live[f])
    BY <1>2, <1>3
  <2>4. \A p \in 1 .. Len(live[f]) : \A q \in 0 .. 4 :
            layer[f][p][q] = IF q < JumpLength(f, target[live[f][p]])
                             THEN JumpWord(f, target[live[f][p]], q) ELSE layer[f][p - 1][q]
    BY <1>1, Zenon DEF LayerInv
  <2>5. layer[f][j][k] = IF k < JumpLength(f, target[live[f][j]])
                         THEN JumpWord(f, target[live[f][j]], k) ELSE layer[f][j - 1][k]
    BY <2>2, <2>3, <2>4
  <2>6. u = target[live[f][j]] /\ w[k] = layer[f][j][k]
    BY <1>4, <1>5
  <2>7. k < JumpLength(f, target[live[f][j]])
    BY <2>2, <2>6
  <2>8. layer[f][j][k] = JumpWord(f, target[live[f][j]], k)
    BY <2>5, <2>7, Zenon
  <2> QED
    BY <2>6, <2>8
<1>10. ASSUME Near(f, t) PROVE \A k \in 1 .. 4 : code[f + k] = w[k]
  <2>1. Near(f, target[live[f][i]])
    BY <1>6, <1>10
  <2>2. \A k \in 1 .. 4 : code[f + k] = layer[f][i - 1][k]
    BY <1>2, <2>1, BehindNear
  <2> QED
    BY <1>3, <1>5, <2>2
<1>11. \A y : Does(u, y, kept, m, rest)
  BY <1>3, <1>4
<1>12. Does(a, x, kept, m + 4, rest)
  <2>1. \A k \in 0 .. JumpLength(f, u) - 1 : w[k] = JumpWord(f, u, k)
    BY <1>9
  <2>2. Near(f, t) /\ ~Near(f, u) => \A k \in 1 .. 4 : code[f + k] = w[k]
    BY <1>10
  <2> QED
    BY <1>8, <1>11, <2>1, <2>2, TrampolineOfJump
<1> QED
  BY <1>7, <1>12

LEMMA HookAfterHook ==
    ASSUME NEW target, NEW layer, NEW written, NEW f \in Functions, Ready(target, layer, written, f),
           NEW after, After(f, live[f], after), NEW i \in 1 .. Len(live[f]),
           i = 1 \/ HookDoes(target, f, after, i - 1)
    PROVE  HookDoes(target, f, after, i)
<1>1. LiveInv /\ EntryInv(target) /\ PoolInv /\ TrampolineInv(target, layer) /\ SlotInv
      /\ code = [a \in CodeWords |-> code[a]]
  BY Zenon DEF Ready, HookInv
<1>2. f \in Nat /\ Len(live[f]) \in Nat /\ Length[f] \in Nat /\ i \in Nat /\ i >= 1
  BY <1>1, LiveLengths, LengthAssumption
<1>3. PICK h \in Hooks : h = live[f][i]
  BY <1>1, LiveLengths
<1>4. PICK m \in Nat : m = HookSteps(f, i)
  BY <1>2 DEF HookSteps
<1>5. m >= Length[f] + 8
  BY <1>2, <1>4 DEF HookSteps
<1>6. PICK rest \in Seq(Events) : rest = Leaves(h, after[i - 1])
  BY <1>3, Zenon DEF After
<1>7. after[i] = <<<<"cb", h>>>> \o rest
  BY <1>3, <1>6, Zenon DEF After
<1>8. PICK ev \in Events : ev = <<"cb", h>>
  BY Zenon DEF Events
<1>9. /\ Kind[h] # "inline" => target[h] = Callback[h]
      /\ Kind[h] = "inline" => target[h] # -1 /\ i = 1
  BY <1>3, ReadyHooks
<1>10. i = 1 => after[i - 1] = Origs(0, Length[f])
  <2>1. ASSUME i = 1 PROVE after[i - 1] = Origs(0, Length[f])
    <3>1. i - 1 = 0
      BY <2>1
    <3>2. after[0] = Untouched(f)
      BY Zenon DEF After
    <3>3. Untouched(f) = Origs(0, Length[f])
      BY WholeIsOrigs, Zenon
    <3> QED
      BY <3>1, <3>2, <3>3
  <2> QED
    BY <2>1
<1>11. ASSUME NEW x, NEW kept, Kind[h] = "replace" PROVE Does(target[h], x, kept, m, after[i])
  <2>1. rest = <<>>
    BY <1>6, <1>11, Zenon DEF Leaves
  <2>2. Does(Callback[h], x, kept, 0 + 1, <<<<"cb", h>>>> \o <<>>)
    BY <1>11, ReplaceDoes
  <2>3. Does(Callback[h], x, kept, m, <<<<"cb", h>>>> \o <<>>)
    <3>1. 0 + 1 \in Nat /\ 0 + 1 <= m
      BY <1>2, <1>5
    <3> QED
      BY <2>2, <3>1, DoesLater
  <2>4. target[h] = Callback[h]
    BY <1>9, <1>11
  <2> QED
    BY <1>7, <2>1, <2>3, <2>4
<1>12. ASSUME NEW x, NEW kept, Kind[h] = "trampoline" PROVE Does(target[h], x, kept, m, after[i])
  <2>1. rest = after[i - 1]
    BY <1>6, <1>12, Zenon DEF Leaves
  <2>2. OrigRef[h] # 0
    <3>1. Kind[live[f][i]] # "replace"
      BY <1>3, <1>12
    <3> QED
      BY <1>1, <1>3, <3>1, Zenon DEF TrampolineInv
  <2>3. target[h] = Callback[h]
    BY <1>9, <1>12
  <2>4. PICK n \in Nat : n + 1 <= m /\ Does(OrigRef[h], x, kept, n, rest)
    <3>1. CASE i = 1
      <4>1. 1 \in 1 .. Len(live[f]) /\ Kind[live[f][1]] # "replace" /\ 0 \in 0 .. 1
        BY <1>3, <1>12, <3>1
      <4>2. Does(OrigRef[live[f][1]] + 0, x, kept, Length[f] + 1, Origs(0, Length[f]))
        BY <4>1, FirstTrampoline
      <4>3. OrigRef[h] + 0 = OrigRef[h]
        <5>1. OrigRef[h] \in Nat
          BY <1>1, Zenon DEF SlotInv
        <5> QED
          BY <5>1
      <4>4. Does(OrigRef[h], x, kept, Length[f] + 1, rest)
        BY <1>3, <1>10, <2>1, <3>1, <4>2, <4>3
      <4>5. Length[f] + 1 \in Nat /\ Length[f] + 1 + 1 <= m
        BY <1>2, <1>5
      <4> QED
        BY <4>4, <4>5
    <3>2. CASE i # 1
      <4>1. i \in 2 .. Len(live[f]) /\ Kind[live[f][i]] # "replace"
        BY <1>2, <1>3, <1>12, <3>2
      <4>2. PICK n \in Nat : n = HookSteps(f, i - 1) /\ n + 4 + 1 <= m
        <5>1. HookSteps(f, i - 1) = Length[f] + 8 * (i - 1) /\ m = Length[f] + 8 * i
          BY <1>4 DEF HookSteps
        <5>2. 8 * (i - 1) + 8 = 8 * i /\ i - 1 \in Nat
          BY <1>2, <4>1
        <5>3. HookSteps(f, i - 1) \in Nat /\ HookSteps(f, i - 1) + 4 + 1 <= m
          BY <1>2, <5>1, <5>2
        <5> QED
          BY <5>3
      <4>3. \A y, k : Does(target[live[f][i - 1]], y, k, n, rest)
        BY <2>1, <3>2, <4>2, Zenon DEF HookDoes
      <4>4. Does(OrigRef[live[f][i]], x, kept, n + 4, rest)
        BY <4>1, <4>3, LaterTrampoline
      <4>5. n + 4 \in Nat /\ n + 4 + 1 <= m
        BY <4>2
      <4> QED
        BY <1>3, <4>4, <4>5
    <3> QED
      BY <3>1, <3>2
  <2>5. \A trace : Run(At(Callback[h], x, 0, kept, trace)) = At(OrigRef[h], x, 0, kept, Append(trace, ev))
    BY <1>8, <1>12, <2>2, GoTrampoline
  <2>6. Does(Callback[h], x, kept, n + 1, <<ev>> \o rest)
    BY <2>4, <2>5, DoesEvent
  <2>7. Does(Callback[h], x, kept, m, <<ev>> \o rest)
    <3>1. n + 1 \in Nat /\ n + 1 <= m
      BY <2>4
    <3> QED
      BY <2>6, <3>1, DoesLater
  <2> QED
    BY <1>7, <1>8, <2>3, <2>7
<1>13. ASSUME NEW x, NEW kept, Kind[h] = "inline" PROVE Does(target[h], x, kept, m, after[i])
  <2>1. i = 1 /\ target[h] # -1
    BY <1>9, <1>13
  <2>2. rest = Origs(1, Length[f])
    <3>1. rest = Tail(after[i - 1])
      BY <1>6, <1>13, Zenon DEF Leaves
    <3>2. Tail(Origs(0, Length[f])) = Origs(1, Length[f])
      BY WholeIsOrigs, Zenon
    <3> QED
      BY <1>10, <2>1, <3>1, <3>2
  <2>3. PICK a : a = OrigRef[h] + 1
    OBVIOUS
  <2>4. PICK n \in Nat : n = Length[f] + 1
    BY <1>2
  <2>5. ASSUME NEW y, NEW k PROVE Does(a, y, k, n, rest)
    <3>1. 1 \in 1 .. Len(live[f]) /\ Kind[live[f][1]] # "replace" /\ 1 \in 0 .. 1
      BY <1>3, <1>13, <2>1
    <3>2. Does(OrigRef[live[f][1]] + 1, y, k, Length[f] + 1, Origs(1, Length[f]))
      BY <3>1, FirstTrampoline
    <3> QED
      BY <1>3, <2>1, <2>2, <2>3, <2>4, <3>2
  <2>6. PICK e \in Nat : e = target[h]
    BY <1>1, <1>13, <2>1, EntryWhere
  <2>7. Entry(h, e)
    <3>1. Kind[live[f][i]] = "inline"
      BY <1>3, <1>13
    <3>2. Entry(live[f][i], target[live[f][i]])
      BY <1>1, <3>1, Zenon DEF EntryInv
    <3> QED
      BY <1>3, <2>6, <3>2
  <2>8. \A k \in 0 .. 5 : e + k \in CodeWords
    BY <1>1, <1>13, <2>1, <2>6, EntryWhere
  <2>9. DOMAIN code = CodeWords
    BY <1>1
  <2>10. \A y, k : Does(a, y, k, n, rest)
    BY <2>5
  <2>11. Does(e, x, kept, n + 5, <<<<"cb", h>>>> \o rest)
    BY <2>3, <2>7, <2>8, <2>9, <2>10, InlineDoes
  <2>12. n + 5 \in Nat /\ n + 5 <= m
    BY <1>2, <1>5, <2>4
  <2>13. Does(e, x, kept, m, <<<<"cb", h>>>> \o rest)
    BY <2>11, <2>12, DoesLater
  <2> QED
    BY <1>7, <2>6, <2>13
<1>14. Kind[h] \in {"replace", "trampoline", "inline"}
  BY HooksAssumption
<1>15. \A x, kept : Does(target[h], x, kept, m, after[i])
  BY <1>11, <1>12, <1>13, <1>14
<1> QED
  BY <1>3, <1>4, <1>15, Zenon DEF HookDoes

LEMMA HooksDo ==
    ASSUME NEW target, NEW layer, NEW written, NEW f \in Functions, Ready(target, layer, written, f),
           NEW after, After(f, live[f], after)
    PROVE  \A i \in 1 .. Len(live[f]) : HookDoes(target, f, after, i)
<1> DEFINE bad == {i \in 1 .. Len(live[f]) : ~HookDoes(target, f, after, i)}
<1>1. Len(live[f]) \in Nat
  <2>1. LiveInv
    BY Zenon DEF Ready, HookInv
  <2> QED
    BY <2>1, LiveLengths
<1>2. bad = {}
  <2> SUFFICES ASSUME bad # {} PROVE FALSE
    OBVIOUS
  <2>1. PICK i \in bad : \A x \in bad : i <= x
    <3>1. bad \in SUBSET Nat
      BY <1>1
    <3> HIDE DEF bad
    <3> QED
      BY <3>1, LeastNatural, Zenon
  <2>2. i \in 1 .. Len(live[f]) /\ ~HookDoes(target, f, after, i)
    OBVIOUS
  <2>3. i = 1 \/ HookDoes(target, f, after, i - 1)
    <3> SUFFICES ASSUME i # 1 PROVE HookDoes(target, f, after, i - 1)
      OBVIOUS
    <3>1. PICK j : j = i - 1 /\ j \in 1 .. Len(live[f]) /\ ~(i <= j)
      BY <1>1, <2>2
    <3>2. j \notin bad
      <4> HIDE DEF bad
      <4> QED
        BY <2>1, <3>1
    <3> QED
      BY <3>1, <3>2
  <2> QED
    BY <2>2, <2>3, HookAfterHook
<1> QED
  BY <1>2

LEMMA StartIsAt == ASSUME NEW f PROVE Start(f) = At(f, -1, 0, 0, <<>>)
BY DEF Start, At

LEMMA CompletesBy ==
    ASSUME NEW f \in Functions, Len(live[f]) \in Nat, NEW m \in Nat, m <= MaxSteps(f),
           NEW rest \in Seq(Events), Does(f, -1, 0, m, rest)
    PROVE  Completes(f, rest)
<1>1. PICK s : s = <<>> /\ s \in Seq(Events)
  <2>1. <<>> \in Seq(Events)
    OBVIOUS
  <2> QED
    BY <2>1, Zenon
<1>2. s \o rest = rest
  <2>1. rest \in Seq(Events)
    OBVIOUS
  <2>2. <<>> \o rest = rest
    BY ONLY <2>1, ConcatEmptySeq
  <2> QED
    BY <1>1, <2>2
<1>3. Finishes(At(f, -1, 0, 0, s), m, rest)
  BY <1>1, <1>2, Zenon DEF Does
<1>4. Finishes(Start(f), m, rest)
  BY <1>1, <1>3, StartIsAt
<1>5. Call(f).end = "returned" /\ Call(f).trace = rest
  BY <1>4, CallFinishes
<1> QED
  BY <1>5, Zenon DEF Completes

LEMMA EnoughSteps ==
    ASSUME NEW f \in Functions, Len(live[f]) \in Nat
    PROVE  /\ Length[f] \in Nat /\ Length[f] >= 5 /\ Length[f] + 20 <= MaxSteps(f)
           /\ \A i \in 0 .. Len(live[f]) : /\ HookSteps(f, i) \in Nat
                                           /\ HookSteps(f, i) + 16 <= MaxSteps(f)
<1>1. PICK l \in Nat : l = Length[f] /\ l >= 5
  BY LengthAssumption
<1>2. PICK n \in Nat : n = Len(live[f])
  OBVIOUS
<1>3. MaxSteps(f) = l + 12 * (n + 2)
  BY <1>1, <1>2, Zenon DEF MaxSteps
<1>4. ASSUME NEW i \in 0 .. n PROVE HookSteps(f, i) \in Nat /\ HookSteps(f, i) + 16 <= MaxSteps(f)
  <2>1. HookSteps(f, i) = l + 8 * i
    BY <1>1, Zenon DEF HookSteps
  <2> QED
    BY <1>3, <2>1
<1> QED
  BY <1>1, <1>2, <1>3, <1>4

LEMMA AfterIsTrace ==
    ASSUME NEW f \in Functions, NEW hooks \in Seq(Hooks), NEW after, After(f, hooks, after),
           NEW i \in 0 .. Len(hooks)
    PROVE  after[i] \in Seq(Events)
<1>1. CASE i = 0
  <2>1. Origs(0, Length[f]) \in Seq(Events)
    <3>1. PICK l \in Nat : l = Length[f] /\ 0 <= l
      BY LengthAssumption
    <3>2. 0 \in Nat
      OBVIOUS
    <3>3. Origs(0, l) \in Seq(Events)
      BY <3>1, <3>2, OrigsAreEvents
    <3> QED
      BY <3>1, <3>3
  <2> QED
    BY <1>1, <2>1, WholeIsOrigs DEF After
<1>2. CASE i # 0
  <2>1. i \in 1 .. Len(hooks)
    BY <1>2
  <2>2. PICK rest \in Seq(Events) : rest = Leaves(hooks[i], after[i - 1])
    BY <2>1, Zenon DEF After
  <2>3. hooks[i] \in Hooks
    BY <2>1
  <2>4. PICK e \in Events : e = <<"cb", hooks[i]>>
    BY <2>3, Zenon DEF Events
  <2>5. after[i] = <<e>> \o rest
    BY <2>1, <2>2, <2>4, Zenon DEF After
  <2>6. rest \in Seq(Events)
    OBVIOUS
  <2>7. <<>> \in Seq(Events)
    OBVIOUS
  <2>8. <<e>> \o rest \in Seq(Events)
    BY <2>7, EventFirst
  <2> QED
    BY <2>5, <2>8
<1> QED
  BY <1>1, <1>2

(* A function whose words are those of its hooks runs them.                *)
LEMMA CleanRun ==
    ASSUME NEW target, NEW layer, NEW written, NEW f \in Functions, Ready(target, layer, written, f),
           \A k \in 0 .. 4 : code[f + k] = layer[f][Len(live[f])][k]
    PROVE  Completes(f, Expected(f, live[f]))
<1>1. LiveInv /\ LayerInv(target, layer) /\ FunctionInv(target, layer, written)
      /\ HookInv(target, layer, written)
  BY Zenon DEF Ready, HookInv
<1>2. f \in Nat /\ Len(live[f]) \in Nat /\ Lead(f) \in {0, 1}
  BY <1>1, LiveLengths
<1>3. live[f] \in Seq(Hooks)
  <2>1. live \in [Functions -> Seq(Hooks)]
    BY <1>1, Zenon DEF LiveInv
  <2> QED
    BY <2>1, Zenon
<1>4. PICK after : After(f, live[f], after) /\ Expected(f, live[f]) = after[Len(live[f])]
  BY <1>3, ExpectedAfter, Zenon
<1>5. PICK n \in Nat : n = Len(live[f])
  BY <1>2
<1>6. PICK rest \in Seq(Events) : rest = after[n] /\ rest = Expected(f, live[f])
  <2>1. n \in 0 .. Len(live[f])
    BY <1>5
  <2>2. after[n] \in Seq(Events)
    BY <1>3, <1>4, <2>1, AfterIsTrace, Zenon
  <2> QED
    BY <1>4, <1>5, <2>2
<1>7. CASE n = 0
  <2>1. ASSUME NEW k \in 0 .. Length[f] - 1 PROVE code[f + k] = <<"orig", f, k>>
    <3>1. CASE k <= 4
      <4>1. k \in 0 .. 4
        BY <3>1
      <4>2. layer[f][0][k] = <<"orig", f, k>>
        BY <1>1, <4>1, Zenon DEF LayerInv
      <4> QED
        BY <1>5, <1>7, <4>1, <4>2
    <3>2. CASE ~(k <= 4)
      <4>1. k \in 3 + Lead(f) .. Length[f] - 1
        BY <1>2, <3>2, LengthAssumption
      <4> QED
        BY <1>1, <4>1, BehindJumps
    <3> QED
      BY <3>1, <3>2
  <2>2. Length[f] \in Nat /\ Length[f] <= MaxSteps(f) /\ 0 \in 0 .. Length[f] - 1
        /\ f + 0 = f /\ Length[f] - 0 = Length[f]
    <3>1. /\ Length[f] \in Nat /\ Length[f] >= 5 /\ Length[f] + 20 <= MaxSteps(f)
      BY <1>2, EnoughSteps
    <3>2. PICK l \in Nat : l = Length[f]
      BY <3>1
    <3>3. MaxSteps(f) = l + 12 * (n + 2)
      BY <1>5, <3>2, Zenon DEF MaxSteps
    <3>4. l <= l + 12 * (n + 2)
      BY ONLY l \in Nat, n \in Nat
    <3>5. 0 \in 0 .. l - 1 /\ f + 0 = f /\ l - 0 = l
      BY <1>2, <3>1, <3>2
    <3> QED
      BY <3>2, <3>3, <3>4, <3>5
  <2>3. \A l \in 0 .. Length[f] - 1 : code[f + l] = <<"orig", f, l>>
    BY <2>1
  <2>4. Does(f + 0, -1, 0, Length[f] - 0, Origs(0, Length[f]))
    BY <2>2, <2>3, RestOfFunction
  <2>5. rest = Origs(0, Length[f])
    <3>1. rest = after[0]
      BY <1>6, <1>7
    <3>2. after[0] = Untouched(f)
      BY <1>4, Zenon DEF After
    <3>3. Untouched(f) = Origs(0, Length[f])
      BY WholeIsOrigs, Zenon
    <3> QED
      BY <3>1, <3>2, <3>3
  <2>6. Does(f, -1, 0, Length[f], rest)
    BY <2>2, <2>4, <2>5
  <2>7. Completes(f, rest)
    BY <1>2, <2>2, <2>6, CompletesBy
  <2> QED
    BY <1>6, <2>7
<1>8. CASE n # 0
  <2>1. n \in 1 .. Len(live[f]) /\ n \in 0 .. Len(live[f])
    BY <1>5, <1>8
  <2>2. PICK t : t = target[live[f][n]]
    OBVIOUS
  <2>3. PICK m \in Nat : m = HookSteps(f, n) /\ m + 3 \in Nat /\ m + 3 <= MaxSteps(f)
    <3>1. HookSteps(f, n) \in Nat /\ HookSteps(f, n) + 16 <= MaxSteps(f)
      BY <1>2, <2>1, EnoughSteps
    <3>2. MaxSteps(f) \in Nat
      BY <1>2, <1>5, LengthAssumption DEF MaxSteps
    <3>3. HookSteps(f, n) + 3 \in Nat /\ HookSteps(f, n) + 3 <= MaxSteps(f)
      BY <3>1, <3>2
    <3> QED
      BY <3>1, <3>3, Zenon
  <2>4. \A y : Does(t, y, 0, m, rest)
    <3>1. \A i \in 1 .. Len(live[f]) : HookDoes(target, f, after, i)
      BY <1>4, HooksDo
    <3>2. HookDoes(target, f, after, n)
      BY <2>1, <3>1
    <3> QED
      BY <1>6, <2>2, <2>3, <3>2, Zenon DEF HookDoes
  <2>5. ASSUME NEW k \in 0 .. JumpLength(f, t) - 1 PROVE code[f + k] = JumpWord(f, t, k)
    <3>1. JumpLength(f, t) \in {1, 3 + Lead(f)}
      BY <1>2, JumpLengths
    <3>2. k \in 0 .. 4 /\ k < JumpLength(f, t)
      BY <1>2, <3>1
    <3>3. layer[f][n][k] = IF k < JumpLength(f, target[live[f][n]])
                           THEN JumpWord(f, target[live[f][n]], k) ELSE layer[f][n - 1][k]
      BY <1>1, <2>1, <3>2, Zenon DEF LayerInv
    <3>4. code[f + k] = layer[f][n][k]
      BY <1>5, <3>2
    <3> QED
      BY <2>2, <3>2, <3>3, <3>4
  <2>6. \A k \in 0 .. JumpLength(f, t) - 1 : code[f + k] = JumpWord(f, t, k)
    BY <2>5
  <2>7. Does(f, -1, 0, m + 3, rest)
    BY <2>4, <2>6, JumpGoes
  <2>8. Completes(f, rest)
    BY <1>2, <2>3, <2>7, CompletesBy
  <2> QED
    BY <1>6, <2>8
<1> QED
  BY <1>7, <1>8

(* What the newest hook does not break, no older one did.                  *)
LEMMA BreaksOfMore ==
    ASSUME NEW f, NEW hooks \in Seq(Hooks), NEW h \in Hooks, ~Breaks(f, Append(hooks, h))
    PROVE  /\ ~Breaks(f, hooks)
           /\ \A i \in 1 .. Len(hooks) :
                 /\ Kind[h] # "inline"
                 /\ IsNear(f, hooks[i]) /\ ~IsNear(f, h) => Kind[hooks[i]] = "replace"
<1>1. PICK more : more = Append(hooks, h)
  OBVIOUS
<1>2. PICK n \in Nat : n = Len(hooks) /\ n + 1 \in Nat
  OBVIOUS
<1>3. DOMAIN more = 1 .. n + 1 /\ DOMAIN hooks = 1 .. n /\ more[n + 1] = h
      /\ \A i \in 1 .. n : more[i] = hooks[i]
  BY <1>1, <1>2
<1>4. ASSUME NEW i \in 1 .. n + 1, NEW j \in 1 .. n + 1, i < j
      PROVE  /\ Kind[more[j]] # "inline"
             /\ ~(IsNear(f, more[i]) /\ ~IsNear(f, more[j]) /\ Kind[more[i]] # "replace")
  <2>1. ~Breaks(f, more)
    BY <1>1
  <2>2. i \in DOMAIN more /\ j \in DOMAIN more
    BY <1>3
  <2> QED
    BY <1>4, <2>1, <2>2, Zenon DEF Breaks
<1>5. ~Breaks(f, hooks)
  <2> SUFFICES ASSUME Breaks(f, hooks) PROVE FALSE
    OBVIOUS
  <2>1. PICK i \in DOMAIN hooks : \E j \in DOMAIN hooks :
            /\ i < j
            /\ \/ Kind[hooks[j]] = "inline"
               \/ IsNear(f, hooks[i]) /\ ~IsNear(f, hooks[j]) /\ Kind[hooks[i]] # "replace"
    BY Zenon DEF Breaks
  <2>2. PICK j \in DOMAIN hooks :
            /\ i < j
            /\ \/ Kind[hooks[j]] = "inline"
               \/ IsNear(f, hooks[i]) /\ ~IsNear(f, hooks[j]) /\ Kind[hooks[i]] # "replace"
    BY <2>1
  <2>3. i \in 1 .. n + 1 /\ j \in 1 .. n + 1 /\ more[i] = hooks[i] /\ more[j] = hooks[j]
    BY <1>2, <1>3
  <2> QED
    BY <1>4, <2>2, <2>3
<1>6. ASSUME NEW i \in 1 .. n
      PROVE  /\ Kind[h] # "inline"
             /\ IsNear(f, hooks[i]) /\ ~IsNear(f, h) => Kind[hooks[i]] = "replace"
  <2>1. i \in 1 .. n + 1 /\ n + 1 \in 1 .. n + 1 /\ i < n + 1 /\ more[i] = hooks[i]
    BY <1>2, <1>3
  <2> QED
    BY <1>3, <1>4, <2>1
<1> QED
  BY <1>2, <1>5, <1>6

LEMMA HooksOf ==
    ASSUME NEW target, NEW layer, NEW written, HookInv(target, layer, written), NEW f \in Functions
    PROVE  /\ live[f] \in Seq(Hooks)
           /\ f \in Nat /\ Lead(f) \in {0, 1} /\ Len(live[f]) \in Nat
<1>1. LiveInv
  BY Zenon DEF HookInv
<1>2. live \in [Functions -> Seq(Hooks)]
  BY <1>1, Zenon DEF LiveInv
<1> QED
  BY <1>1, <1>2, LiveLengths

(* The hook that is being installed.                                       *)
LEMMA JobHook ==
    ASSUME NEW target, NEW layer, NEW written, HookInv(target, layer, written), PoolInv,
           job.func \in Functions, job.phase # "none"
    PROVE  /\ job.hook \in Hooks /\ Target(job) = target[job.hook] /\ job # NoJob
           /\ IsNear(job.func, job.hook) <=> Near(job.func, target[job.hook])
           /\ Kind[job.hook] # "inline" => target[job.hook] = Callback[job.hook]
           /\ Kind[job.hook] = "inline" => code[target[job.hook]] = <<"none">>
                                           /\ target[job.hook] # -1
<1>1. JobInv(target, written) /\ EntryInv(target)
  BY Zenon DEF HookInv
<1>2. job.hook \in Hooks /\ Target(job) = target[job.hook]
  BY <1>1, Zenon DEF JobInv
<1>3. job # NoJob
  BY DEF NoJob
<1>4. Kind[job.hook] = "inline" => code[target[job.hook]] = <<"none">> /\ target[job.hook] # -1
  BY <1>1, Zenon DEF EntryInv
<1>5. /\ IsNear(job.func, job.hook) <=> Near(job.func, target[job.hook])
      /\ Kind[job.hook] # "inline" => target[job.hook] = Callback[job.hook]
  BY <1>1, <1>2, <1>4, NearTarget
<1> QED
  BY <1>2, <1>3, <1>4, <1>5

LEMMA WrittenOf ==
    ASSUME NEW target, NEW layer, NEW written, HookInv(target, layer, written), PoolInv,
           job.func \in Functions, written # 0
    PROVE  \/ job.phase = "link" /\ written = JumpLength(job.func, target[job.hook])
           \/ /\ job.phase = "patch"
              /\ ~Near(job.func, target[job.hook])
              /\ written \in 1 .. 2 + Lead(job.func)
              /\ Len(job.left) < Len(Patches(job.func, Target(job)))
<1>1. JobInv(target, written)
  BY Zenon DEF HookInv
<1>2. job.phase \in {"patch", "link"}
  BY <1>1, Zenon DEF JobInv
<1>3. CASE job.phase = "link"
  BY <1>1, <1>3, Zenon DEF JobInv
<1>4. CASE job.phase = "patch"
  <2>1. PICK f \in Functions : f = job.func
    OBVIOUS
  <2>2. PICK t : t = target[job.hook] /\ t = Target(job)
    BY <1>1, <1>4, Zenon DEF JobInv
  <2>3. written \in 0 .. JumpLength(f, t) - 1 /\ job.left = LeftOf(f, t, written)
    BY <1>1, <1>4, <2>1, <2>2, Zenon DEF JobInv
  <2>4. f \in Nat /\ Lead(f) \in {0, 1} /\ JumpLength(f, t) \in Nat
        /\ (Near(f, t) => JumpLength(f, t) = 1) /\ (~Near(f, t) => JumpLength(f, t) = 3 + Lead(f))
    <3>1. f \in Nat
      BY PlacesAssumption
    <3> QED
      BY <3>1, JumpLengths
  <2>5. ~Near(f, t) /\ written \in 1 .. 2 + Lead(f)
    BY <2>3, <2>4
  <2>6. Len(job.left) = JumpLength(f, t) - written
    <3>1. written \in Nat /\ written < JumpLength(f, t)
      BY <2>3, <2>4
    <3> QED
      BY <2>3, <2>4, <3>1, NextOfJump
  <2>7. Len(Patches(f, t)) = JumpLength(f, t) - 0
    <3>1. 0 \in Nat /\ 0 < JumpLength(f, t) /\ Patches(f, t) = LeftOf(f, t, 0)
      BY <2>3, <2>4, PatchesAreJump
    <3> QED
      BY <2>4, <3>1, NextOfJump
  <2>8. Len(job.left) < Len(Patches(f, t))
    BY <2>4, <2>5, <2>6, <2>7
  <2> QED
    BY <1>4, <2>1, <2>2, <2>5, <2>8
<1> QED
  BY <1>2, <1>3, <1>4

LEMMA NotExposed ==
    ASSUME NEW target, NEW layer, NEW written, HookInv(target, layer, written), PoolInv,
           NEW f \in Functions, f # job.func \/ written = 0
    PROVE  ~Exposed(f)
<1> SUFFICES ASSUME Exposed(f) PROVE FALSE
  OBVIOUS
<1>1. f = job.func /\ written = 0 /\ job.phase \in {"link", "patch"}
  BY DEF Exposed
<1>2. JobInv(target, written)
  BY Zenon DEF HookInv
<1>3. PICK t : t = target[job.hook] /\ t = Target(job)
  BY <1>1, <1>2, Zenon DEF JobInv
<1>4. f \in Nat /\ JumpLength(f, t) \in Nat /\ 0 < JumpLength(f, t)
  <2>1. f \in Nat
    BY PlacesAssumption
  <2> QED
    BY <2>1, JumpLengths
<1>5. CASE job.phase = "link"
  <2>1. written = JumpLength(f, t)
    BY <1>1, <1>2, <1>3, <1>5, Zenon DEF JobInv
  <2> QED
    BY <1>1, <1>4, <2>1
<1>6. CASE job.phase = "patch"
  <2>1. job.left = Patches(f, t)
    <3>1. job.left = LeftOf(f, t, written)
      BY <1>1, <1>2, <1>3, <1>6, Zenon DEF JobInv
    <3> QED
      BY <1>1, <1>4, <3>1, PatchesAreJump
  <2>2. Len(job.left) < Len(Patches(f, t))
    BY <1>1, <1>3, <1>6 DEF Exposed
  <2>3. Len(Patches(f, t)) = JumpLength(f, t) - 0
    <3>1. 0 \in Nat /\ Patches(f, t) = LeftOf(f, t, 0)
      BY <1>4, PatchesAreJump
    <3> QED
      BY <1>4, <3>1, NextOfJump
  <2> QED
    BY <1>4, <2>1, <2>2, <2>3
<1> QED
  BY <1>1, <1>5, <1>6

(* Nothing of the jump is written: all of the older hooks.                 *)
LEMMA BeforeTheJump ==
    ASSUME NEW target, NEW layer, NEW written, HookInv(target, layer, written), PoolInv,
           NEW f \in Functions, f # job.func \/ written = 0, ~Breaks(f, live[f])
    PROVE  Completes(f, Expected(f, live[f]))
<1>1. FunctionInv(target, layer, written)
  BY Zenon DEF HookInv
<1>2. ASSUME NEW k \in 0 .. 4 PROVE code[f + k] = layer[f][Len(live[f])][k]
  <2>1. code[f + k] = IF f = job.func /\ k < written THEN JumpWord(f, target[job.hook], k)
                      ELSE layer[f][Len(live[f])][k]
    BY <1>1, Zenon DEF FunctionInv
  <2>2. ~(f = job.func /\ k < written)
    OBVIOUS
  <2> QED
    BY <2>1, <2>2, Zenon
<1>3. Ready(target, layer, written, f)
  <2>1. \A k \in 1 .. 4 : code[f + k] = layer[f][Len(live[f])][k]
    BY <1>2
  <2> QED
    BY <2>1, Zenon DEF Ready
<1> QED
  BY <1>2, <1>3, CleanRun

(* The jump is laid over another far one, from which it differs only in    *)
(* the address: as long as that is not written, all of the older hooks.    *)
LEMMA OverAnother ==
    ASSUME NEW target, NEW layer, NEW written, HookInv(target, layer, written), PoolInv,
           job.func \in Functions, written # 0, job.phase = "patch",
           live[job.func] # <<>>, ~IsNear(job.func, Last(live[job.func])),
           ~Breaks(job.func, Append(live[job.func], job.hook))
    PROVE  Completes(job.func, Expected(job.func, live[job.func]))
<1>1. PICK f \in Functions : f = job.func
  OBVIOUS
<1>2. FunctionInv(target, layer, written) /\ LayerInv(target, layer) /\ LiveInv /\ EntryInv(target)
  BY Zenon DEF HookInv
<1>3. live[f] \in Seq(Hooks) /\ f \in Nat /\ Lead(f) \in {0, 1} /\ Len(live[f]) \in Nat
  BY HooksOf
<1>4. PICK n \in 1 .. Len(live[f]) : n = Len(live[f])
  BY <1>1, <1>3
<1>5. job.phase # "none"
  OBVIOUS
<1>6. job.hook \in Hooks /\ (IsNear(f, job.hook) <=> Near(f, target[job.hook]))
  BY <1>1, <1>5, JobHook
<1>7. ~Near(f, target[job.hook]) /\ written \in 1 .. 2 + Lead(f)
  BY <1>1, WrittenOf
<1>8. /\ ~Breaks(f, live[f])
      /\ \A i \in 1 .. Len(live[f]) : IsNear(f, live[f][i]) => Kind[live[f][i]] = "replace"
  BY <1>1, <1>3, <1>6, <1>7, BreaksOfMore
<1>9. Ready(target, layer, written, f)
  BY <1>8, Zenon DEF Ready
<1>10. ~Near(f, target[live[f][n]])
  <2>1. IsNear(f, live[f][n]) <=> Near(f, target[live[f][n]])
    BY <1>4, <1>9, ReadyHooks
  <2>2. Last(live[f]) = live[f][n]
    BY <1>4 DEF Last
  <2> QED
    BY <1>1, <2>1, <2>2
<1>11. ASSUME NEW k \in 0 .. 4 PROVE code[f + k] = layer[f][Len(live[f])][k]
  <2>1. code[f + k] = IF f = job.func /\ k < written THEN JumpWord(f, target[job.hook], k)
                      ELSE layer[f][Len(live[f])][k]
    BY <1>2, Zenon DEF FunctionInv
  <2>2. CASE k < written
    <3>1. JumpLength(f, target[live[f][n]]) = 3 + Lead(f)
      BY <1>3, <1>10, JumpLengths
    <3>2. k < 2 + Lead(f) /\ k < JumpLength(f, target[live[f][n]])
      BY <1>3, <1>7, <2>2, <3>1
    <3>3. layer[f][n][k] = IF k < JumpLength(f, target[live[f][n]])
                           THEN JumpWord(f, target[live[f][n]], k) ELSE layer[f][n - 1][k]
      BY <1>2, Zenon DEF LayerInv
    <3>4. JumpWord(f, target[live[f][n]], k) = JumpWord(f, target[job.hook], k)
      BY <1>3, <1>7, <1>10, <3>2 DEF JumpWord
    <3> QED
      BY <1>1, <1>4, <2>1, <2>2, <3>2, <3>3, <3>4
  <2>3. CASE ~(k < written)
    BY <2>1, <2>3
  <2> QED
    BY <2>2, <2>3
<1>12. Completes(f, Expected(f, live[f]))
  BY <1>9, <1>11, CleanRun
<1> QED
  BY <1>1, <1>12

LEMMA FailsAtOnce ==
    ASSUME NEW s, Run(s).end = "crashed" PROVE Fails(s, 0 + 1)
<1>1. PICK u : u = Run(s)
  OBVIOUS
<1>2. Reaches(u, 0, u)
  BY ReachesAtOnce
<1>3. Fails(u, 0)
  BY <1>1, <1>2, Zenon DEF Fails
<1> QED
  BY <1>1, <1>3, FailsStep

(* A whole jump to where a call fails.                                     *)
LEMMA JumpFails ==
    ASSUME NEW f \in Functions, NEW t,
           \A k \in 0 .. JumpLength(f, t) - 1 : code[f + k] = JumpWord(f, t, k),
           NEW x, NEW kept, NEW trace,
           \A y : Run(At(t, y, 0, kept, trace)).end = "crashed"
    PROVE  \E m \in 0 .. 9 : Fails(At(f, x, 0, kept, trace), m)
<1>1. f \in Nat /\ Lead(f) \in {0, 1}
  BY PlacesAssumption, JumpLengths
<1>2. \A y : Fails(At(t, y, 0, kept, trace), 0 + 1)
  BY FailsAtOnce
<1>3. 0 + 1 \in Nat /\ 0 + 1 + 1 \in Nat /\ 0 + 1 + 1 + 1 \in Nat
      /\ 0 + 1 + 1 \in 0 .. 9 /\ 0 + 1 + 1 + 1 \in 0 .. 9 /\ 0 + 1 + 1 + 1 + 1 \in 0 .. 9
  OBVIOUS
<1>4. /\ f \in CodeWords /\ f + 1 \in CodeWords /\ f + 2 \in CodeWords
      /\ f + 3 \in CodeWords /\ f + 0 = f
  BY <1>1, FirstPlaces
<1>5. CASE Near(f, t)
  <2>1. 0 \in 0 .. JumpLength(f, t) - 1 /\ JumpWord(f, t, 0) = <<"b", t>>
    BY <1>5 DEF JumpLength, JumpWord
  <2>2. code[f] = <<"b", t>>
    BY <1>4, <2>1
  <2>3. Run(At(f, x, 0, kept, trace)) = At(t, x, 0, kept, trace)
    BY <1>4, <2>2, GoB
  <2>4. Fails(At(f, x, 0, kept, trace), 0 + 1 + 1)
    BY <1>2, <1>3, <2>3, FailsStep
  <2> QED
    BY <1>3, <2>4
<1>6. CASE ~Near(f, t) /\ Lead(f) = 0
  <2>1. /\ 0 \in 0 .. JumpLength(f, t) - 1 /\ 1 \in 0 .. JumpLength(f, t) - 1
        /\ 2 \in 0 .. JumpLength(f, t) - 1
    BY <1>6 DEF JumpLength
  <2>2. code[f] = <<"ldr17", f + 2>> /\ code[f + 1] = <<"br17">> /\ code[f + 2] = <<"data", t>>
    BY <1>4, <1>6, <2>1, FarWords
  <2>3. Run(At(f, x, 0, kept, trace)) = At(f + 1, t, 0, kept, trace)
    BY <1>4, <2>2, GoLoad
  <2>4. Run(At(f + 1, t, 0, kept, trace)) = At(t, t, 0, kept, trace)
    BY <1>4, <2>2, GoBr
  <2>5. Fails(At(f + 1, t, 0, kept, trace), 0 + 1 + 1)
    BY <1>2, <1>3, <2>4, FailsStep
  <2>6. Fails(At(f, x, 0, kept, trace), 0 + 1 + 1 + 1)
    BY <1>3, <2>3, <2>5, FailsStep
  <2> QED
    BY <1>3, <2>6
<1>7. CASE ~Near(f, t) /\ Lead(f) = 1
  <2>1. /\ 0 \in 0 .. JumpLength(f, t) - 1 /\ 1 \in 0 .. JumpLength(f, t) - 1
        /\ 2 \in 0 .. JumpLength(f, t) - 1 /\ 3 \in 0 .. JumpLength(f, t) - 1
    BY <1>7 DEF JumpLength
  <2>2. /\ code[f] = <<"nop">> /\ code[f + 1] = <<"ldr17", f + 3>> /\ code[f + 2] = <<"br17">>
        /\ code[f + 3] = <<"data", t>>
    BY <1>4, <1>7, <2>1, FarWords
  <2>3. PICK f1 \in CodeWords : f1 = f + 1
    BY <1>4
  <2>4. PICK f2 \in CodeWords : f2 = f + 2 /\ f1 + 1 = f2
    BY <1>1, <1>4, <2>3
  <2>5. Run(At(f, x, 0, kept, trace)) = At(f1, x, 0, kept, trace)
    BY <1>4, <2>2, <2>3, GoNop
  <2>6. Run(At(f1, x, 0, kept, trace)) = At(f2, t, 0, kept, trace)
    BY <2>2, <2>3, <2>4, GoLoad
  <2>7. Run(At(f2, t, 0, kept, trace)) = At(t, t, 0, kept, trace)
    BY <2>2, <2>4, GoBr
  <2>8. Fails(At(f2, t, 0, kept, trace), 0 + 1 + 1)
    BY <1>2, <1>3, <2>7, FailsStep
  <2>9. Fails(At(f1, x, 0, kept, trace), 0 + 1 + 1 + 1)
    BY <1>3, <2>6, <2>8, FailsStep
  <2>10. Fails(At(f, x, 0, kept, trace), 0 + 1 + 1 + 1 + 1)
    BY <1>3, <2>5, <2>9, FailsStep
  <2> QED
    BY <1>3, <2>10
<1> QED
  BY <1>1, <1>5, <1>6, <1>7

LEMMA FailsCompletesNot ==
    ASSUME NEW f \in Functions, Len(live[f]) \in Nat, NEW m \in 0 .. 9,
           Fails(At(f, -1, 0, 0, <<>>), m), NEW trace
    PROVE  ~Completes(f, trace)
<1>1. Fails(Start(f), m)
  BY StartIsAt
<1>2. m \in Nat /\ m <= MaxSteps(f)
  <2>1. PICK l \in Nat : l = Length[f] /\ l >= 5
    BY LengthAssumption
  <2>2. PICK n \in Nat : n = Len(live[f])
    OBVIOUS
  <2>3. MaxSteps(f) = l + 12 * (n + 2)
    BY <2>1, <2>2, Zenon DEF MaxSteps
  <2> QED
    BY <2>1, <2>3
<1>3. Call(f).end = "crashed"
  BY <1>1, <1>2, CallFails
<1> QED
  BY <1>3 DEF Completes

LEMMA WholeJump ==
    ASSUME NEW target, NEW layer, NEW written, HookInv(target, layer, written),
           job.func \in Functions, job.phase = "link"
    PROVE  \A k \in 0 .. JumpLength(job.func, target[job.hook]) - 1 :
              code[job.func + k] = JumpWord(job.func, target[job.hook], k)
<1>1. PICK f \in Functions : f = job.func
  OBVIOUS
<1>2. PICK t : t = target[job.hook]
  OBVIOUS
<1>3. f \in Nat /\ Lead(f) \in {0, 1} /\ JumpLength(f, t) \in {1, 3 + Lead(f)}
  BY PlacesAssumption, JumpLengths
<1>4. FunctionInv(target, layer, written) /\ JobInv(target, written)
  BY Zenon DEF HookInv
<1>5. written = JumpLength(f, t)
  BY <1>1, <1>2, <1>4, Zenon DEF JobInv
<1>6. ASSUME NEW k \in 0 .. JumpLength(f, t) - 1 PROVE code[f + k] = JumpWord(f, t, k)
  <2>1. k \in 0 .. 4 /\ k < written
    BY <1>3, <1>5
  <2>2. code[f + k] = IF f = job.func /\ k < written THEN JumpWord(f, target[job.hook], k)
                      ELSE layer[f][Len(live[f])][k]
    BY <1>4, <2>1, Zenon DEF FunctionInv
  <2> QED
    BY <1>1, <1>2, <2>1, <2>2
<1> QED
  BY <1>1, <1>2, <1>6

(* A replacement has no way to the original that could be missing.         *)
LEMMA ReplacementAtOnce ==
    ASSUME NEW target, NEW layer, NEW written, HookInv(target, layer, written), PoolInv,
           job.func \in Functions, job.phase = "link", Kind[job.hook] = "replace"
    PROVE  Completes(job.func, Expected(job.func, Append(live[job.func], job.hook)))
<1>1. PICK f \in Functions : f = job.func
  OBVIOUS
<1>2. job.phase # "none"
  OBVIOUS
<1>3. PICK h \in Hooks : h = job.hook /\ target[h] = Callback[h]
  BY <1>1, <1>2, JobHook
<1>4. live[f] \in Seq(Hooks) /\ Len(live[f]) \in Nat
  BY HooksOf
<1>5. PICK hooks : hooks = Append(live[f], h)
  OBVIOUS
<1>6. PICK n : n = Len(hooks) /\ n \in 1 .. Len(hooks) /\ hooks[n] = h /\ hooks \in Seq(Hooks)
  BY <1>4, <1>5
<1>7. PICK after : After(f, hooks, after) /\ Expected(f, hooks) = after[Len(hooks)]
  BY <1>6, ExpectedAfter, Zenon
<1>8. Expected(f, hooks) = <<<<"cb", h>>>> \o <<>>
  <2>1. after[n] = <<<<"cb", hooks[n]>>>> \o Leaves(hooks[n], after[n - 1])
    BY <1>6, <1>7, Zenon DEF After
  <2>2. Leaves(h, after[n - 1]) = <<>>
    BY <1>3, Zenon DEF Leaves
  <2> QED
    BY <1>6, <1>7, <2>1, <2>2
<1>9. PICK rest \in Seq(Events) : rest = <<<<"cb", h>>>> \o <<>>
  <2>1. PICK e \in Events : e = <<"cb", h>>
    BY Zenon DEF Events
  <2>2. <<>> \in Seq(Events)
    OBVIOUS
  <2>3. <<e>> \o <<>> \in Seq(Events)
    BY <2>2, EventFirst
  <2> QED
    BY <2>1, <2>3
<1>10. \A y : Does(Callback[h], y, 0, 0 + 1, rest)
  BY <1>1, <1>3, <1>9, ReplaceDoes
<1>11. Does(f, -1, 0, 0 + 1 + 3, rest)
  <2>1. \A k \in 0 .. JumpLength(f, Callback[h]) - 1 : code[f + k] = JumpWord(f, Callback[h], k)
    BY <1>1, <1>3, WholeJump
  <2>2. 0 + 1 \in Nat
    OBVIOUS
  <2> QED
    BY <1>10, <2>1, <2>2, JumpGoes
<1>12. 0 + 1 + 3 \in Nat /\ 0 + 1 + 3 <= MaxSteps(f)
  <2>1. PICK l \in Nat : l = Length[f] /\ l >= 5
    BY LengthAssumption
  <2>2. PICK j \in Nat : j = Len(live[f])
    BY <1>4
  <2>3. MaxSteps(f) = l + 12 * (j + 2)
    BY <2>1, <2>2, Zenon DEF MaxSteps
  <2> QED
    BY <2>1, <2>3
<1>13. Completes(f, rest)
  BY <1>4, <1>11, <1>12, CompletesBy
<1> QED
  BY <1>1, <1>3, <1>5, <1>8, <1>9, <1>13

(* Any other hook has, until it is linked.                                 *)
LEMMA NotLinked ==
    ASSUME NEW target, NEW layer, NEW written, HookInv(target, layer, written), PoolInv,
           job.func \in Functions, job.phase = "link", Kind[job.hook] # "replace", NEW trace
    PROVE  ~Completes(job.func, trace)
<1>1. PICK f \in Functions : f = job.func
  OBVIOUS
<1>2. job.phase # "none"
  OBVIOUS
<1>3. PICK h \in Hooks : h = job.hook
  BY <1>2, JobHook
<1>4. PICK t : t = target[h]
  OBVIOUS
<1>5. /\ Kind[h] # "inline" => t = Callback[h]
      /\ Kind[h] = "inline" => code[t] = <<"none">> /\ target[h] # -1
  BY <1>1, <1>2, <1>3, <1>4, JobHook
<1>6. ASSUME NEW y PROVE Run(At(t, y, 0, 0, <<>>)).end = "crashed"
  <2>1. CASE Kind[h] = "trampoline"
    <3>1. SlotInv
      BY Zenon DEF HookInv
    <3>2. OrigRef[h] = 0
      BY <1>3, <3>1, Zenon DEF SlotInv
    <3>3. Run(At(Callback[h], y, 0, 0, <<>>)).end = "crashed"
      BY <2>1, <3>2, GoUnlinked
    <3> QED
      BY <1>5, <2>1, <3>3
  <2>2. CASE Kind[h] = "inline"
    <3>1. EntryInv(target)
      BY Zenon DEF HookInv
    <3>2. t \in Nat /\ \A k \in 0 .. 5 : t + k \in CodeWords
      BY <1>4, <1>5, <2>2, <3>1, EntryWhere
    <3>3. 0 \in 0 .. 5 /\ t + 0 = t
      BY <3>2
    <3>4. t \in CodeWords
      BY <3>2, <3>3
    <3> QED
      BY <1>5, <2>2, <3>4, GoNone
  <2>3. Kind[h] \in {"trampoline", "inline"}
    BY <1>3, HooksAssumption
  <2> QED
    BY <2>1, <2>2, <2>3
<1>7. \A k \in 0 .. JumpLength(f, t) - 1 : code[f + k] = JumpWord(f, t, k)
  BY <1>1, <1>3, <1>4, WholeJump
<1>8. PICK m \in 0 .. 9 : Fails(At(f, -1, 0, 0, <<>>), m)
  <2>1. \A y : Run(At(t, y, 0, 0, <<>>)).end = "crashed"
    BY <1>6
  <2> QED
    BY <1>7, <2>1, JumpFails
<1>9. Len(live[f]) \in Nat
  BY HooksOf
<1> QED
  BY <1>1, <1>8, <1>9, FailsCompletesNot

(* The first words of a far jump, and the function behind them.            *)
LEMMA HalfJump ==
    ASSUME NEW f \in Functions, NEW t, ~Near(f, t), NEW w \in 1 .. 2 + Lead(f),
           \A k \in 0 .. w - 1 : code[f + k] = JumpWord(f, t, k),
           \A k \in w .. Length[f] - 1 : code[f + k] = <<"orig", f, k>>
    PROVE  \/ \E m \in 0 .. 9 : Fails(At(f, -1, 0, 0, <<>>), m)
           \/ \E k \in 1 .. 2 : Does(f, -1, 0, Length[f] + 2, Origs(k, Length[f]))
<1>1. f \in Nat /\ Lead(f) \in {0, 1}
  BY PlacesAssumption, JumpLengths
<1>2. PICK l \in Nat : l = Length[f] /\ l >= 5
  BY LengthAssumption
<1>3. /\ f \in CodeWords /\ f + 1 \in CodeWords /\ f + 2 \in CodeWords
      /\ f + 3 \in CodeWords /\ f + 0 = f
  BY <1>1, FirstPlaces
<1>4. PICK f1 \in CodeWords : f1 = f + 1
  BY <1>3
<1>5. PICK f2 \in CodeWords : f2 = f + 2 /\ f1 + 1 = f2
  BY <1>1, <1>3, <1>4
<1>6. 0 + 1 \in Nat /\ 0 + 1 + 1 \in Nat /\ 0 + 1 + 1 + 1 \in Nat
      /\ 0 + 1 + 1 \in 0 .. 9 /\ 0 + 1 + 1 + 1 \in 0 .. 9 /\ 0 + 1 + 1 + 1 + 1 \in 0 .. 9
  OBVIOUS
<1>7. ASSUME NEW j \in 1 .. 2, j >= w
      PROVE  /\ \A x, kept : Does(f + j, x, kept, l - j, Origs(j, l))
             /\ l - j \in Nat /\ l - j + 1 \in Nat /\ l - j + 1 + 1 \in Nat
             /\ l - j + 1 <= l + 2 /\ l - j + 1 + 1 <= l + 2 /\ l + 2 \in Nat
  <2>1. j \in 0 .. Length[f] - 1
    BY <1>2
  <2>2. \A i \in j .. Length[f] - 1 : code[f + i] = <<"orig", f, i>>
    BY <1>1, <1>2, <1>7
  <2>3. \A x, kept : Does(f + j, x, kept, Length[f] - j, Origs(j, Length[f]))
    BY <2>1, <2>2, RestOfFunction
  <2> QED
    BY <1>2, <2>3
<1>8. ASSUME NEW y, Run(At(y, -1, 0, 0, <<>>)) = At(-1, -1, 0, 0, <<>>)
      PROVE  Fails(At(y, -1, 0, 0, <<>>), 0 + 1 + 1)
  <2>1. Run(At(-1, -1, 0, 0, <<>>)).end = "crashed"
    BY GoNowhere
  <2>2. Fails(At(-1, -1, 0, 0, <<>>), 0 + 1)
    BY <2>1, FailsAtOnce
  <2> QED
    BY <1>6, <1>8, <2>2, FailsStep
<1>9. ASSUME NEW k \in 0 .. 3, k < w PROVE code[f + k] = JumpWord(f, t, k)
  <2>1. k \in 0 .. w - 1
    BY <1>1, <1>9
  <2> QED
    BY <2>1
<1>10. ASSUME NEW k \in 0 .. 3, ~(k < w) PROVE code[f + k][1] # "data"
  <2>1. k \in w .. Length[f] - 1
    BY <1>1, <1>2, <1>10
  <2>2. code[f + k] = <<"orig", f, k>>
    BY <2>1
  <2> QED
    BY <2>2
<1>11. CASE Lead(f) = 0
  <2>1. code[f] = <<"ldr17", f2>>
    <3>1. 0 \in 0 .. 3 /\ 0 < w
      BY <1>1
    <3>2. code[f + 0] = JumpWord(f, t, 0)
      BY <1>9, <3>1
    <3> QED
      BY <1>3, <1>5, <1>11, <3>2, FarWords
  <2>2. code[f2][1] # "data"
    <3>1. 2 \in 0 .. 3 /\ ~(2 < w)
      BY <1>11
    <3> QED
      BY <1>5, <1>10, <3>1
  <2>3. \A trace : Run(At(f, -1, 0, 0, trace)) = At(f1, -1, 0, 0, trace)
    BY <1>3, <1>4, <2>1, <2>2, GoLoad
  <2>4. CASE w = 1
    <3>1. 1 \in 1 .. 2 /\ 1 >= w
      BY <2>4
    <3>2. Does(f1, -1, 0, l - 1, Origs(1, l))
      BY <1>4, <1>7, <3>1
    <3>3. /\ l - 1 \in Nat /\ l - 1 + 1 \in Nat /\ l - 1 + 1 <= l + 2 /\ l + 2 \in Nat
      BY <1>7, <3>1
    <3>4. Does(f, -1, 0, l - 1 + 1, Origs(1, l))
      BY <2>3, <3>2, <3>3, DoesStep
    <3>5. Does(f, -1, 0, l + 2, Origs(1, l))
      BY <3>3, <3>4, DoesLater
    <3> QED
      BY <1>2, <3>1, <3>5
  <2>5. CASE w = 2
    <3>1. 1 \in 0 .. 3 /\ 1 < w
      BY <2>5
    <3>2. code[f1] = <<"br17">>
      BY <1>4, <1>9, <1>11, <3>1, FarWords
    <3>3. Run(At(f1, -1, 0, 0, <<>>)) = At(-1, -1, 0, 0, <<>>)
      BY <3>2, GoBr
    <3>4. Fails(At(f1, -1, 0, 0, <<>>), 0 + 1 + 1)
      BY <1>8, <3>3
    <3>5. Run(At(f, -1, 0, 0, <<>>)) = At(f1, -1, 0, 0, <<>>)
      BY <2>3
    <3>6. Fails(At(f, -1, 0, 0, <<>>), 0 + 1 + 1 + 1)
      BY <1>6, <3>4, <3>5, FailsStep
    <3> QED
      BY <1>6, <3>6
  <2>6. w \in {1, 2}
    BY <1>11
  <2> QED
    BY <2>4, <2>5, <2>6
<1>12. CASE Lead(f) = 1
  <2>1. code[f] = <<"nop">>
    <3>1. 0 \in 0 .. 3 /\ 0 < w
      BY <1>1
    <3>2. code[f + 0] = JumpWord(f, t, 0)
      BY <1>9, <3>1
    <3> QED
      BY <1>3, <1>12, <3>2, FarWords
  <2>2. code[f + 3][1] # "data"
    <3>1. 3 \in 0 .. 3 /\ ~(3 < w)
      BY <1>12
    <3> QED
      BY <1>10, <3>1
  <2>3. \A trace : Run(At(f, -1, 0, 0, trace)) = At(f1, -1, 0, 0, trace)
    BY <1>3, <1>4, <2>1, GoNop
  <2>4. CASE w = 1
    <3>1. 1 \in 1 .. 2 /\ 1 >= w
      BY <2>4
    <3>2. Does(f1, -1, 0, l - 1, Origs(1, l))
      BY <1>4, <1>7, <3>1
    <3>3. /\ l - 1 \in Nat /\ l - 1 + 1 \in Nat /\ l - 1 + 1 <= l + 2 /\ l + 2 \in Nat
      BY <1>7, <3>1
    <3>4. Does(f, -1, 0, l - 1 + 1, Origs(1, l))
      BY <2>3, <3>2, <3>3, DoesStep
    <3>5. Does(f, -1, 0, l + 2, Origs(1, l))
      BY <3>3, <3>4, DoesLater
    <3> QED
      BY <1>2, <3>1, <3>5
  <2>5. ASSUME w \in {2, 3}
        PROVE  \A trace : Run(At(f1, -1, 0, 0, trace)) = At(f2, -1, 0, 0, trace)
    <3>1. 1 \in 0 .. 3 /\ 1 < w
      BY <2>5
    <3>2. code[f1] = <<"ldr17", f + 3>>
      BY <1>4, <1>9, <1>12, <3>1, FarWords
    <3> QED
      BY <1>5, <2>2, <3>2, GoLoad
  <2>6. CASE w = 2
    <3>1. 2 \in 1 .. 2 /\ 2 >= w
      BY <2>6
    <3>2. Does(f2, -1, 0, l - 2, Origs(2, l))
      BY <1>5, <1>7, <3>1
    <3>3. /\ l - 2 \in Nat /\ l - 2 + 1 \in Nat /\ l - 2 + 1 + 1 \in Nat
          /\ l - 2 + 1 + 1 <= l + 2 /\ l + 2 \in Nat
      BY <1>7, <3>1
    <3>4. Does(f1, -1, 0, l - 2 + 1, Origs(2, l))
      BY <2>5, <2>6, <3>2, <3>3, DoesStep
    <3>5. Does(f, -1, 0, l - 2 + 1 + 1, Origs(2, l))
      BY <2>3, <3>3, <3>4, DoesStep
    <3>6. Does(f, -1, 0, l + 2, Origs(2, l))
      BY <3>3, <3>5, DoesLater
    <3> QED
      BY <1>2, <3>1, <3>6
  <2>7. CASE w = 3
    <3>1. 2 \in 0 .. 3 /\ 2 < w
      BY <2>7
    <3>2. code[f2] = <<"br17">>
      BY <1>5, <1>9, <1>12, <3>1, FarWords
    <3>3. Run(At(f2, -1, 0, 0, <<>>)) = At(-1, -1, 0, 0, <<>>)
      BY <3>2, GoBr
    <3>4. Fails(At(f2, -1, 0, 0, <<>>), 0 + 1 + 1)
      BY <1>8, <3>3
    <3>5. Run(At(f1, -1, 0, 0, <<>>)) = At(f2, -1, 0, 0, <<>>)
          /\ Run(At(f, -1, 0, 0, <<>>)) = At(f1, -1, 0, 0, <<>>)
      BY <2>3, <2>5, <2>7
    <3>6. Fails(At(f1, -1, 0, 0, <<>>), 0 + 1 + 1 + 1)
      BY <1>6, <3>4, <3>5, FailsStep
    <3>7. Fails(At(f, -1, 0, 0, <<>>), 0 + 1 + 1 + 1 + 1)
      BY <1>6, <3>5, <3>6, FailsStep
    <3> QED
      BY <1>6, <3>7
  <2>8. w \in {1, 2, 3}
    BY <1>12
  <2> QED
    BY <2>4, <2>6, <2>7, <2>8
<1> QED
  BY <1>1, <1>11, <1>12

(* How what is expected of a call begins.                                  *)
LEMMA ExpectedBegins ==
    ASSUME NEW f \in Functions, NEW hooks \in Seq(Hooks)
    PROVE  /\ Len(hooks) = 0 => Expected(f, hooks)[1] = <<"orig", 0>>
           /\ \A n \in 1 .. Len(hooks) : n = Len(hooks) => Expected(f, hooks)[1] = <<"cb", hooks[n]>>
<1>1. PICK after : After(f, hooks, after) /\ Expected(f, hooks) = after[Len(hooks)]
  BY ExpectedAfter, Zenon
<1>2. ASSUME Len(hooks) = 0 PROVE Expected(f, hooks)[1] = <<"orig", 0>>
  <2>1. Expected(f, hooks) = Untouched(f)
    BY <1>1, <1>2, Zenon DEF After
  <2>2. PICK l \in Nat : l = Length[f] /\ 1 \in 1 .. l
    BY LengthAssumption
  <2>3. Untouched(f) = [k \in 1 .. l |-> <<"orig", k - 1>>]
    BY <2>2 DEF Untouched
  <2>4. Untouched(f)[1] = <<"orig", 1 - 1>>
    BY <2>2, <2>3
  <2> QED
    BY <2>1, <2>4
<1>3. ASSUME NEW n \in 1 .. Len(hooks), n = Len(hooks)
      PROVE  Expected(f, hooks)[1] = <<"cb", hooks[n]>>
  BY <1>1, <1>3, Zenon DEF After
<1> QED
  BY <1>2, <1>3

(* A call that begins otherwise is not what is expected.                   *)
LEMMA BeginsOtherwise ==
    ASSUME NEW f \in Functions, Len(live[f]) \in Nat, NEW m \in Nat, m <= MaxSteps(f),
           NEW rest \in Seq(Events), Does(f, -1, 0, m, rest),
           NEW trace, trace[1] # rest[1]
    PROVE  ~Completes(f, trace)
<1>1. Completes(f, rest)
  BY CompletesBy
<1>2. rest # trace
  OBVIOUS
<1> QED
  BY <1>1, <1>2, Zenon DEF Completes

LEMMA SkippedOrigs ==
    ASSUME NEW f \in Functions, NEW k \in 1 .. 2
    PROVE  Origs(k, Length[f]) \in Seq(Events) /\ Origs(k, Length[f])[1] = <<"orig", k>>
<1>1. PICK l \in Nat : l = Length[f] /\ l >= 5
  BY LengthAssumption
<1>2. k \in Nat /\ k <= l /\ 1 \in 1 .. l - k /\ k + 1 - 1 = k
  BY <1>1
<1>3. Origs(k, l) \in Seq(Events)
  BY <1>2, OrigsAreEvents
<1>4. Origs(k, l)[1] = <<"orig", k + 1 - 1>>
  BY <1>2 DEF Origs
<1> QED
  BY <1>1, <1>2, <1>3, <1>4

(* A part of a jump that is not laid over another far one: a call loses    *)
(* its way, or skips something.                                            *)
LEMMA PartOfJump ==
    ASSUME NEW target, NEW layer, NEW written, HookInv(target, layer, written), PoolInv,
           job.func \in Functions, written # 0, job.phase = "patch",
           live[job.func] # <<>> => IsNear(job.func, Last(live[job.func])),
           ~Breaks(job.func, Append(live[job.func], job.hook)),
           NEW hooks, hooks = live[job.func] \/ hooks = Append(live[job.func], job.hook)
    PROVE  ~Completes(job.func, Expected(job.func, hooks))
<1>1. PICK f \in Functions : f = job.func
  OBVIOUS
<1>2. FunctionInv(target, layer, written) /\ LayerInv(target, layer) /\ LiveInv
  BY Zenon DEF HookInv
<1>3. live[f] \in Seq(Hooks) /\ f \in Nat /\ Lead(f) \in {0, 1} /\ Len(live[f]) \in Nat
  BY HooksOf
<1>4. PICK n \in Nat : n = Len(live[f])
  BY <1>3
<1>5. job.phase # "none"
  OBVIOUS
<1>6. PICK h \in Hooks : h = job.hook /\ (IsNear(f, h) <=> Near(f, target[h]))
  BY <1>1, <1>5, JobHook
<1>7. PICK t : t = target[h] /\ ~Near(f, t) /\ written \in 1 .. 2 + Lead(f)
  BY <1>1, <1>6, WrittenOf
<1>8. /\ ~Breaks(f, live[f])
      /\ \A i \in 1 .. Len(live[f]) : IsNear(f, live[f][i]) => Kind[live[f][i]] = "replace"
  BY <1>1, <1>3, <1>6, <1>7, BreaksOfMore
<1>9. Ready(target, layer, written, f)
  BY <1>8, Zenon DEF Ready
<1>10. n # 0 => n \in 1 .. n /\ IsNear(f, live[f][n])
  <2>1. ASSUME n # 0 PROVE n \in 1 .. n /\ IsNear(f, live[f][n])
    <3>1. live[f] # <<>>
      BY <1>4, <2>1
    <3>2. Last(live[f]) = live[f][n]
      BY <1>4 DEF Last
    <3> QED
      BY <1>1, <2>1, <3>1, <3>2
  <2> QED
    BY <2>1
<1>11. \/ Expected(f, hooks)[1] = <<"orig", 0>>
       \/ n # 0 /\ Expected(f, hooks)[1] = <<"cb", live[f][n]>>
       \/ Expected(f, hooks)[1] = <<"cb", h>>
  <2>1. CASE hooks = live[f]
    <3>1. n = 0 \/ n \in 1 .. Len(hooks)
      BY <1>4, <2>1
    <3>2. hooks \in Seq(Hooks)
      BY <1>3, <2>1
    <3> QED
      BY <1>4, <2>1, <3>1, <3>2, ExpectedBegins
  <2>2. CASE hooks = Append(live[f], h)
    <3>1. hooks \in Seq(Hooks) /\ n + 1 \in 1 .. Len(hooks) /\ n + 1 = Len(hooks) /\ hooks[n + 1] = h
      BY <1>3, <1>4, <2>2
    <3> QED
      BY <3>1, ExpectedBegins
  <2> QED
    BY <1>1, <1>6, <2>1, <2>2
<1>12. PICK trace : trace = Expected(f, hooks)
  OBVIOUS
<1>13. ASSUME NEW k \in 0 .. 4
       PROVE  code[f + k] = IF k < written THEN JumpWord(f, t, k) ELSE layer[f][n][k]
  <2>1. code[f + k] = IF f = job.func /\ k < written THEN JumpWord(f, target[job.hook], k)
                      ELSE layer[f][Len(live[f])][k]
    BY <1>2, Zenon DEF FunctionInv
  <2> QED
    BY <1>1, <1>4, <1>6, <1>7, <2>1
<1>14. FarShape(target, layer, f, n)
  <2>1. n \in 0 .. Len(live[f])
    BY <1>4
  <2> QED
    BY <1>2, <2>1, LayerShape
<1>15. CASE \A k \in 1 .. 4 : layer[f][n][k] = <<"orig", f, k>>
  <2>1. ASSUME NEW k \in 0 .. written - 1 PROVE code[f + k] = JumpWord(f, t, k)
    <3>1. k \in 0 .. 4 /\ k < written
      BY <1>3, <1>7
    <3> QED
      BY <1>13, <3>1
  <2>2. ASSUME NEW k \in written .. Length[f] - 1 PROVE code[f + k] = <<"orig", f, k>>
    <3>1. CASE k >= 5
      <4>1. k \in 3 + Lead(f) .. Length[f] - 1
        BY <1>3, <1>7, <3>1, LengthAssumption
      <4> QED
        BY <4>1, BehindJumps
    <3>2. CASE ~(k >= 5)
      <4>1. k \in 0 .. 4 /\ k \in 1 .. 4 /\ ~(k < written)
        BY <1>3, <1>7, <3>2
      <4> QED
        BY <1>13, <1>15, <4>1
    <3> QED
      BY <3>1, <3>2
  <2>3. \/ \E m \in 0 .. 9 : Fails(At(f, -1, 0, 0, <<>>), m)
        \/ \E k \in 1 .. 2 : Does(f, -1, 0, Length[f] + 2, Origs(k, Length[f]))
    <3>1. \A k \in 0 .. written - 1 : code[f + k] = JumpWord(f, t, k)
      BY <2>1
    <3>2. \A k \in written .. Length[f] - 1 : code[f + k] = <<"orig", f, k>>
      BY <2>2
    <3> QED
      BY <1>7, <3>1, <3>2, HalfJump
  <2>4. CASE \E m \in 0 .. 9 : Fails(At(f, -1, 0, 0, <<>>), m)
    BY <1>1, <1>3, <2>4, FailsCompletesNot
  <2>5. CASE \E k \in 1 .. 2 : Does(f, -1, 0, Length[f] + 2, Origs(k, Length[f]))
    <3>1. PICK k \in 1 .. 2 : Does(f, -1, 0, Length[f] + 2, Origs(k, Length[f]))
      BY <2>5
    <3>2. PICK rest \in Seq(Events) : rest = Origs(k, Length[f]) /\ rest[1] = <<"orig", k>>
      BY SkippedOrigs
    <3>3. PICK m \in Nat : m = Length[f] + 2 /\ m <= MaxSteps(f)
      <4>1. PICK l \in Nat : l = Length[f]
        BY LengthAssumption
      <4>2. MaxSteps(f) = l + 12 * (n + 2)
        BY <1>4, <4>1, Zenon DEF MaxSteps
      <4>3. l + 2 \in Nat /\ l + 2 <= l + 12 * (n + 2)
        BY <1>4, <4>1
      <4> QED
        BY <4>1, <4>2, <4>3
    <3>4. trace[1] # rest[1]
      BY <1>11, <1>12, <3>2
    <3>5. Does(f, -1, 0, m, rest)
      BY <3>1, <3>2, <3>3
    <3>6. ~Completes(f, trace)
      BY <1>3, <3>3, <3>4, <3>5, BeginsOtherwise
    <3> QED
      BY <1>1, <1>12, <3>6
  <2> QED
    BY <2>3, <2>4, <2>5
<1>16. CASE \E p \in 1 .. n :
              /\ ~Near(f, target[live[f][p]])
              /\ \A k \in 1 .. 2 + Lead(f) : layer[f][n][k] = JumpWord(f, target[live[f][p]], k)
  <2>1. PICK p \in 1 .. n :
              /\ ~Near(f, target[live[f][p]])
              /\ \A k \in 1 .. 2 + Lead(f) : layer[f][n][k] = JumpWord(f, target[live[f][p]], k)
    BY <1>16
  <2>2. p \in 1 .. Len(live[f])
    BY <1>4
  <2>3. PICK u : u = target[live[f][p]]
    OBVIOUS
  <2>4. p # n
    <3>1. ~IsNear(f, live[f][p])
      BY <1>9, <2>1, <2>2, ReadyHooks
    <3> QED
      BY <1>10, <3>1
  <2>5. ASSUME NEW k \in 0 .. 2 + Lead(f) PROVE code[f + k] = JumpWord(f, u, k)
    <3>1. k \in 0 .. 4
      BY <1>3
    <3>2. CASE k < written
      <4>1. k < 2 + Lead(f)
        BY <1>3, <1>7, <3>2
      <4>2. JumpWord(f, t, k) = JumpWord(f, u, k)
        BY <1>3, <1>7, <2>1, <2>3, <4>1 DEF JumpWord
      <4> QED
        BY <1>13, <3>1, <3>2, <4>2
    <3>3. CASE ~(k < written)
      <4>1. k \in 1 .. 2 + Lead(f)
        BY <1>3, <1>7, <3>3
      <4> QED
        BY <1>13, <2>1, <2>3, <3>1, <3>3, <4>1
    <3> QED
      BY <3>2, <3>3
  <2>6. PICK after : After(f, live[f], after)
    BY <1>3, ExpectedAfter, Zenon
  <2>7. PICK rest \in Seq(Events) : rest = after[p]
    <3>1. p \in 0 .. Len(live[f])
      BY <2>2
    <3> QED
      BY <1>3, <2>6, <3>1, AfterIsTrace, Zenon
  <2>8. rest[1] = <<"cb", live[f][p]>>
    BY <2>2, <2>6, <2>7, Zenon DEF After
  <2>9. PICK m \in Nat : m = HookSteps(f, p) /\ m + 3 \in Nat /\ m + 3 <= MaxSteps(f)
    <3>1. HookSteps(f, p) \in Nat /\ HookSteps(f, p) + 16 <= MaxSteps(f)
      BY <1>3, <2>2, EnoughSteps
    <3>2. MaxSteps(f) \in Nat
      BY <1>4, LengthAssumption DEF MaxSteps
    <3> QED
      BY <3>1, <3>2
  <2>10. Does(u, u, 0, m, rest)
    <3>1. HookDoes(target, f, after, p)
      BY <1>9, <2>2, <2>6, HooksDo
    <3> QED
      BY <2>3, <2>7, <2>9, <3>1, Zenon DEF HookDoes
  <2>11. Does(f, -1, 0, m + 3, rest)
    <3>1. \A k \in 0 .. 2 + Lead(f) : code[f + k] = JumpWord(f, u, k)
      BY <2>5
    <3> QED
      BY <2>1, <2>3, <2>10, <3>1, FarJump
  <2>12. trace[1] # rest[1]
    <3>1. live[f][p] # h
      BY <1>2, <1>6, <2>2, Zenon DEF LiveInv
    <3>2. n # 0 => live[f][p] # live[f][n]
      <4>1. ASSUME n # 0 PROVE live[f][p] # live[f][n]
        <5>1. n \in 1 .. Len(live[f])
          BY <1>4, <4>1
        <5> QED
          BY <1>2, <2>2, <2>4, <5>1, Zenon DEF LiveInv
      <4> QED
        BY <4>1
    <3> QED
      BY <1>11, <1>12, <2>8, <3>1, <3>2
  <2>13. ~Completes(f, trace)
    BY <1>3, <2>9, <2>11, <2>12, BeginsOtherwise
  <2> QED
    BY <1>1, <1>12, <2>13
<1> QED
  BY <1>14, <1>15, <1>16, Zenon DEF FarShape

LEMMA CallsOfCode ==
    ASSUME NEW target, NEW layer, NEW written, HookInv(target, layer, written), PoolInv
    PROVE  \A f \in Functions : ~Breaks(f, WithJob(f)) =>
               (Exposed(f) <=> ~(Completes(f, Expected(f, live[f]))
                                 \/ Completes(f, Expected(f, WithJob(f)))))
<1> SUFFICES ASSUME NEW f \in Functions, ~Breaks(f, WithJob(f))
             PROVE  Exposed(f) <=> ~(Completes(f, Expected(f, live[f]))
                                     \/ Completes(f, Expected(f, WithJob(f))))
  OBVIOUS
<1>1. JobInv(target, written)
  BY Zenon DEF HookInv
<1>2. live[f] \in Seq(Hooks)
  BY HooksOf
<1>3. ASSUME f = job.func, job.phase # "none"
      PROVE  WithJob(f) = Append(live[f], job.hook) /\ job.hook \in Hooks
  BY <1>3, JobHook, Zenon DEF WithJob
<1>4. CASE f # job.func \/ written = 0
  <2>1. ~Exposed(f)
    BY <1>4, NotExposed
  <2>2. ~Breaks(f, live[f])
    <3>1. CASE f = job.func /\ job.phase # "none"
      <4>1. ~Breaks(f, Append(live[f], job.hook)) /\ job.hook \in Hooks
        BY <1>3, <3>1
      <4> QED
        BY <1>2, <4>1, BreaksOfMore
    <3>2. CASE ~(f = job.func /\ job.phase # "none")
      <4>1. ~(f = job.func /\ job # NoJob)
        BY <1>1, <3>2, Zenon DEF JobInv
      <4>2. WithJob(f) = live[f]
        BY <4>1, Zenon DEF WithJob
      <4> QED
        BY <4>2
    <3> QED
      BY <3>1, <3>2
  <2>3. Completes(f, Expected(f, live[f]))
    BY <1>4, <2>2, BeforeTheJump
  <2> QED
    BY <2>1, <2>3
<1>5. CASE f = job.func /\ written # 0
  <2>1. job.func \in Functions
    BY <1>5
  <2>2. CASE job.phase = "link"
    <3>1. Exposed(f) <=> Kind[job.hook] # "replace"
      BY <1>5, <2>2 DEF Exposed
    <3>2. WithJob(f) = Append(live[f], job.hook)
      BY <1>3, <1>5, <2>2
    <3>3. CASE Kind[job.hook] = "replace"
      <4>1. Completes(f, Expected(f, WithJob(f)))
        BY <1>5, <2>1, <2>2, <3>2, <3>3, ReplacementAtOnce
      <4> QED
        BY <3>1, <3>3, <4>1
    <3>4. CASE Kind[job.hook] # "replace"
      <4>1. \A trace : ~Completes(f, trace)
        BY <1>5, <2>1, <2>2, <3>4, NotLinked
      <4> QED
        BY <3>1, <3>4, <4>1
    <3> QED
      BY <3>3, <3>4
  <2>3. CASE job.phase = "patch"
    <3>1. WithJob(f) = Append(live[f], job.hook)
      BY <1>3, <1>5, <2>3
    <3>2. Len(job.left) < Len(Patches(f, Target(job)))
      BY <1>5, <2>1, <2>3, WrittenOf
    <3>3. Exposed(f) <=> (live[f] # <<>> => IsNear(f, Last(live[f])))
      BY <1>5, <2>3, <3>2 DEF Exposed
    <3>4. ~Breaks(job.func, Append(live[job.func], job.hook))
      BY <1>5, <3>1
    <3>5. CASE live[f] # <<>> /\ ~IsNear(f, Last(live[f]))
      <4>1. Completes(f, Expected(f, live[f]))
        BY <1>5, <2>1, <2>3, <3>4, <3>5, OverAnother
      <4> QED
        BY <3>3, <3>5, <4>1
    <3>6. CASE live[f] # <<>> => IsNear(f, Last(live[f]))
      <4>1. live[job.func] # <<>> => IsNear(job.func, Last(live[job.func]))
        BY <1>5, <3>6
      <4>2. ~Completes(f, Expected(f, live[f]))
        BY <1>5, <2>1, <2>3, <3>4, <4>1, PartOfJump
      <4>3. ~Completes(f, Expected(f, WithJob(f)))
        BY <1>5, <2>1, <2>3, <3>1, <3>4, <4>1, PartOfJump
      <4> QED
        BY <3>3, <3>6, <4>2, <4>3
    <3> QED
      BY <3>5, <3>6
  <2>4. job.phase \in {"link", "patch"}
    BY <1>5, <2>1, WrittenOf
  <2> QED
    BY <2>2, <2>3, <2>4
<1> QED
  BY <1>4, <1>5

(* A call of a hooked function runs its hooks, newest first, and then what *)
(* they left of the function, or it does so without the hook that is being *)
(* installed: whenever it comes, whatever is hooked, wherever the functions*)
(* and the pools lie.  It never does so while the function jumps to a hook *)
(* that is not linked, nor while part of a jump is written that is not laid*)
(* over another far one.                                                   *)
THEOREM EveryCallRunsItsHooks == Spec => []CallsRunTheirHooks
<1>1. CodeInv => CallsRunTheirHooks
  BY CallsOfCode, Zenon DEF CodeInv, CallsRunTheirHooks
<1> QED
  BY <1>1, CodeIsWellLaid, PTL
====
