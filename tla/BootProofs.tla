---- MODULE BootProofs ----
(***************************************************************************)
(* The program from its start on: what it finds, for any memory, any       *)
(* kernel and any size of the table of modules, and who waits for whom     *)
(* when it gets the process's handle; then the overlay on the game's       *)
(* pictures, its inputs, frames, beginning and screen; then the modules    *)
(* that the run-time loader binds.                                         *)
(***************************************************************************)
EXTENDS Boot, TLAPS, WellFoundedInduction, SequenceTheorems

L == Len(memory.ranges)

Infos == [text : Nat, rodata : Nat, data : Nat]

(* A module the walk found is one, and lies within what was walked.        *)
Found(m, last) ==
    /\ m.text \in 1 .. L
    /\ BeginsModule(m.text)
    /\ m = ModuleAt(m.text)
    /\ m.data <= last

Ordered(s) == \A i, j \in DOMAIN s : i < j => s[i].data < s[j].text

SelfKnown == s_SelfModuleIdx \in 0 .. Len(s_ModuleInfos) - 1
             /\ s_ModuleInfos[s_SelfModuleIdx + 1].text = memory.self

(* What the walk kept, at any time.                                        *)
Kept ==
    /\ memory \in Maps
    /\ s_ModuleInfos \in Seq(Infos)
    /\ \A i \in DOMAIN s_ModuleInfos : Found(s_ModuleInfos[i], L)
    /\ Ordered(s_ModuleInfos)
    /\ s_SelfModuleIdx = -1 \/ SelfKnown
    /\ Len(s_ModuleInfos) <= MaxModules

Complete(last) ==
    \A i \in 1 .. L : BeginsModule(i) /\ i + 2 <= last =>
        \E k \in DOMAIN s_ModuleInfos : s_ModuleInfos[k].text = i

(* What the walk has begun to recognise is there, and behind all it found. *)
Begun ==
    /\ walk.at \in 0 .. L
    /\ walk.found \in [state : {"LookingForCodeStatic", "ExpectingRodata", "ExpectingData"},
                       text : Nat, rodata : Nat]
    /\ \A i \in DOMAIN s_ModuleInfos : s_ModuleInfos[i].data <= walk.at
    /\ walk.found.state = "ExpectingRodata" =>
            /\ walk.at >= 1 /\ walk.found.text = walk.at /\ memory.ranges[walk.at] = "text"
            /\ \A i \in DOMAIN s_ModuleInfos : s_ModuleInfos[i].data < walk.at
    /\ walk.found.state = "ExpectingData" =>
            /\ walk.at >= 2 /\ walk.found.text = walk.at - 1 /\ walk.found.rodata = walk.at
            /\ memory.ranges[walk.at - 1] = "text" /\ memory.ranges[walk.at] = "rodata"
            /\ \A i \in DOMAIN s_ModuleInfos : s_ModuleInfos[i].data < walk.at - 1
    /\ walk.at \in {0, L} => walk.found.state = "LookingForCodeStatic"

(* Nothing whole was missed where the loader left nothing broken.          *)
NoneMissed ==
    WholeModules =>
        /\ walk.at >= 1 /\ memory.ranges[walk.at] = "text" => walk.found.state = "ExpectingRodata"
        /\ walk.at >= 2 /\ memory.ranges[walk.at - 1] = "text" => walk.found.state = "ExpectingData"
        /\ Complete(walk.at)

(* After the walk.                                                         *)
WalkDone ==
    /\ s_SelfModuleIdx # -1
    /\ Len(s_ModuleInfos) < MaxModules
    /\ WholeModules => Complete(L)

WalkInv ==
    /\ Kept
    /\ phase = "walk" /\ status = "running" => Begun /\ NoneMissed
    /\ phase # "walk" => WalkDone

----
LEMMA MapShape ==
    ASSUME memory \in Maps
    PROVE  /\ memory.ranges \in Seq(Kinds) /\ L \in Nat /\ L >= 2
           /\ memory.ranges[L] = "other"
           /\ DOMAIN memory.ranges = 1 .. L
           /\ \A i \in 1 .. L : memory.ranges[i] \in Kinds
  BY MapsAssumption DEF L

(* The walk goes one range on, except at the end, where it begins anew.    *)
LEMMA WhereNext ==
    ASSUME memory \in Maps, walk.at \in 0 .. L
    PROVE  /\ walk.at < L => NextRange = walk.at + 1
           /\ walk.at = L => NextRange = 1
  BY MapShape DEF NextRange, L

(* What one round of the walk does.                                        *)
LEMMA RoundFacts ==
    ASSUME Kept, walk.at \in 0 .. L, FindModules
    PROVE  /\ memory' = memory
           /\ walk'.at = NextRange
           /\ walk'.found = Recognise(walk.found, memory.ranges[NextRange], NextRange)
           /\ CompletesModule(walk.found, memory.ranges[NextRange]) =>
                /\ s_ModuleInfos' = Append(s_ModuleInfos,
                        [text |-> walk.found.text, rodata |-> walk.found.rodata, data |-> NextRange])
                /\ s_SelfModuleIdx' = IF walk.found.text = memory.self THEN Len(s_ModuleInfos)
                                      ELSE s_SelfModuleIdx
           /\ ~CompletesModule(walk.found, memory.ranges[NextRange]) =>
                s_ModuleInfos' = s_ModuleInfos /\ s_SelfModuleIdx' = s_SelfModuleIdx
           /\ Len(s_ModuleInfos) < MaxModules
           /\ walk.at < L => phase' = phase /\ status' = status
           /\ walk.at = L => \/ phase' = "regions" /\ s_SelfModuleIdx' # -1
                             \/ phase' = phase /\ status' = "aborted"
  <1>1. /\ walk.at < L => NextRange >= walk.at
        /\ walk.at = L => ~(NextRange >= walk.at)
    BY WhereNext, MapShape DEF Kept
  <1>2. Len(s_ModuleInfos) < MaxModules
    BY MaxModulesAssumption DEF FindModules, TableFull, Kept
  <1>3. walk' = [at |-> NextRange,
                 found |-> Recognise(walk.found, memory.ranges[NextRange], NextRange)]
    BY Zenon DEF FindModules
  <1>4. /\ walk'.at = NextRange
        /\ walk'.found = Recognise(walk.found, memory.ranges[NextRange], NextRange)
    BY <1>3
  <1> QED
    BY Zenon, <1>1, <1>2, <1>4 DEF FindModules, processVars, Continue, Abort

LEMMA Recognised ==
    ASSUME NEW found, NEW kind, NEW at
    PROVE  /\ found.state = "LookingForCodeStatic" /\ kind = "text" =>
                Recognise(found, kind, at) = [state |-> "ExpectingRodata", text |-> at, rodata |-> 0]
           /\ found.state = "ExpectingRodata" /\ kind = "rodata" =>
                Recognise(found, kind, at) = [state |-> "ExpectingData", text |-> found.text, rodata |-> at]
           /\ ~(found.state = "LookingForCodeStatic" /\ kind = "text")
              /\ ~(found.state = "ExpectingRodata" /\ kind = "rodata") =>
                Recognise(found, kind, at) = Looking
  BY Zenon DEF Recognise

(* A round away from the end that completes a module.                      *)
LEMMA Completing ==
    ASSUME WalkInv, phase = "walk", status = "running", FindModules, walk.at < L,
           CompletesModule(walk.found, memory.ranges[NextRange])
    PROVE  Kept' /\ Begun' /\ NoneMissed'
  <1> DEFINE new == [text |-> walk.found.text, rodata |-> walk.found.rodata, data |-> NextRange]
  <1>1. Kept /\ Begun /\ NoneMissed
    BY Zenon DEF WalkInv
  <1>2. memory \in Maps /\ walk.at \in 0 .. L /\ NextRange = walk.at + 1 /\ L \in Nat /\ L >= 2
    BY <1>1, MapShape, WhereNext DEF Kept, Begun
  <1>3. /\ memory' = memory
        /\ walk'.at = walk.at + 1
        /\ walk'.found = Looking
        /\ s_ModuleInfos' = Append(s_ModuleInfos, new)
        /\ s_SelfModuleIdx' = IF walk.found.text = memory.self THEN Len(s_ModuleInfos)
                              ELSE s_SelfModuleIdx
        /\ Len(s_ModuleInfos) < MaxModules
    <2>1. Recognise(walk.found, memory.ranges[NextRange], NextRange) = Looking
      <3>1. walk.found.state = "ExpectingData" /\ memory.ranges[NextRange] = "data"
        BY Zenon DEF CompletesModule
      <3>2. walk.found.state # "LookingForCodeStatic" /\ walk.found.state # "ExpectingRodata"
        BY <3>1
      <3> QED
        BY Zenon, <3>2, Recognised
    <2> QED
      BY Zenon, <1>1, <1>2, <2>1, RoundFacts
  <1>4. /\ walk.at >= 2 /\ walk.found.text = walk.at - 1 /\ walk.found.rodata = walk.at
        /\ memory.ranges[walk.at - 1] = "text" /\ memory.ranges[walk.at] = "rodata"
        /\ memory.ranges[walk.at + 1] = "data"
        /\ \A i \in DOMAIN s_ModuleInfos : s_ModuleInfos[i].data < walk.at - 1
    BY <1>1, <1>2 DEF Begun, CompletesModule
  <1>5. Found(new, walk.at + 1) /\ new.text = walk.at - 1 /\ new.data = walk.at + 1
        /\ new \in Infos
    BY <1>2, <1>4, SMTT(60) DEF Found, BeginsModule, ModuleAt, L, Infos
  <1>6. /\ s_ModuleInfos' \in Seq(Infos)
        /\ Len(s_ModuleInfos') = Len(s_ModuleInfos) + 1
        /\ DOMAIN s_ModuleInfos' = 1 .. Len(s_ModuleInfos) + 1
        /\ DOMAIN s_ModuleInfos = 1 .. Len(s_ModuleInfos)
        /\ \A i \in 1 .. Len(s_ModuleInfos) :
                s_ModuleInfos[i].data \in Nat /\ s_ModuleInfos'[i] = s_ModuleInfos[i]
        /\ s_ModuleInfos'[Len(s_ModuleInfos) + 1] = new
        /\ Len(s_ModuleInfos) \in Nat
    <2>1. s_ModuleInfos \in Seq(Infos) /\ new \in Infos
      BY Zenon, <1>1, <1>5 DEF Kept
    <2>2. \A i \in 1 .. Len(s_ModuleInfos) : s_ModuleInfos[i] \in Infos
      BY <2>1
    <2>3. \A i \in 1 .. Len(s_ModuleInfos) : s_ModuleInfos[i].data \in Nat
      BY <2>2 DEF Infos
    <2> HIDE DEF new
    <2> QED
      BY <1>3, <2>1, <2>3
  <1>8. \A i \in 1 .. Len(s_ModuleInfos) :
            Found(s_ModuleInfos[i], L) /\ s_ModuleInfos[i].data < walk.at - 1
            /\ s_ModuleInfos[i].data \in Nat
    <2>1. \A i \in 1 .. Len(s_ModuleInfos) : Found(s_ModuleInfos[i], L)
      BY Zenon, <1>1, <1>6 DEF Kept
    <2>2. \A i \in 1 .. Len(s_ModuleInfos) : s_ModuleInfos[i].data < walk.at - 1
      BY Zenon, <1>4, <1>6
    <2> QED
      BY Zenon, <2>1, <2>2, <1>6
  <1>9. L' = L /\ Found(new, L)
    BY <1>2, <1>3, <1>5 DEF L, Found
  <1>10. (\A i \in DOMAIN s_ModuleInfos : Found(s_ModuleInfos[i], L))'
    <2>1. \A i \in 1 .. Len(s_ModuleInfos) + 1 : Found(s_ModuleInfos'[i], L)
      BY <1>6, <1>8, <1>9
    <2> QED
      BY Zenon, <2>1, <1>3, <1>6, <1>9 DEF Found, BeginsModule, L
  <1>11. Ordered(s_ModuleInfos)'
    <2> SUFFICES ASSUME NEW i \in 1 .. Len(s_ModuleInfos) + 1, NEW j \in 1 .. Len(s_ModuleInfos) + 1,
                        i < j
                 PROVE  s_ModuleInfos'[i].data < s_ModuleInfos'[j].text
      BY Zenon, <1>6 DEF Ordered
    <2>1. CASE j = Len(s_ModuleInfos) + 1
      <3>1. i \in 1 .. Len(s_ModuleInfos)
        BY <1>6, <2>1
      <3> QED
        BY <1>5, <1>6, <1>8, <2>1, <3>1
    <2>2. CASE j # Len(s_ModuleInfos) + 1
      <3>1. i \in 1 .. Len(s_ModuleInfos) /\ j \in 1 .. Len(s_ModuleInfos)
        BY <1>6, <2>2, SMTT(60)
      <3>2. s_ModuleInfos[i].data < s_ModuleInfos[j].text
        BY Zenon, <1>1, <1>6, <3>1 DEF Kept, Ordered
      <3> QED
        BY Zenon, <1>6, <3>1, <3>2
    <2> QED
      BY Zenon, <2>1, <2>2
  <1>12. s_SelfModuleIdx' = -1 \/ SelfKnown'
    <2>1. CASE walk.found.text = memory.self
      BY <1>3, <1>5, <1>6, <2>1 DEF SelfKnown
    <2>2. CASE walk.found.text # memory.self
      <3>1. s_SelfModuleIdx' = s_SelfModuleIdx
        BY Zenon, <1>3, <2>2
      <3>2. s_SelfModuleIdx = -1 \/ SelfKnown
        BY Zenon, <1>1 DEF Kept
      <3> QED
        BY <1>3, <1>6, <3>1, <3>2 DEF SelfKnown
    <2> QED
      BY Zenon, <2>1, <2>2
  <1>13. Kept'
    BY <1>2, <1>3, <1>6, <1>10, <1>11, <1>12, MaxModulesAssumption DEF Kept
  <1>14. Begun'
    BY <1>2, <1>3, <1>4, <1>5, <1>6, <1>8, <1>9 DEF Begun, Looking
  <1>15. NoneMissed'
    <2> SUFFICES ASSUME WholeModules, NEW i \in 1 .. L, BeginsModule(i), i + 2 <= walk.at + 1
                 PROVE  \E k \in 1 .. Len(s_ModuleInfos) + 1 : s_ModuleInfos'[k].text = i
      <3>1. walk'.at - 1 = walk.at
        BY <1>2, <1>3
      <3>2. memory'.ranges[walk'.at] # "text" /\ memory'.ranges[walk'.at - 1] # "text"
        BY <1>3, <1>4, <3>1
      <3>3. WholeModules' <=> WholeModules
        BY Zenon, <1>3 DEF WholeModules, BeginsModule
      <3> QED
        BY ZenonT(60), <1>3, <1>6, <1>9, <3>2, <3>3 DEF NoneMissed, BeginsModule, Complete, L
    <2>1. Complete(walk.at)
      BY Zenon, <1>1 DEF NoneMissed
    <2>2. CASE i + 2 <= walk.at
      <3>1. PICK k \in 1 .. Len(s_ModuleInfos) : s_ModuleInfos[k].text = i
        BY Zenon, <1>6, <2>1, <2>2 DEF Complete
      <3> QED
        BY <1>6, <3>1
    <2>3. CASE i = walk.at - 1
      BY <1>5, <1>6, <2>3
    <2> QED
      BY <1>2, <2>2, <2>3
  <1> QED
    BY Zenon, <1>13, <1>14, <1>15

(* A round away from the end that completes none.                          *)
LEMMA PassingOn ==
    ASSUME WalkInv, phase = "walk", status = "running", FindModules, walk.at < L,
           ~CompletesModule(walk.found, memory.ranges[NextRange])
    PROVE  Kept' /\ Begun' /\ NoneMissed'
  <1>1. Kept /\ Begun /\ NoneMissed
    BY Zenon DEF WalkInv
  <1>2. memory \in Maps /\ walk.at \in 0 .. L /\ NextRange = walk.at + 1 /\ L \in Nat /\ L >= 2
        /\ memory.ranges[L] = "other"
    BY <1>1, MapShape, WhereNext DEF Kept, Begun
  <1>0. PICK kind : kind = memory.ranges[walk.at + 1]
    OBVIOUS
  <1>3. /\ memory' = memory /\ L' = L
        /\ walk'.at = walk.at + 1
        /\ walk'.found = Recognise(walk.found, kind, walk.at + 1)
        /\ s_ModuleInfos' = s_ModuleInfos
        /\ s_SelfModuleIdx' = s_SelfModuleIdx
    BY Zenon, <1>0, <1>1, <1>2, RoundFacts DEF L
  <1>4. Kept'
    BY Zenon, <1>1, <1>3 DEF Kept, SelfKnown, Found, BeginsModule, L
  <1>5. DOMAIN s_ModuleInfos = 1 .. Len(s_ModuleInfos)
        /\ \A i \in 1 .. Len(s_ModuleInfos) : s_ModuleInfos[i] \in Infos
    BY <1>1 DEF Kept
  <1>6. \A i \in DOMAIN s_ModuleInfos :
            s_ModuleInfos[i].data \in Nat /\ s_ModuleInfos[i].data <= walk.at
    BY <1>1, <1>5 DEF Infos, Begun
  <1>7. Begun'
    <2>1. CASE walk.found.state = "LookingForCodeStatic" /\ kind = "text"
      <3>1. walk'.found = [state |-> "ExpectingRodata", text |-> walk.at + 1, rodata |-> 0]
        BY Zenon, <1>3, <2>1 DEF Recognise
      <3>2. walk.at + 1 # L
        BY <1>0, <1>2, <2>1
      <3> QED
        BY <1>0, <1>2, <1>3, <1>6, <2>1, <3>1, <3>2 DEF Begun
    <2>2. CASE walk.found.state = "ExpectingRodata" /\ kind = "rodata"
      <3>1. walk'.found = [state |-> "ExpectingData", text |-> walk.found.text, rodata |-> walk.at + 1]
        BY Zenon, <1>3, <2>2 DEF Recognise
      <3>2. walk.at + 1 # L
        BY <1>0, <1>2, <2>2
      <3> QED
        <4>1. /\ walk.found.text = walk.at /\ memory.ranges[walk.at] = "text" /\ walk.at >= 1
              /\ \A i \in DOMAIN s_ModuleInfos : s_ModuleInfos[i].data < walk.at
              /\ walk.found \in [state : {"LookingForCodeStatic", "ExpectingRodata", "ExpectingData"},
                                 text : Nat, rodata : Nat]
          BY Zenon, <1>1, <2>2 DEF Begun
        <4>2. /\ walk'.found \in [state : {"LookingForCodeStatic", "ExpectingRodata", "ExpectingData"},
                                 text : Nat, rodata : Nat]
              /\ walk'.found.state = "ExpectingData" /\ walk'.found.rodata = walk.at + 1
              /\ walk'.found.text = walk.at
          BY <1>2, <3>1, <4>1
        <4> QED
          BY <1>0, <1>2, <1>3, <1>6, <2>2, <3>2, <4>1, <4>2 DEF Begun
    <2>3. CASE /\ ~(walk.found.state = "LookingForCodeStatic" /\ kind = "text")
               /\ ~(walk.found.state = "ExpectingRodata" /\ kind = "rodata")
      <3>1. walk'.found = Looking
        BY Zenon, <1>3, <2>3 DEF Recognise
      <3> QED
        BY <1>2, <1>3, <1>6, <3>1 DEF Begun, Looking
    <2> QED
      BY Zenon, <2>1, <2>2, <2>3
  <1>8. NoneMissed'
    <2>1. WholeModules' <=> WholeModules
      BY Zenon, <1>3 DEF WholeModules, BeginsModule
    <2>2. walk'.at - 1 = walk.at
      BY <1>2, <1>3
    <2> SUFFICES ASSUME WholeModules
                 PROVE  /\ kind = "text" => walk'.found.state = "ExpectingRodata"
                        /\ walk.at >= 1 /\ memory.ranges[walk.at] = "text" =>
                                walk'.found.state = "ExpectingData"
                        /\ \A i \in 1 .. L : BeginsModule(i) /\ i + 2 <= walk.at + 1 => i + 2 <= walk.at
      <3>1. WholeModules => Complete(walk.at)
        BY Zenon, <1>1 DEF NoneMissed
      <3>2. (\A i \in 1 .. L : BeginsModule(i) /\ i + 2 <= walk.at + 1 => i + 2 <= walk.at)
            /\ Complete(walk.at) => Complete(walk.at)'
        BY Zenon, <1>3 DEF Complete, BeginsModule, L
      <3>3. walk.at + 1 >= 2 => walk.at >= 1
        BY <1>2
      <3> QED
        BY Zenon, <1>0, <1>3, <2>1, <2>2, <3>1, <3>2, <3>3 DEF NoneMissed, Complete, BeginsModule, L
    <2>3. \A i \in 1 .. L : memory.ranges[i] = "text" => BeginsModule(i)
      BY <1>2, MapShape DEF WholeModules
    <2>4. walk.at >= 1 /\ memory.ranges[walk.at] = "text" =>
            kind = "rodata" /\ walk.found.state = "ExpectingRodata"
      BY <1>0, <1>1, <1>2, <2>3 DEF BeginsModule, NoneMissed
    <2>5. walk.at >= 2 /\ memory.ranges[walk.at - 1] = "text" =>
            kind = "data" /\ walk.found.state = "ExpectingData"
      BY <1>0, <1>1, <1>2, <2>3 DEF BeginsModule, NoneMissed
    <2>6. kind = "text" => walk'.found.state = "ExpectingRodata"
      <3> SUFFICES ASSUME kind = "text"
                   PROVE  walk'.found.state = "ExpectingRodata"
        OBVIOUS
      <3>1. walk.found.state = "LookingForCodeStatic"
        BY <1>1, <2>4, <2>5 DEF Begun
      <3>2. walk'.found = [state |-> "ExpectingRodata", text |-> walk.at + 1, rodata |-> 0]
        BY Zenon, <1>3, <3>1 DEF Recognise
      <3> QED
        BY <3>2
    <2>7. walk.at >= 1 /\ memory.ranges[walk.at] = "text" => walk'.found.state = "ExpectingData"
      <3> SUFFICES ASSUME walk.at >= 1, memory.ranges[walk.at] = "text"
                   PROVE  walk'.found.state = "ExpectingData"
        OBVIOUS
      <3>1. walk'.found = [state |-> "ExpectingData", text |-> walk.found.text, rodata |-> walk.at + 1]
        BY Zenon, <1>3, <2>4 DEF Recognise
      <3> QED
        BY <3>1
    <2>8. ASSUME NEW i \in 1 .. L, BeginsModule(i), i + 2 <= walk.at + 1
          PROVE  i + 2 <= walk.at
      <3> SUFFICES ASSUME i = walk.at - 1
                   PROVE  FALSE
        BY <1>2, <2>8
      <3>1. walk.at >= 2 /\ memory.ranges[walk.at - 1] = "text"
        BY <1>2, <2>8 DEF BeginsModule
      <3> QED
        BY Zenon, <1>0, <1>2, <2>5, <3>1 DEF CompletesModule
    <2> QED
      BY Zenon, <2>6, <2>7, <2>8
  <1> QED
    BY Zenon, <1>4, <1>7, <1>8

(* At the end the walk recognises nothing, so the table is not full.       *)
LEMMA Wrapping ==
    ASSUME WalkInv, phase = "walk", status = "running", FindModules, walk.at = L
    PROVE  Kept' /\ ((phase' = "regions" /\ WalkDone') \/ (phase' = "walk" /\ status' = "aborted"))
  <1>1. Kept /\ Begun /\ NoneMissed
    BY Zenon DEF WalkInv
  <1>2. memory \in Maps /\ walk.at \in 0 .. L /\ NextRange = 1 /\ walk.at \in {0, L}
    BY <1>1, MapShape, WhereNext DEF Kept, Begun
  <1>3. ~CompletesModule(walk.found, memory.ranges[NextRange])
    BY <1>1, <1>2 DEF Begun, CompletesModule
  <1>4. /\ memory' = memory /\ L' = L
        /\ s_ModuleInfos' = s_ModuleInfos
        /\ s_SelfModuleIdx' = s_SelfModuleIdx
        /\ Len(s_ModuleInfos) < MaxModules
        /\ \/ phase' = "regions" /\ s_SelfModuleIdx' # -1
           \/ phase' = phase /\ status' = "aborted"
    BY Zenon, <1>1, <1>2, <1>3, RoundFacts DEF L
  <1>5. Kept'
    BY Zenon, <1>1, <1>4 DEF Kept, SelfKnown, Found, BeginsModule, L
  <1>6. ASSUME s_SelfModuleIdx' # -1
        PROVE  WalkDone'
    <2>1. WholeModules => Complete(L)
      BY Zenon, <1>1 DEF NoneMissed
    <2>2. WholeModules' <=> WholeModules
      BY Zenon, <1>4 DEF WholeModules, BeginsModule
    <2>3. Complete(L)' <=> Complete(L)
      BY Zenon, <1>4 DEF Complete, BeginsModule, L
    <2> QED
      BY Zenon, <1>4, <1>6, <2>1, <2>2, <2>3 DEF WalkDone
  <1> QED
    BY Zenon, <1>4, <1>5, <1>6

(* Only the walk touches what the walk found.                              *)
LEMMA AfterTheWalk ==
    ASSUME WalkInv, memory' = memory, s_ModuleInfos' = s_ModuleInfos,
           s_SelfModuleIdx' = s_SelfModuleIdx, walk' = walk,
           \/ phase' = phase /\ (status' = status \/ status' = "aborted")
           \/ phase # "walk" /\ phase' # "walk"
    PROVE  WalkInv'
  <1>1. /\ L' = L
        /\ Kept' <=> Kept
        /\ WholeModules' <=> WholeModules
    BY Zenon DEF Kept, SelfKnown, Found, BeginsModule, WholeModules, L
  <1>2. Complete(L)' <=> Complete(L)
    BY Zenon, <1>1 DEF Complete, BeginsModule, L
  <1>3. Complete(walk.at)' <=> Complete(walk.at)
    BY Zenon, <1>1 DEF Complete, BeginsModule, L
  <1>4. (Begun' <=> Begun) /\ (NoneMissed' <=> NoneMissed) /\ (WalkDone' <=> WalkDone)
    BY Zenon, <1>1, <1>2, <1>3 DEF Begun, NoneMissed, WalkDone
  <1>5. "running" # "aborted"
    OBVIOUS
  <1> QED
    BY Zenon, <1>1, <1>4, <1>5 DEF WalkInv

LEMMA WalkKept ==
    ASSUME WalkInv, phase = "walk", status = "running", FindModules
    PROVE  WalkInv'
  <1>1. Kept /\ walk.at \in 0 .. L /\ L \in Nat
    BY Zenon, MapShape DEF WalkInv, Kept, Begun
  <1>2. CASE walk.at < L
    <2>1. phase' = "walk"
      BY Zenon, <1>1, <1>2, RoundFacts
    <2> QED
      BY Zenon, <1>2, <2>1, Completing, PassingOn DEF WalkInv
  <1>3. CASE walk.at = L
    <2>1. "regions" # "walk" /\ "aborted" # "running"
      OBVIOUS
    <2> QED
      BY Zenon, <1>3, <2>1, Wrapping DEF WalkInv
  <1> QED
    BY <1>1, <1>2, <1>3

----
(* What the game, the overlay and the loader do is no part of the start.   *)

LEMMA LookupsKeep == Lookups => UNCHANGED processVars
  BY Zenon DEF Lookups

(* A thread that loses its data to another, or another's.                  *)
Loses(t) == (CreateContext(t) /\ Disturbs(t)) \/ (InitBackend(t) /\ bd.exists)

LEMMA MakingsKeep ==
    Makings => /\ phase' = phase
               /\ \/ status' = status \/ status' = "aborted"
                  \/ status' = "lost" /\ \E t \in Makers : Loses(t)
  <1> SUFFICES ASSUME Makings
               PROVE  /\ phase' = phase
                      /\ \/ status' = status \/ status' = "aborted"
                         \/ status' = "lost" /\ \E t \in Makers : Loses(t)
    OBVIOUS
  <1>1. CASE UNCHANGED processVars
    BY Zenon, <1>1 DEF processVars
  <1>2. ASSUME NEW t \in Makers, AssertNotInitialized(t) \/ SetupImGui(t)
        PROVE  phase' = phase /\ (status' = status \/ status' = "aborted")
    BY Zenon, <1>2 DEF AssertNotInitialized, SetupImGui, SetupBackend, Abort, processVars
  <1>3. ASSUME NEW t \in Makers, CreateContext(t) \/ InitBackend(t)
        PROVE  phase' = phase /\ (status' = status \/ (status' = "lost" /\ Loses(t)))
    BY Zenon, <1>3 DEF CreateContext, InitBackend, Loses, Lose, processVars
  <1>4. UNCHANGED processVars
        \/ \E t \in Makers : AssertNotInitialized(t) \/ SetupImGui(t) \/ CreateContext(t) \/ InitBackend(t)
    BY Zenon DEF Makings, CheckInitImGui, InitImGui, StoreInitImGui
  <1> QED
    BY Zenon, <1>1, <1>2, <1>3, <1>4

LEMMA GameKeeps ==
    Playing => /\ phase = "game" /\ phase' = phase
               /\ \/ status' = status \/ status' = "aborted"
                  \/ status' = "lost" /\ Makings /\ \E t \in Makers : Loses(t)
  BY Zenon, LookupsKeep, MakingsKeep DEF Playing, PlainMakings, WindowCalls, InputCalls, Presenting, processVars

LEMMA LoaderKeeps == Loading => phase' = phase /\ (status' = status \/ status' = "aborted")
  BY Zenon DEF Loading, RtldNext, Initialize, Relocate, exl_dynamic, ResolveSymbols, Call, Abort,
               processVars

LEMMA HandleKeeps == HandleNext => phase' = phase /\ (status' = status \/ status' = "aborted")
  BY Zenon DEF HandleNext, ClientStep, CallFails, ServerStep, ReceiveFails, ReceiveFromClosed, Abort,
               processVars

----
(* The regions.                                                            *)

AslrTold == "aslr" \in kernel.knows

(* What mem_layout knows when the memory manager asks in its turn.         *)
LayoutKnown ==
    /\ {"alias", "heap"} \subseteq kernel.knows
    /\ \A r \in Regions :
            layout[r] = IF r \in {"alias", "heap"} \/ {"aslr", "stack"} \subseteq kernel.knows
                        THEN KernelRange(r) ELSE Inferred(r)

Phases == {"walk", "regions", "virtmem", "patcher", "handle", "main", "pools", "game"}

RegionsInv ==
    /\ phase \in Phases
    /\ phase = "virtmem" => LayoutKnown
    /\ RegionsAgree

LEMMA KernelRangesEnd ==
    ASSUME NEW r \in Regions
    PROVE  /\ Ends(KernelRange(r)) = <<Ends(KernelRange(r))[1], Ends(KernelRange(r))[2] + 0>>
           /\ Ends(Inferred(r)) = <<Inferred(r)[1], Inferred(r)[2] + Inferred(r)[1]>>
  <1>1. KernelRange(r) \in Nat \X Nat
    BY DEF KernelRange, Regions
  <1>2. Inferred(r) \in Nat \X Nat
    BY DEF Inferred
  <1> QED
    BY <1>1, <1>2 DEF Ends

LEMMA RegionsFound ==
    ASSUME LayoutKnown, phase = "virtmem", virtmemSetup
    PROVE  RegionsAgree'
  <1> DEFINE Late(r) == IF g_IsLegacyKernel' /\ r \in {"aslr", "stack"} THEN g_Regions'[r][1] ELSE 0
  <1> DEFINE Agree(r) == Ends(layout[r]) = <<g_Regions'[r][1], g_Regions'[r][2] + Late(r)>>
  <1>1. SUFFICES ASSUME phase' # "virtmem", NEW r \in Regions
                 PROVE  Agree(r)
    BY Zenon DEF RegionsAgree, virtmemSetup, Ends
  <1>2. /\ AslrTold => "stack" \in kernel.knows
        /\ g_Regions' = [q \in Regions |-> IF q \in {"alias", "heap"} \/ AslrTold
                                           THEN Ends(KernelRange(q)) ELSE Inferred(q)]
        /\ g_IsLegacyKernel' = ~AslrTold
    BY Zenon, <1>1 DEF virtmemSetup, Abort, AslrTold
  <1>3. {"aslr", "stack"} \subseteq kernel.knows <=> AslrTold
    BY Zenon, <1>2 DEF AslrTold
  <1>4. /\ layout[r] = IF r \in {"alias", "heap"} \/ AslrTold THEN KernelRange(r) ELSE Inferred(r)
        /\ g_Regions'[r] = IF r \in {"alias", "heap"} \/ AslrTold THEN Ends(KernelRange(r)) ELSE Inferred(r)
    BY Zenon, <1>2, <1>3 DEF LayoutKnown
  <1>5. CASE AslrTold \/ r \in {"alias", "heap"}
    <2>1. ~(~AslrTold /\ r \in {"aslr", "stack"})
      BY <1>5
    <2>2. Late(r) = 0
      BY Zenon, <1>2, <2>1
    <2>3. layout[r] = KernelRange(r) /\ g_Regions'[r] = Ends(KernelRange(r))
      BY Zenon, <1>4, <1>5
    <2> QED
      BY Zenon, <2>2, <2>3, KernelRangesEnd
  <1>6. CASE ~(AslrTold \/ r \in {"alias", "heap"})
    <2>1. r \in {"aslr", "stack"}
      BY Zenon, <1>6 DEF Regions
    <2>2. layout[r] = Inferred(r) /\ g_Regions'[r] = Inferred(r)
      BY Zenon, <1>4, <1>6
    <2>3. Late(r) = Inferred(r)[1]
      BY Zenon, <1>2, <1>6, <2>1, <2>2
    <2> QED
      BY Zenon, <2>2, <2>3, KernelRangesEnd
  <1> QED
    BY Zenon, <1>5, <1>6

LEMMA RegionsStay ==
    ASSUME RegionsInv, UNCHANGED <<kernel, layout, g_Regions, g_IsLegacyKernel>>, phase' = phase
    PROVE  RegionsInv'
  <1>1. LayoutKnown' <=> LayoutKnown
    BY DEF LayoutKnown, Inferred
  <1>2. RegionsAgree' <=> RegionsAgree
    BY Zenon DEF RegionsAgree
  <1> QED
    BY Zenon, <1>1, <1>2 DEF RegionsInv

(* Where the memory manager is done, nothing touches the regions.          *)
LEMMA RegionsStayLater ==
    ASSUME RegionsInv, UNCHANGED <<kernel, layout, g_Regions, g_IsLegacyKernel>>,
           phase \in {"patcher", "handle", "main", "pools"}, phase' \in {"handle", "main", "pools", "game"}
    PROVE  RegionsInv'
  <1>1. phase \notin {"walk", "regions", "virtmem"} /\ phase' \notin {"walk", "regions", "virtmem"}
        /\ phase' \in Phases /\ phase' # "virtmem"
    BY DEF Phases
  <1>2. RegionsAgree
    BY Zenon DEF RegionsInv
  <1>3. RegionsAgree'
    BY Zenon, <1>1, <1>2 DEF RegionsAgree
  <1> QED
    BY Zenon, <1>1, <1>3 DEF RegionsInv

----
(* Who waits for whom for the handle.                                      *)

Fresh == s_Handle = "none" /\ server = "none" /\ session = Closed /\ threadOpen = FALSE

(* Nothing is left of the second thread.                                   *)
Cleared ==
    /\ s_Handle = "own" /\ server \in {"none", "exited"} /\ threadOpen = FALSE
    /\ session.server = FALSE /\ session.client = FALSE

(* The second thread left, or its receiving failed.                        *)
Answered ==
    \/ server \in {"exit", "exited"} /\ s_Handle = "own" /\ session.server = FALSE
    \/ server = "receive" /\ session.request = "failed"

Asked ==
    \/ server = "receive" /\ session.request = "sent" /\ session.server = TRUE
    \/ server = "store" /\ session.request = "received" /\ session.server = TRUE
    \/ server = "closeSession" /\ session.request = "received" /\ session.server = TRUE
       /\ s_Handle = "own"
    \/ server \in {"exit", "exited"} /\ s_Handle = "own" /\ session.server = FALSE
                                                      /\ session.request = "received"

Opened == [server |-> TRUE, client |-> TRUE, request |-> "none"]

(* Where both threads are, by the place of the first.                      *)
HandleInv ==
    /\ session \in [server : BOOLEAN, client : BOOLEAN, request : {"none", "sent", "received", "failed"}]
    /\ client \in {"idle", "get", "create", "thread", "start", "send", "answer", "close", "wait",
                   "closeThread", "done"}
    /\ client \in {"idle", "create"} => Fresh
    /\ client = "get" => Fresh \/ Cleared
    /\ client \in {"thread", "start"} => server = "none" /\ session = Opened
    /\ client = "send" => server = "receive" /\ session = Opened
    /\ client = "answer" => Asked
    /\ client \in {"close", "wait"} => Answered
    /\ client = "closeThread" =>
            server = "exited" /\ s_Handle = "own" /\ session.server = FALSE /\ session.client = FALSE
    /\ client = "done" => Cleared
    /\ client = "wait" => session.client = FALSE
    /\ phase \in {"walk", "regions", "virtmem", "patcher"} => client = "idle"
    /\ phase = "main" => client = "done"

LEMMA ClientKeeps ==
    ASSUME HandleInv, ClientStep
    PROVE  HandleInv'
  <1>1. /\ phase' = phase
        /\ client # "idle" /\ client # "done"
    BY DEF ClientStep, processVars, Get, CreateSession, CreateThread, StartThread, SendRequest,
           RequestReturns, CloseClientEnd, WaitForThread, CloseThread, ClientAt
  <1>2. CASE Get /\ UNCHANGED <<server, session, threadOpen>>
    BY <1>1, <1>2 DEF Get, HandleInv, Fresh, Cleared, Closed, ClientAt
  <1>3. CASE CreateSession /\ UNCHANGED <<s_Handle, server, threadOpen>>
    BY <1>1, <1>3 DEF CreateSession, HandleInv, Fresh, Opened, ClientAt
  <1>4. CASE CreateThread /\ UNCHANGED <<s_Handle, server, session>>
    BY <1>1, <1>4 DEF CreateThread, HandleInv, ClientAt
  <1>5. CASE StartThread /\ UNCHANGED <<s_Handle, session, threadOpen>>
    BY <1>1, <1>5 DEF StartThread, HandleInv, ClientAt
  <1>6. CASE SendRequest /\ UNCHANGED <<s_Handle, server, threadOpen>>
    BY <1>1, <1>6 DEF SendRequest, HandleInv, Asked, Opened, ClientAt
  <1>7. CASE RequestReturns /\ UNCHANGED <<s_Handle, server, threadOpen>>
    <2>1. CASE session.server
      <3>1. /\ session.request = "sent" /\ session' = [session EXCEPT !.request = "failed"]
            /\ client = "answer" /\ client' = "close"
        BY Zenon, <1>7, <2>1 DEF RequestReturns, ClientAt
      <3>2. server = "receive"
        BY <2>1, <3>1 DEF HandleInv, Asked
      <3> QED
        BY <1>1, <1>7, <3>1, <3>2 DEF HandleInv, Answered
    <2>2. CASE ~session.server
      <3>1. session' = session /\ client = "answer" /\ client' = "close"
        BY Zenon, <1>7, <2>2 DEF RequestReturns, ClientAt
      <3>2. session.server # TRUE
        BY Zenon, <2>2
      <3> QED
        BY <1>1, <1>7, <3>1, <3>2 DEF HandleInv, Asked, Answered
    <2> QED
      BY Zenon, <2>1, <2>2
  <1>8. CASE CloseClientEnd /\ UNCHANGED <<s_Handle, server, threadOpen>>
    BY <1>1, <1>8 DEF CloseClientEnd, HandleInv, Answered, ClientAt
  <1>9. CASE WaitForThread /\ UNCHANGED <<s_Handle, server, session, threadOpen>>
    BY <1>1, <1>9 DEF WaitForThread, HandleInv, Answered, ClientAt
  <1>10. CASE CloseThread /\ UNCHANGED <<s_Handle, server, session>>
    BY <1>1, <1>10 DEF CloseThread, HandleInv, Cleared, ClientAt
  <1> QED
    BY Zenon, <1>2, <1>3, <1>4, <1>5, <1>6, <1>7, <1>8, <1>9, <1>10 DEF ClientStep

LEMMA ServerKeeps ==
    ASSUME HandleInv, ServerStep
    PROVE  HandleInv'
  <1>1. phase' = phase /\ client' = client /\ threadOpen' = threadOpen
    BY Zenon DEF ServerStep, processVars, ReceiveFromClosed, Abort
  <1>2. CASE Receive
    BY <1>1, <1>2 DEF Receive, HandleInv, Fresh, Cleared, Opened, Asked, Answered, Closed
  <1>3. CASE StoreHandle
    BY <1>1, <1>3 DEF StoreHandle, HandleInv, Fresh, Cleared, Opened, Asked, Answered, Closed
  <1>4. CASE CloseServerEnd
    BY <1>1, <1>4 DEF CloseServerEnd, HandleInv, Fresh, Cleared, Opened, Asked, Answered, Closed
  <1>5. CASE ExitThread
    BY <1>1, <1>5 DEF ExitThread, HandleInv, Fresh, Cleared, Opened, Asked, Answered, Closed
  <1>6. CASE ReceiveFromClosed
    BY <1>1, <1>6 DEF ReceiveFromClosed, HandleInv, Fresh, Cleared, Opened, Asked, Answered, Closed
  <1> QED
    BY Zenon, <1>2, <1>3, <1>4, <1>5, <1>6 DEF ServerStep

LEMMA HandleSteps ==
    ASSUME HandleInv, HandleNext
    PROVE  HandleInv'
  <1>1. CASE CallFails \/ ReceiveFails
    BY Zenon, <1>1 DEF CallFails, ReceiveFails, Abort, handleVars, HandleInv, Fresh, Cleared, Asked, Answered
  <1> QED
    BY Zenon, <1>1, ClientKeeps, ServerKeeps DEF HandleNext

(* The program's first thread asks twice, the second time in vain.         *)
LEMMA StartSteps ==
    ASSUME HandleInv, \/ LayoutNext /\ UNCHANGED handleVars
                      \/ InitPatcherImpl \/ PatcherMapped \/ HookInitialize \/ exl_main
    PROVE  HandleInv'
  <1>1. CASE LayoutNext /\ UNCHANGED handleVars
    <2>1. \/ phase' = phase
          \/ phase \in {"walk", "regions", "virtmem"} /\ phase' \in {"regions", "virtmem", "patcher"}
      BY <1>1 DEF LayoutNext, FindModules, TooManyStaticModules, FindRegions, virtmemSetup, Continue, Abort,
                  processVars
    <2>2. phase' = phase \/ (phase \in {"walk", "regions", "virtmem"} /\ phase' # "main")
      BY <2>1
    <2> QED
      BY ZenonT(60), <1>1, <2>2 DEF handleVars, HandleInv, Fresh, Cleared, Asked, Answered
  <1>2. CASE InitPatcherImpl
    BY <1>2 DEF InitPatcherImpl, Continue, Abort, HandleInv, Fresh, Cleared
  <1>3. CASE PatcherMapped
    BY <1>3 DEF PatcherMapped, Continue, handleVars, HandleInv, Cleared
  <1>4. CASE HookInitialize
    BY <1>4 DEF HookInitialize, Continue, HandleInv, Cleared
  <1>5. CASE exl_main
    BY <1>5 DEF exl_main, Continue, handleVars, HandleInv, Cleared
  <1> QED
    BY Zenon, <1>1, <1>2, <1>3, <1>4, <1>5

LEMMA StackIsSafe == HandleInv => StackOutlivesThread
  BY DEF HandleInv, StackOutlivesThread, Fresh, Cleared, Answered, Asked

----
(* The three parts together.                                               *)

BootInv == WalkInv /\ RegionsInv /\ HandleInv

LEMMA BootInitInv == BootInit => BootInv
  <1> SUFFICES ASSUME BootInit
               PROVE  BootInv
    OBVIOUS
  <1>1. /\ phase = "walk" /\ memory \in Maps /\ s_ModuleInfos = <<>> /\ s_SelfModuleIdx = -1
        /\ walk = [at |-> 0, found |-> Looking]
        /\ s_Handle = "none" /\ client = "idle" /\ server = "none" /\ session = Closed
        /\ threadOpen = FALSE
    BY Zenon DEF BootInit, StartInit, LayoutInit, HandleInit
  <1>2. Kept
    BY <1>1, MaxModulesAssumption DEF Kept, Ordered
  <1>3. Begun /\ Complete(walk.at)
    BY <1>1, MapShape DEF Begun, Looking, Complete
  <1>4. NoneMissed
    BY <1>1, <1>3 DEF NoneMissed
  <1>5. WalkInv
    BY <1>1, <1>2, <1>3, <1>4 DEF WalkInv
  <1>6. RegionsInv
    BY <1>1 DEF RegionsInv, Phases, RegionsAgree
  <1>7. HandleInv
    BY <1>1 DEF HandleInv, Fresh, Closed
  <1> QED
    BY <1>5, <1>6, <1>7 DEF BootInv

LEMMA LayoutSteps ==
    ASSUME BootInv, Running, LayoutNext
    PROVE  WalkInv' /\ RegionsInv'
  <1>1. WalkInv /\ RegionsInv /\ status = "running"
    BY Zenon DEF BootInv, Running
  <1>2. CASE FindModules
    <2>1. WalkInv'
      BY Zenon, <1>1, <1>2, WalkKept DEF FindModules
    <2>2. UNCHANGED <<kernel, layout, g_Regions, g_IsLegacyKernel>>
      BY Zenon, <1>2 DEF FindModules
    <2>3. phase = "walk" /\ (phase' = "walk" \/ phase' = "regions")
      BY Zenon, <1>2 DEF FindModules, processVars, Continue, Abort
    <2>4. RegionsInv'
      BY <2>3 DEF RegionsInv, Phases, RegionsAgree
    <2> QED
      BY Zenon, <2>1, <2>4
  <1>3. CASE TooManyStaticModules
    BY Zenon, <1>1, <1>3, AfterTheWalk, RegionsStay DEF TooManyStaticModules, layoutVars, Abort
  <1>4. CASE FindRegions
    <2>1. phase = "regions" /\ UNCHANGED <<memory, kernel, walk, s_ModuleInfos, s_SelfModuleIdx>>
          /\ (\/ phase' = "regions" /\ status' = "aborted"
              \/ /\ phase' = "virtmem"
                 /\ {"alias", "heap"} \subseteq kernel.knows
                 /\ layout' = [r \in Regions |->
                      IF r \in {"alias", "heap"} \/ {"aslr", "stack"} \subseteq kernel.knows
                      THEN KernelRange(r) ELSE Inferred(r)])
      BY Zenon, <1>4 DEF FindRegions, Continue, Abort
    <2>2. WalkInv'
      <3>1. phase # "walk" /\ phase' # "walk"
        BY <2>1
      <3> QED
        BY Zenon, <1>1, <2>1, <3>1, AfterTheWalk
    <2>3. phase' = "virtmem" => LayoutKnown'
      <3> SUFFICES ASSUME phase' = "virtmem"
                   PROVE  LayoutKnown'
        OBVIOUS
      <3>1. phase' # "regions" /\ kernel' = kernel
        BY <2>1
      <3>2. \A r \in Regions : Inferred(r)' = Inferred(r)
        BY <3>1 DEF Inferred
      <3> QED
        BY Zenon, <2>1, <3>1, <3>2 DEF LayoutKnown
    <2>4. RegionsInv'
      BY <2>1, <2>3 DEF RegionsInv, Phases, RegionsAgree
    <2> QED
      BY Zenon, <2>2, <2>4
  <1>5. CASE virtmemSetup
    <2>1. phase = "virtmem" /\ UNCHANGED <<memory, walk, s_ModuleInfos, s_SelfModuleIdx>>
          /\ ((phase' = "virtmem" /\ status' = "aborted") \/ phase' = "patcher")
          /\ (phase' = "virtmem" => UNCHANGED <<kernel, layout>>)
      BY <1>5 DEF virtmemSetup, Continue, Abort
    <2>2. WalkInv'
      <3>1. phase # "walk" /\ phase' # "walk"
        BY <2>1
      <3> QED
        BY Zenon, <1>1, <2>1, <3>1, AfterTheWalk
    <2>3. RegionsAgree'
      BY Zenon, <1>1, <1>5, <2>1, RegionsFound DEF RegionsInv
    <2>4. phase' = "virtmem" => LayoutKnown'
      BY <1>1, <2>1 DEF RegionsInv, LayoutKnown, Inferred
    <2>5. RegionsInv'
      BY <2>1, <2>3, <2>4 DEF RegionsInv, Phases
    <2> QED
      BY Zenon, <2>2, <2>5
  <1> QED
    BY Zenon, <1>2, <1>3, <1>4, <1>5 DEF LayoutNext

LEMMA BootSteps == BootInv /\ [Next]_bootStateVars => BootInv'
  <1> SUFFICES ASSUME BootInv, [Next]_bootStateVars
               PROVE  BootInv'
    OBVIOUS
  <1> USE DEF BootInv
  <1>1. CASE Running /\ LayoutNext /\ UNCHANGED handleVars
    BY Zenon, <1>1, LayoutSteps, StartSteps
  <1>2. CASE HandleNext /\ UNCHANGED layoutVars
    BY Zenon, <1>2, HandleKeeps, HandleSteps, AfterTheWalk, RegionsStay DEF layoutVars
  <1>3. CASE InitPatcherImpl \/ PatcherMapped \/ HookInitialize \/ exl_main
    <2>1. UNCHANGED layoutVars
      BY Zenon, <1>3 DEF InitPatcherImpl, PatcherMapped, HookInitialize, exl_main
    <2>2. \/ phase' = phase /\ status' = "aborted"
          \/ phase \in {"patcher", "handle", "main", "pools"} /\ phase' \in {"handle", "main", "pools", "game"}
      BY <1>3 DEF InitPatcherImpl, PatcherMapped, HookInitialize, exl_main, Continue, Abort
    <2>3. (phase' = phase /\ status' = "aborted") \/ (phase # "walk" /\ phase' # "walk")
      BY <2>2
    <2>4. WalkInv'
      BY Zenon, <2>1, <2>3, AfterTheWalk DEF layoutVars
    <2>5. RegionsInv'
      BY Zenon, <2>1, <2>2, RegionsStay, RegionsStayLater DEF layoutVars
    <2> QED
      BY Zenon, <1>3, <2>4, <2>5, StartSteps
  <1>4. CASE Playing \/ Loading \/ UNCHANGED bootStateVars
    <2>1. UNCHANGED layoutVars /\ UNCHANGED handleVars
      BY Zenon, <1>4 DEF Playing, Loading, bootStateVars, startVars
    <2>2. /\ phase' = phase
          /\ status' = status \/ status' = "aborted" \/ phase = "game"
      BY Zenon, <1>4, GameKeeps, LoaderKeeps DEF bootStateVars, startVars, processVars
    <2>3. "game" # "walk"
      OBVIOUS
    <2>5. WalkInv' /\ RegionsInv'
      BY Zenon, <2>1, <2>2, <2>3, AfterTheWalk, RegionsStay DEF layoutVars
    <2>4. HandleInv'
      BY Zenon, <2>1, <2>2 DEF handleVars, HandleInv, Fresh, Cleared, Asked, Answered
    <2> QED
      BY Zenon, <2>4, <2>5
  <1> QED
    BY Zenon, <1>1, <1>2, <1>3, <1>4 DEF Next, Starting, StartNext

(* The inductive invariant of the start.                                   *)
THEOREM BootInvariance == Spec => []BootInv
  BY BootInitInv, BootSteps, PTL DEF Spec

LEMMA InvModulesFound == WalkInv => ModulesFound /\ TableHolds
  <1> SUFFICES ASSUME WalkInv
               PROVE  ModulesFound /\ TableHolds
    OBVIOUS
  <1> DEFINE found == {s_ModuleInfos[i] : i \in DOMAIN s_ModuleInfos}
  <1>1. Kept
    BY Zenon DEF WalkInv
  <1>2. DOMAIN memory.ranges = 1 .. L
    BY Zenon, <1>1, MapShape DEF Kept
  <1>3. \A i \in DOMAIN s_ModuleInfos :
            /\ s_ModuleInfos[i].text \in 1 .. L /\ BeginsModule(s_ModuleInfos[i].text)
            /\ s_ModuleInfos[i] = ModuleAt(s_ModuleInfos[i].text)
    BY Zenon, <1>1 DEF Kept, Found
  <1>4. found \subseteq Modules
    BY Zenon, <1>2, <1>3 DEF Modules
  <1>5. ASSUME WholeModules, Walked
        PROVE  found = Modules
    <2> SUFFICES ASSUME NEW i \in 1 .. L, BeginsModule(i)
                 PROVE  ModuleAt(i) \in found
      BY Zenon, <1>2, <1>4 DEF Modules
    <2>1. i + 2 <= L
      BY Zenon DEF BeginsModule, L
    <2>2. PICK k \in DOMAIN s_ModuleInfos : s_ModuleInfos[k].text = i
      BY Zenon, <1>5, <2>1 DEF WalkInv, WalkDone, Walked, Complete
    <2> QED
      BY Zenon, <1>3, <2>2
  <1> QED
    BY Zenon, <1>1, <1>4, <1>5
       DEF ModulesFound, TableHolds, Kept, SelfKnown, Ordered, WalkInv, WalkDone, Walked

(* The program knows the address space it was loaded into: this module and *)
(* every whole one, in a table that is never overrun, and the same regions *)
(* as the memory manager, for any memory, kernel and size of the table.    *)
THEOREM LayoutKnownRight == Spec => []LayoutIsTheMemory
  <1>1. BootInv => LayoutIsTheMemory
    BY Zenon, InvModulesFound DEF BootInv, RegionsInv, LayoutIsTheMemory
  <1> QED
    BY <1>1, BootInvariance, PTL

(* The second thread runs only while the first keeps the frame with its    *)
(* stack, and leaves no handle open, the safety part of HandleArrives.     *)
THEOREM StackOutlives == Spec => []StackOutlivesThread
  <1>1. BootInv => StackOutlivesThread
    BY Zenon, StackIsSafe DEF BootInv
  <1> QED
    BY <1>1, BootInvariance, PTL

----
(* The overlay: the game's pictures, the program's in front of them, and    *)
(* the player's input.                                                      *)

(* What the game and the overlay do in a step.                             *)
OverlayStep == Lookups \/ Makings \/ WindowCalls \/ InputCalls \/ Presenting

LEMMA StepOfOverlay ==
    ASSUME [Next]_bootStateVars
    PROVE  \/ UNCHANGED overlayVars
           \/ Playing /\ OverlayStep
BY Zenon DEF Next, Starting, Playing, PlainMakings, Loading, OverlayStep, bootStateVars

----
(* The player's input                                                      *)

(* Pads and keys are read in this order, and the switch that empties the   *)
(* game's reads is on for the first picture only.                          *)
InputInv ==
    /\ presents \in {0, 1, 2}
    /\ presenting \in {"events"} => imKey = prev
    /\ presenting # "events" => imKey = cur
    /\ cur \in BOOLEAN /\ prev \in BOOLEAN /\ held \in BOOLEAN /\ imKey \in BOOLEAN
    /\ isReadInput \in BOOLEAN /\ toggleInput \in BOOLEAN
    /\ emptied \subseteq {1}
    /\ toggleInput => \/ presents = 0 /\ presenting = "idle" /\ isReadInput
                      \/ presents = 1 /\ presenting = "pad" /\ isReadInput
                      \/ presents = 1 /\ presenting = "keys"

(* What the input is about.                                                *)
inputStateVars == <<inputVars, presenting, presents>>

LEMMA InputSame == ASSUME InputInv, UNCHANGED inputStateVars PROVE InputInv'
BY Zenon DEF InputInv, inputStateVars, inputVars

LEMMA Numbers == 0 + 1 = 1 /\ 1 + 1 = 2 /\ 0 # 1 /\ 0 # 2 /\ 1 # 2
OBVIOUS

LEMMA InputInvInit == OverlayInit => InputInv
<1>1. "idle" # "events"
  OBVIOUS
<1> QED
  BY <1>1, Zenon DEF OverlayInit, InputInv

LEMMA PresentingPlaces ==
    /\ "keys" # "idle" /\ "pad" # "idle" /\ "events" # "idle"
    /\ "idle" # "pad" /\ "idle" # "keys" /\ "pad" # "keys" /\ "pad" # "events" /\ "keys" # "events"
    /\ "idle" # "events" /\ "draw" # "events" /\ "render" # "events" /\ "rendering" # "events"
    /\ "events" # "draw"
OBVIOUS

LEMMA BeginFrameInput == ASSUME InputInv, BeginFrame PROVE InputInv'
BY Numbers, PresentingPlaces, Zenon DEF InputInv, BeginFrame, PresentTo

LEMMA PadReadInput == ASSUME InputInv, PadRead PROVE InputInv'
BY Numbers, PresentingPlaces, Zenon DEF InputInv, PadRead, PresentTo

LEMMA KeysReadInput == ASSUME InputInv, KeysRead PROVE InputInv'
BY PresentingPlaces, Zenon DEF InputInv, KeysRead, PresentTo

LEMMA AddEventsInput == ASSUME InputInv, AddEvents PROVE InputInv'
BY PresentingPlaces, Zenon DEF InputInv, AddEvents, PresentTo, isKeyPress, isKeyRelease

LEMMA InputCallsInput == ASSUME InputInv, InputCalls PROVE InputInv'
<1>1. CASE disableButtons /\ UNCHANGED frameVars
  <2>1. emptied' \subseteq {1}
    BY <1>1, Zenon DEF InputInv, disableButtons, frameVars
  <2> QED
    BY <1>1, <2>1, Zenon DEF InputInv, disableButtons, frameVars
<1>2. CASE PlayerUsesKey /\ UNCHANGED frameVars
  BY <1>2, Zenon DEF InputInv, PlayerUsesKey, frameVars
<1>3. CASE HakoniwaSequenceInit /\ UNCHANGED inputVars
  BY <1>3, InputSame, Zenon DEF HakoniwaSequenceInit, inputStateVars
<1> QED
  BY <1>1, <1>2, <1>3, Zenon DEF InputCalls

LEMMA PresentingInput == ASSUME InputInv, Presenting PROVE InputInv'
<1>1. CASE drawDbgGui
  BY <1>1, PresentingPlaces, Zenon DEF InputInv, drawDbgGui, PresentTo, inputVars
<1>2. CASE renderDrawData
  BY <1>2, PresentingPlaces, Zenon DEF InputInv, renderDrawData, PresentTo, inputVars
<1>3. CASE Present
  BY <1>3, PresentingPlaces, Zenon DEF InputInv, Present, PresentTo, inputVars
<1>4. CASE UNCHANGED <<inputVars, frameVars>>
  BY <1>4, InputSame, Zenon DEF inputStateVars, frameVars
<1> QED
  BY <1>1, <1>2, <1>3, <1>4, BeginFrameInput, PadReadInput, KeysReadInput, AddEventsInput,
     Zenon DEF Presenting

LEMMA InputStep == InputInv /\ [Next]_bootStateVars => InputInv'
<1> SUFFICES ASSUME InputInv, [Next]_bootStateVars PROVE InputInv'
  OBVIOUS
<1>1. CASE UNCHANGED overlayVars
  BY <1>1, InputSame, Zenon DEF overlayVars, frameVars, inputStateVars
<1>2. CASE Lookups \/ Makings
  BY <1>2, InputSame, Zenon DEF Lookups, Makings, frameVars, inputStateVars
<1>3. CASE WindowCalls
  BY <1>3, InputSame, Zenon DEF WindowCalls, setCrop, inputStateVars
<1> QED
  BY <1>1, <1>2, <1>3, StepOfOverlay, InputCallsInput, PresentingInput, Zenon DEF OverlayStep

(***************************************************************************)
(* However the game's threads read pads while pictures are presented, a    *)
(* read is emptied only in the first, and ImGui's keys are the keyboard's. *)
(***************************************************************************)
THEOREM InputsAreKept == Spec => []InputsKept
<1>1. BootInit => InputInv
  BY InputInvInit, Zenon DEF BootInit
<1>2. InputInv => InputsKept
  BY PresentingPlaces, Zenon DEF InputInv, InputsKept
<1> QED
  BY <1>1, <1>2, InputStep, PTL DEF Spec

----
(* The beginning of the overlay                                            *)

MakerPlaces == {"idle", "check", "look"} \cup InImGui \cup {"fail"}

(* Who is on the way to the overlay's beginning, if everything is caught.  *)
Delivers(t) == maker[t] # "idle" /\ maker[t] # "fail"

CaughtInv ==
    /\ maker \in [Makers -> MakerPlaces]
    /\ hasInitImGui \in BOOLEAN /\ forgotten \in BOOLEAN /\ late \in BOOLEAN /\ overlapped \in BOOLEAN
    /\ \A t \in Makers : maker[t] \in InImGui => AllCaught
    /\ late => AllCaught
    /\ late => hasInitImGui \/ forgotten \/ \E t \in Makers : Delivers(t)

(* As long as no two threads meet, one at most is at it, and the overlay   *)
(* begins with the first that goes ahead.                                  *)
OneByOne ==
    /\ \A t, u \in Makers : maker[t] # "idle" /\ maker[u] # "idle" => t = u
    /\ hasInitImGui => \A t \in Makers : maker[t] \in {"idle", "check"}
    /\ entries # 0 => hasInitImGui \/ \E t \in Makers : maker[t] \in InImGui
    /\ ~(entries > 1) /\ ~forgotten

EntryInv == entries \in Nat /\ (overlapped \/ OneByOne)

LEMMA Places ==
    /\ {"idle", "check", "look", "fail"} \cup InImGui \subseteq MakerPlaces
    /\ {"create", "assert", "data", "setup", "end"} \subseteq InImGui
    /\ \A p \in InImGui : p \notin {"idle", "check", "look", "fail"}
    /\ "idle" # "check" /\ "idle" # "look" /\ "idle" # "fail" /\ "check" # "look" /\ "check" # "fail"
    /\ "look" # "fail" /\ "data" # "setup" /\ "setup" # "end" /\ "data" # "end"
    /\ "create" # "data" /\ "assert" # "data" /\ "create" # "setup" /\ "assert" # "setup"
    /\ "create" # "end" /\ "assert" # "end" /\ "create" # "assert"
BY DEF MakerPlaces, InImGui

LEMMA CaughtInit == OverlayInit => CaughtInv /\ EntryInv
<1> SUFFICES ASSUME OverlayInit PROVE CaughtInv /\ EntryInv
  OBVIOUS
<1>1. /\ maker \in [Makers -> MakerPlaces] /\ \A t \in Makers : maker[t] = "idle"
      /\ \A t \in Makers : maker[t] \notin InImGui
  BY Places, Zenon DEF OverlayInit
<1>2. EntryInv
  <2>1. 0 \in Nat /\ ~(0 > 1)
    OBVIOUS
  <2> QED
    BY <1>1, <2>1, Zenon DEF OverlayInit, EntryInv, OneByOne
<1> QED
  BY <1>1, <1>2, Zenon DEF OverlayInit, CaughtInv

LEMMA CaughtSame ==
    ASSUME CaughtInv, EntryInv, UNCHANGED makerVars, AllCaught => AllCaught' PROVE CaughtInv' /\ EntryInv'
<1>1. UNCHANGED <<hasInitImGui, maker, entries, overlapped, forgotten, late>>
  BY Zenon DEF makerVars
<1>2. \A t \in Makers : Delivers(t) => Delivers(t)'
  BY <1>1, Zenon DEF Delivers
<1>3. CaughtInv'
  BY <1>1, <1>2, Zenon DEF CaughtInv
<1> QED
  BY <1>1, <1>3, Zenon DEF EntryInv, OneByOne

(* What is caught stays caught.                                            *)
LEMMA LookupsCaught == ASSUME CaughtInv, EntryInv, Lookups PROVE CaughtInv' /\ EntryInv'
<1>1. /\ UNCHANGED <<nvnQueue, nvnCmdBuf, makerVars>>
      /\ nvnDevice # 0 => nvnDevice' = nvnDevice
  BY Zenon DEF Lookups, NvnBootstrapHook, getProc, caughtVars
<1>2. AllCaught => AllCaught'
  BY <1>1, Zenon DEF AllCaught
<1> QED
  BY <1>1, <1>2, CaughtSame

LEMMA CatchingCaught ==
    ASSUME CaughtInv, EntryInv, deviceInit(1) \/ queueInit(1) PROVE CaughtInv' /\ EntryInv'
<1>1. UNCHANGED <<nvnCmdBuf, makerVars>>
  BY Zenon DEF deviceInit, queueInit
<1>2. 1 # 0
  OBVIOUS
<1>3. AllCaught => AllCaught'
  BY <1>1, <1>2, Zenon DEF AllCaught, deviceInit, queueInit
<1> QED
  BY <1>1, <1>3, CaughtSame

(* A thread that goes on.                                                  *)
LEMMA MakerMoves ==
    ASSUME maker \in [Makers -> MakerPlaces], NEW t \in Makers, NEW from, NEW to \in MakerPlaces,
           MakerTo(t, from, to)
    PROVE  /\ maker' \in [Makers -> MakerPlaces]
           /\ maker'[t] = to
           /\ \A u \in Makers : u # t => maker'[u] = maker[u]
           /\ maker[t] = from
BY DEF MakerTo

LEMMA CmdBufCaught ==
    ASSUME CaughtInv, EntryInv, NEW t \in Makers, NEW b \in CmdBufs, NEW device \in {0, 1},
           cmdBufInit(t, b, device)
    PROVE  CaughtInv' /\ EntryInv'
<1>1. b # 0
  BY CmdBufsAssumption
<1>2. /\ nvnQueue' = nvnQueue /\ nvnCmdBuf' = b
      /\ UNCHANGED <<hasInitImGui, entries, forgotten>>
      /\ nvnDevice # 0 => nvnDevice' = nvnDevice
      /\ late' = (late \/ (nvnDevice' # 0 /\ nvnQueue # 0))
      /\ overlapped' = (overlapped \/ \E u \in Makers : maker[u] # "idle")
  BY Zenon DEF cmdBufInit
<1>3. /\ maker' \in [Makers -> MakerPlaces] /\ maker'[t] = "check" /\ maker[t] = "idle"
      /\ \A u \in Makers : u # t => maker'[u] = maker[u]
  BY Places, MakerMoves, Zenon DEF CaughtInv, cmdBufInit
<1>4. (AllCaught => AllCaught') /\ (late' => AllCaught')
  BY <1>1, <1>2, Zenon DEF AllCaught, CaughtInv
<1>5. Delivers(t)'
  BY <1>3, Places, Zenon DEF Delivers
<1>6. \A u \in Makers : maker'[u] \in InImGui <=> maker[u] \in InImGui
  BY <1>3, Places, Zenon
<1>7. CaughtInv'
  BY <1>2, <1>3, <1>4, <1>5, <1>6, Zenon DEF CaughtInv
<1>8. CASE ~overlapped'
  <2>1. OneByOne /\ ~overlapped /\ \A u \in Makers : maker[u] = "idle"
    BY <1>2, <1>8, Zenon DEF EntryInv
  <2>2. \A u \in Makers : maker'[u] # "idle" => u = t
    BY <1>3, <2>1, Zenon
  <2>3. \A u \in Makers : maker'[u] \in {"idle", "check"}
    BY <1>3, <2>1, Zenon
  <2>4. OneByOne'
    BY <1>2, <1>6, <2>1, <2>2, <2>3, Zenon DEF OneByOne
  <2> QED
    BY <1>2, <1>7, <2>4, Zenon DEF EntryInv
<1> QED
  BY <1>2, <1>7, <1>8, Zenon DEF EntryInv

(* A step of a thread that neither stores nor enters.                      *)
LEMMA GoingOnCaught ==
    ASSUME CaughtInv, EntryInv, NEW t \in Makers,
           UNCHANGED <<caughtVars, hasInitImGui, entries, overlapped, forgotten, late>>,
           NEW from, NEW goal \in MakerPlaces, MakerTo(t, from, goal),
           from # "idle", from # "fail", hasInitImGui => goal = "idle" \/ from # "check",
           goal = "idle" \/ goal = "fail" => hasInitImGui \/ ~AllCaught,
           from \in InImGui <=> goal \in InImGui
    PROVE  CaughtInv' /\ EntryInv'
<1>1. /\ maker' \in [Makers -> MakerPlaces] /\ maker'[t] = goal /\ maker[t] = from
      /\ \A u \in Makers : u # t => maker'[u] = maker[u]
  BY MakerMoves, Zenon DEF CaughtInv
<1>2. /\ hasInitImGui' = hasInitImGui /\ entries' = entries /\ overlapped' = overlapped
      /\ forgotten' = forgotten /\ late' = late
      /\ AllCaught' <=> AllCaught
  BY Zenon DEF caughtVars, AllCaught
<1>3. \A u \in Makers : maker'[u] \in InImGui <=> maker[u] \in InImGui
  BY <1>1, Zenon
<1>4. late' => hasInitImGui' \/ forgotten' \/ \E u \in Makers : Delivers(u)'
  <2>1. SUFFICES ASSUME late, ~hasInitImGui, ~forgotten PROVE \E u \in Makers : Delivers(u)'
    BY <1>2
  <2>2. goal # "idle" /\ goal # "fail"
    BY <2>1, Zenon DEF CaughtInv
  <2> QED
    BY <1>1, <2>2, Zenon DEF Delivers
<1>5. CaughtInv'
  BY <1>1, <1>2, <1>3, <1>4 DEF CaughtInv
<1>6. ASSUME OneByOne PROVE OneByOne'
  <2>1. \A u \in Makers : maker'[u] # "idle" => maker[u] # "idle"
    BY <1>1, Zenon
  <2>2. ASSUME hasInitImGui PROVE \A u \in Makers : maker'[u] \in {"idle", "check"}
    <3>1. goal = "idle"
      BY <1>1, <1>6, <2>2, Zenon DEF OneByOne
    <3> QED
      BY <1>1, <1>6, <2>2, <3>1, Zenon DEF OneByOne
  <2> QED
    BY <1>2, <1>3, <1>6, <2>1, <2>2 DEF OneByOne
<1> QED
  BY <1>2, <1>5, <1>6 DEF EntryInv

LEMMA CheckCaught ==
    ASSUME CaughtInv, EntryInv, NEW t \in Makers, CheckInitImGui(t),
           UNCHANGED <<given, caughtVars, overlapped, late>>
    PROVE  CaughtInv' /\ EntryInv'
<1>1. PICK goal \in {"idle", "look"} : MakerTo(t, "check", goal) /\ (hasInitImGui <=> goal = "idle")
  BY Places, Zenon DEF CheckInitImGui
<1>2. UNCHANGED <<hasInitImGui, entries, forgotten>>
  BY Zenon DEF CheckInitImGui
<1>3. goal \in MakerPlaces /\ goal # "fail" /\ goal \notin InImGui /\ "check" \notin InImGui
  BY <1>1, Places, Zenon
<1> QED
  BY <1>1, <1>2, <1>3, Places, GoingOnCaught, Zenon

LEMMA InsideCaught ==
    ASSUME CaughtInv, EntryInv, NEW t \in Makers,
           CreateContext(t) \/ AssertNotInitialized(t) \/ InitBackend(t) \/ SetupImGui(t),
           UNCHANGED <<given, caughtVars, overlapped, late>>
    PROVE  CaughtInv' /\ EntryInv'
<1>1. PICK from \in {"create", "assert", "data", "setup"}, goal \in {"assert", "data", "setup", "end"} :
        MakerTo(t, from, goal)
  BY Zenon DEF CreateContext, AssertNotInitialized, InitBackend, SetupImGui
<1>2. UNCHANGED <<hasInitImGui, entries, forgotten>>
  BY Zenon DEF CreateContext, AssertNotInitialized, InitBackend, SetupImGui
<1>3. from \in InImGui /\ goal \in InImGui
  BY <1>1, Places, Zenon
<1>4. /\ goal \in MakerPlaces /\ goal # "idle" /\ goal # "fail"
      /\ from # "idle" /\ from # "fail" /\ from # "check"
  BY <1>3, Places, Zenon
<1> QED
  BY <1>1, <1>2, <1>3, <1>4, GoingOnCaught, Zenon

LEMMA LookCaught ==
    ASSUME CaughtInv, EntryInv, NEW t \in Makers, InitImGui(t),
           UNCHANGED <<given, caughtVars, overlapped, late>>
    PROVE  CaughtInv' /\ EntryInv'
<1>1. CASE ~AllCaught
  <2>1. MakerTo(t, "look", "fail") /\ UNCHANGED <<hasInitImGui, entries, forgotten>>
    BY <1>1, Zenon DEF InitImGui
  <2> QED
    BY <1>1, <2>1, Places, GoingOnCaught, Zenon
<1>2. CASE AllCaught
  <2>1. /\ MakerTo(t, "look", "create") /\ entries' = entries + 1
        /\ hasInitImGui' = hasInitImGui /\ forgotten' = forgotten /\ overlapped' = overlapped /\ late' = late
    BY <1>2, Zenon DEF InitImGui
  <2>2. /\ maker' \in [Makers -> MakerPlaces] /\ maker'[t] = "create" /\ maker[t] = "look"
        /\ \A u \in Makers : u # t => maker'[u] = maker[u]
    BY <2>1, Places, MakerMoves, Zenon DEF CaughtInv
  <2>3. AllCaught' /\ Delivers(t)' /\ maker'[t] \in InImGui
    BY <1>2, <2>2, Places, Zenon DEF AllCaught, Delivers, caughtVars
  <2>4. CaughtInv'
    BY <2>1, <2>2, <2>3, Zenon DEF CaughtInv
  <2>5. entries \in Nat
    BY Zenon DEF EntryInv
  <2>6. entries' \in Nat /\ (entries = 0 => ~(entries' > 1))
    BY <2>1, <2>5
  <2>7. ASSUME OneByOne PROVE OneByOne'
    <3>1. \A u \in Makers : u # t => maker[u] = "idle"
      BY <2>2, <2>7, Places, Zenon DEF OneByOne
    <3>2. ~hasInitImGui
      <4>1. "look" \notin {"idle", "check"}
        BY Places
      <4> QED
        BY <2>2, <2>7, <4>1, Zenon DEF OneByOne
    <3>3. \A u \in Makers : maker[u] \notin InImGui
      BY <2>2, <3>1, Places, Zenon
    <3>4. entries = 0
      BY <2>7, <3>2, <3>3, Zenon DEF OneByOne
    <3>5. \A u \in Makers : maker'[u] # "idle" => u = t
      BY <2>2, <3>1, Zenon
    <3> QED
      BY <2>1, <2>3, <2>6, <2>7, <3>2, <3>4, <3>5, Zenon DEF OneByOne
  <2> QED
    BY <2>1, <2>4, <2>6, <2>7 DEF EntryInv
<1> QED
  BY <1>1, <1>2

LEMMA StoreCaught ==
    ASSUME CaughtInv, EntryInv, NEW t \in Makers, StoreInitImGui(t),
           UNCHANGED <<given, caughtVars, overlapped, late>>
    PROVE  CaughtInv' /\ EntryInv'
<1>1. PICK from \in {"end", "fail"} : MakerTo(t, from, "idle")
  BY Zenon DEF StoreInitImGui
<1>2. /\ maker' \in [Makers -> MakerPlaces] /\ maker'[t] = "idle" /\ maker[t] = from
      /\ \A u \in Makers : u # t => maker'[u] = maker[u]
  BY <1>1, Places, MakerMoves, Zenon DEF CaughtInv
<1>3. /\ entries' = entries /\ overlapped' = overlapped /\ late' = late
      /\ AllCaught' <=> AllCaught
      /\ forgotten' = (forgotten \/ (hasInitImGui /\ ~hasInitImGui')) /\ forgotten' \in BOOLEAN
      /\ hasInitImGui' \in BOOLEAN
  BY Zenon DEF StoreInitImGui, caughtVars, AllCaught
<1>4. hasInitImGui' = TRUE \/ (from = "fail" /\ hasInitImGui' = FALSE)
  BY <1>2, Zenon DEF StoreInitImGui, MakerTo
<1>5. \A u \in Makers : maker'[u] \in InImGui => maker[u] \in InImGui
  BY <1>2, Places, Zenon
<1>6. late' => hasInitImGui' \/ forgotten' \/ \E u \in Makers : Delivers(u)'
  <2>1. SUFFICES ASSUME late, ~hasInitImGui', ~forgotten' PROVE \E u \in Makers : Delivers(u)'
    BY <1>3
  <2>2. from = "fail" /\ ~hasInitImGui /\ ~forgotten
    BY <1>3, <1>4, <2>1, Zenon
  <2>3. PICK u \in Makers : Delivers(u)
    BY <2>1, <2>2, Zenon DEF CaughtInv
  <2>4. u # t
    BY <1>2, <2>2, <2>3, Zenon DEF Delivers
  <2> QED
    BY <1>2, <2>3, <2>4, Zenon DEF Delivers
<1>7. CaughtInv'
  BY <1>2, <1>3, <1>5, <1>6 DEF CaughtInv
<1>8. ASSUME OneByOne PROVE OneByOne'
  <2>1. from # "idle" /\ from # "check"
    BY <1>1, Places, Zenon
  <2>2. \A u \in Makers : maker'[u] = "idle"
    BY <1>2, <1>8, <2>1, Zenon DEF OneByOne
  <2>3. ~hasInitImGui
    BY <1>2, <1>8, <2>1, Zenon DEF OneByOne
  <2>4. entries # 0 => from \in InImGui
    BY <1>2, <1>8, <2>1, <2>3, Places, Zenon DEF OneByOne
  <2>5. entries # 0 => hasInitImGui'
    BY <1>4, <2>4, Places, Zenon
  <2> QED
    BY <1>3, <1>8, <2>2, <2>3, <2>5, Zenon DEF OneByOne
<1> QED
  BY <1>3, <1>7, <1>8 DEF EntryInv

LEMMA MakingsCaught == ASSUME CaughtInv, EntryInv, Makings PROVE CaughtInv' /\ EntryInv'
BY CatchingCaught, CmdBufCaught, CheckCaught, LookCaught, InsideCaught, StoreCaught, Zenon DEF Makings

LEMMA CaughtStep ==
    ASSUME CaughtInv, EntryInv, [Next]_bootStateVars PROVE CaughtInv' /\ EntryInv'
<1>1. CASE UNCHANGED bootVars
  BY <1>1, CaughtSame, Zenon DEF bootVars, caughtVars, AllCaught
<1> QED
  BY <1>1, StepOfOverlay, LookupsCaught, MakingsCaught,
     Zenon DEF OverlayStep, overlayVars, WindowCalls, InputCalls, Presenting

----
(* The backend's data                                                      *)

Sizes == WindowSizes \cup {Unset, DefaultSize}

Backend == [exists : {TRUE}, device : Nat, queue : Nat, cmdBuf : Nat, isInitialized : BOOLEAN,
            made : {MadeUpTo(n) : n \in 0 .. Len(Parts)}, proj : Sizes, vtx : Nat, idx : Nat]

LEMMA WhetherBackend == NoBackend.exists = FALSE /\ \A b \in Backend : b.exists = TRUE
<1>1. NoBackend.exists = FALSE
  BY Zenon DEF NoBackend
<1>2. \A b \in Backend : b.exists \in {TRUE}
  BY Zenon DEF Backend
<1> QED
  BY <1>1, <1>2, Zenon

LEMMA PartsCount == Len(Parts) = 9 /\ MadeUpTo(9) = Parts /\ Len(Parts) \in Nat
BY DEF Parts, ShaderParts, FontParts, MadeUpTo

LEMMA ProjectionData ==
    ASSUME NEW b \in Backend, NEW size \in Sizes,
           NEW c, c = [b EXCEPT !.proj = size]
    PROVE  /\ c \in Backend
           /\ c.device = b.device /\ c.queue = b.queue /\ c.cmdBuf = b.cmdBuf
           /\ c.isInitialized = b.isInitialized /\ c.made = b.made
           /\ c.proj = size /\ c.vtx = b.vtx /\ c.idx = b.idx
BY Zenon DEF Backend

BufferKinds == {"vtx", "idx"}

BufferDataIs(b, c, kind, id) ==
    /\ c \in Backend
    /\ c.device = b.device /\ c.queue = b.queue /\ c.cmdBuf = b.cmdBuf
    /\ c.isInitialized = b.isInitialized /\ c.made = b.made /\ c.proj = b.proj
    /\ c[kind] = id
    /\ \A other \in BufferKinds : other # kind => c[other] = b[other]

LEMMA BufferData ==
    ASSUME NEW b \in Backend, NEW kind \in BufferKinds, NEW id \in Nat, NEW c
    PROVE  c = [b EXCEPT ![kind] = id] => BufferDataIs(b, c, kind, id)
<1> SUFFICES ASSUME c = [b EXCEPT ![kind] = id] PROVE BufferDataIs(b, c, kind, id)
  OBVIOUS
<1>1. kind = "vtx" \/ kind = "idx"
  BY Zenon DEF BufferKinds
<1>2. CASE kind = "vtx"
  <2>1. c = [b EXCEPT !["vtx"] = id]
    BY <1>2
  <2> QED
    BY <1>2, <2>1, Zenon DEF Backend, BufferKinds, BufferDataIs
<1>3. CASE kind = "idx"
  <2>1. c = [b EXCEPT !["idx"] = id]
    BY <1>3
  <2> QED
    BY <1>3, <2>1, Zenon DEF Backend, BufferKinds, BufferDataIs
<1> QED
  BY <1>1, <1>2, <1>3

LEMMA NewData ==
    ASSUME NEW d \in Nat, NEW q \in Nat, NEW c \in Nat
    PROVE  LET b == [exists |-> TRUE, device |-> d, queue |-> q, cmdBuf |-> c,
                     isInitialized |-> FALSE, made |-> <<>>, proj |-> Unset, vtx |-> 0, idx |-> 0]
           IN  /\ b \in Backend
               /\ b.device = d /\ b.queue = q /\ b.cmdBuf = c /\ b.isInitialized = FALSE
               /\ b.proj = Unset /\ b.vtx = 0 /\ b.idx = 0
<1>1. <<>> = MadeUpTo(0) /\ 0 \in 0 .. Len(Parts) /\ 0 \in Nat
  BY PartsCount DEF MadeUpTo
<1>2. Unset \in Sizes
  BY Zenon DEF Sizes
<1> QED
  BY <1>1, <1>2, Zenon DEF Backend

----
(* What the backend keeps, and when it is whole                            *)

Setting == {"setup", "end"}

Alone(t) == ~bd.isInitialized /\ \A u \in Makers : maker[u] \in Setting => u = t

DataInv ==
    /\ bd = NoBackend \/ bd \in Backend
    /\ bd # NoBackend =>
        /\ bd.device # 0 /\ bd.queue # 0 /\ bd.cmdBuf # 0
        /\ bd.isInitialized => bd.made = Parts
    /\ begun # 0 => bd # NoBackend /\ bd.isInitialized

(* A second thread that comes to its data finds the first's and stops,     *)
(* and there is no second unless two threads met.                          *)
SetupInv ==
    /\ nvnDevice \in Nat /\ nvnQueue \in Nat /\ nvnCmdBuf \in Nat
    /\ \A t \in Makers : maker[t] \in Setting => bd # NoBackend
    /\ hasInitImGui => bd # NoBackend
    /\ Running => \A t \in Makers : maker[t] = "setup" => Alone(t)
    /\ Running => \A t \in Makers : maker[t] = "data" => bd = NoBackend \/ overlapped

WholeInv == DataInv /\ SetupInv

(* What rendering, or resizing the window, leaves of the data.             *)
SameParts ==
    \/ bd' = bd
    \/ /\ bd \in Backend /\ bd' \in Backend
       /\ bd'.device = bd.device /\ bd'.queue = bd.queue /\ bd'.cmdBuf = bd.cmdBuf
       /\ bd'.isInitialized = bd.isInitialized /\ bd'.made = bd.made

LEMMA BackendIsOne == \A b \in Backend : b # NoBackend
BY WhetherBackend, Zenon

LEMMA DataSame ==
    ASSUME DataInv, SameParts, begun' # 0 => begun # 0 \/ (bd # NoBackend /\ bd.isInitialized)
    PROVE  DataInv'
BY BackendIsOne, Zenon DEF DataInv, SameParts

LEMMA NoReturn == ASSUME [Next]_bootStateVars, Running' PROVE Running
<1>1. status' = status \/ status' = "aborted" \/ status' = "lost"
  <2>1. CASE Starting
    BY <2>1, HandleKeeps, Zenon DEF Starting, StartNext, LayoutNext, FindModules, TooManyStaticModules,
       FindRegions, virtmemSetup, InitPatcherImpl, PatcherMapped, HookInitialize, exl_main, Abort,
       Continue, processVars
  <2> QED
    BY <2>1, GameKeeps, LoaderKeeps, Zenon DEF Next, bootStateVars, startVars, processVars
<1>2. "aborted" # "running" /\ "lost" # "running"
  OBVIOUS
<1> QED
  BY <1>1, <1>2, Zenon DEF Running

LEMMA SetupSame ==
    ASSUME SetupInv, SameParts, Running' => Running,
           UNCHANGED <<nvnDevice, nvnQueue, nvnCmdBuf, maker, hasInitImGui, overlapped>>
    PROVE  SetupInv'
<1>1. bd' # NoBackend <=> bd # NoBackend
  BY BackendIsOne, Zenon DEF SameParts
<1>2. bd'.isInitialized = bd.isInitialized
  BY Zenon DEF SameParts
<1>3. \A t : Alone(t) => Alone(t)'
  BY <1>2, Zenon DEF Alone
<1> QED
  BY <1>1, <1>3, Zenon DEF SetupInv

LEMMA WholeInit == BootInit => WholeInv
<1> SUFFICES ASSUME OverlayInit PROVE WholeInv
  BY Zenon DEF BootInit
<1>1. DataInv
  BY Zenon DEF OverlayInit, BackendInit, DataInv
<1>2. 0 \in Nat /\ "idle" \notin Setting /\ "idle" # "setup" /\ "idle" # "data"
  BY DEF Setting
<1>3. \A t \in Makers : maker[t] = "idle"
  BY Zenon DEF OverlayInit
<1> QED
  BY <1>1, <1>2, <1>3, Zenon DEF OverlayInit, WholeInv, SetupInv

LEMMA LookupsWhole == ASSUME WholeInv, Lookups PROVE WholeInv'
<1>1. /\ UNCHANGED <<backendVars, processVars, nvnQueue, nvnCmdBuf, maker, hasInitImGui, overlapped>>
      /\ nvnDevice' = nvnDevice \/ nvnDevice' \in {0, 1}
  BY Zenon DEF Lookups, NvnBootstrapHook, getProc, caughtVars, makerVars
<1>2. nvnDevice' \in Nat
  BY <1>1 DEF WholeInv, SetupInv
<1>3. \A t : Alone(t) => Alone(t)'
  BY <1>1, Zenon DEF Alone, backendVars
<1> QED
  BY <1>1, <1>2, <1>3, Zenon DEF WholeInv, DataInv, SetupInv, backendVars, processVars, Running

LEMMA PlacesAreNumbers == CmdBufs \subseteq Nat /\ {0, 1} \subseteq Nat /\ 1 \in {0, 1}
BY CmdBufsAssumption

LEMMA CatchingWhole ==
    ASSUME WholeInv, CaughtInv, UNCHANGED <<backendVars, processVars>>,
           \/ deviceInit(1)
           \/ queueInit(1)
           \/ \E t \in Makers, b \in CmdBufs, device \in {0, 1} : cmdBufInit(t, b, device)
    PROVE  WholeInv'
<1>0. /\ nvnDevice' = nvnDevice \/ nvnDevice' \in {0, 1}
      /\ nvnQueue' = nvnQueue \/ nvnQueue' = 1
      /\ nvnCmdBuf' = nvnCmdBuf \/ nvnCmdBuf' \in CmdBufs
  BY Zenon DEF deviceInit, queueInit, cmdBufInit
<1>1. /\ hasInitImGui' = hasInitImGui
      /\ maker' = maker \/ \E t \in Makers : maker' = [maker EXCEPT ![t] = "check"]
  BY Zenon DEF deviceInit, queueInit, cmdBufInit, makerVars, MakerTo
<1>6. overlapped => overlapped'
  BY DEF deviceInit, queueInit, cmdBufInit, makerVars
<1>2. nvnDevice' \in Nat /\ nvnQueue' \in Nat /\ nvnCmdBuf' \in Nat
  <2>1. nvnDevice \in Nat /\ nvnQueue \in Nat /\ nvnCmdBuf \in Nat
    BY Zenon DEF WholeInv, SetupInv
  <2> QED
    BY <1>0, <2>1, PlacesAreNumbers, Zenon
<1>3. "check" \notin Setting /\ "check" # "setup" /\ "check" # "data"
  BY DEF Setting
<1>4. \A u \in Makers : maker'[u] = maker[u] \/ maker'[u] = "check"
  BY <1>1, Zenon DEF CaughtInv
<1>5. \A t : Alone(t) => Alone(t)'
  BY <1>3, <1>4, Zenon DEF Alone, backendVars
<1> QED
  BY <1>1, <1>2, <1>3, <1>4, <1>5, <1>6, Zenon DEF WholeInv, DataInv, SetupInv, backendVars, processVars,
     Running

(* A thread that goes on and leaves the data alone.                        *)
LEMMA GoingOnWhole ==
    ASSUME WholeInv, CaughtInv, UNCHANGED <<backendVars, caughtVars, overlapped>>, Running' => Running,
           NEW t \in Makers, NEW from, NEW goal \in MakerPlaces, MakerTo(t, from, goal),
           goal \notin Setting,
           goal = "data" => ~Running' \/ bd = NoBackend,
           hasInitImGui' => hasInitImGui \/ from \in Setting
    PROVE  WholeInv'
<1>1. /\ maker'[t] = goal /\ maker[t] = from
      /\ \A u \in Makers : u # t => maker'[u] = maker[u]
  BY MakerMoves, Zenon DEF CaughtInv
<1>2. UNCHANGED <<nvnDevice, nvnQueue, nvnCmdBuf>> /\ bd' = bd /\ begun' = begun
  BY Zenon DEF caughtVars, backendVars
<1>3. "setup" \in Setting
  BY DEF Setting
<1>4. \A u \in Makers : maker'[u] \in Setting => maker[u] \in Setting /\ maker'[u] = maker[u]
  BY <1>1, Zenon
<1>5. \A u : Alone(u) => Alone(u)'
  BY <1>2, <1>4, Zenon DEF Alone
<1>6. DataInv'
  BY <1>2, Zenon DEF WholeInv, DataInv
<1>7. \A u \in Makers : maker'[u] = "setup" => maker[u] = "setup"
  BY <1>3, <1>4, Zenon
<1>8. hasInitImGui' => bd # NoBackend
  BY <1>1, Zenon DEF WholeInv, SetupInv
<1>9. Running' => \A u \in Makers : maker'[u] = "data" => bd = NoBackend \/ overlapped
  BY <1>1, Zenon DEF WholeInv, SetupInv
<1> QED
  BY <1>2, <1>4, <1>5, <1>6, <1>7, <1>8, <1>9, Zenon DEF WholeInv, SetupInv

LEMMA CheckWhole ==
    ASSUME WholeInv, CaughtInv, Running, NEW t \in Makers,
           \/ CheckInitImGui(t) \/ InitImGui(t) \/ CreateContext(t) \/ AssertNotInitialized(t)
           \/ StoreInitImGui(t),
           UNCHANGED <<given, caughtVars, overlapped, late>>
    PROVE  WholeInv'
<1>1. /\ {"idle", "look", "create", "fail", "assert", "data"} \subseteq MakerPlaces \ Setting
      /\ "end" \in Setting
      /\ "data" # "idle" /\ "data" # "look" /\ "data" # "create" /\ "data" # "fail" /\ "data" # "assert"
  BY DEF MakerPlaces, InImGui, Setting
<1>2. UNCHANGED backendVars
  BY Zenon DEF CheckInitImGui, InitImGui, CreateContext, AssertNotInitialized, StoreInitImGui
<1>3. ASSUME NEW from, NEW goal \in {"idle", "look", "create", "fail", "assert"}, MakerTo(t, from, goal),
             hasInitImGui' => hasInitImGui \/ from = "end"
      PROVE  WholeInv'
  BY <1>1, <1>2, <1>3, GoingOnWhole, Zenon
<1>4. CASE CheckInitImGui(t)
  <2>1. PICK goal \in {"idle", "look"} : MakerTo(t, "check", goal)
    BY <1>4, Zenon DEF CheckInitImGui
  <2> QED
    BY <1>3, <1>4, <2>1, Zenon DEF CheckInitImGui
<1>5. CASE InitImGui(t)
  <2>1. PICK goal \in {"create", "fail"} : MakerTo(t, "look", goal)
    BY <1>5, Zenon DEF InitImGui
  <2> QED
    BY <1>3, <1>5, <2>1, Zenon DEF InitImGui
<1>6. CASE CreateContext(t)
  BY <1>3, <1>6, Zenon DEF CreateContext
<1>7. CASE AssertNotInitialized(t)
  <2>1. ~Running' \/ bd = NoBackend
    <3>1. CASE bd.exists
      <4>1. "aborted" # "running"
        OBVIOUS
      <4> QED
        BY <1>7, <3>1, <4>1, Zenon DEF AssertNotInitialized, AlreadyInitialized, Abort, Running
    <3>2. CASE ~bd.exists
      BY <3>2, WhetherBackend, Zenon DEF WholeInv, DataInv
    <3> QED
      BY <3>1, <3>2
  <2> QED
    BY <1>1, <1>2, <1>7, <2>1, GoingOnWhole, Zenon DEF AssertNotInitialized
<1>8. CASE StoreInitImGui(t)
  BY <1>3, <1>8, Zenon DEF StoreInitImGui
<1> QED
  BY <1>4, <1>5, <1>6, <1>7, <1>8

LEMMA BeginWhole ==
    ASSUME WholeInv, CaughtInv, EntryInv, NEW t \in Makers, InitBackend(t),
           UNCHANGED <<given, caughtVars, overlapped, late>>
    PROVE  WholeInv'
<1>1. "setup" \in MakerPlaces /\ "data" \in InImGui /\ "data" \notin Setting /\ "setup" # "data" /\ "data" # "idle"
  BY DEF MakerPlaces, InImGui, Setting
<1>2. /\ maker' \in [Makers -> MakerPlaces] /\ maker'[t] = "setup" /\ maker[t] = "data"
      /\ \A u \in Makers : u # t => maker'[u] = maker[u]
      /\ UNCHANGED <<nvnDevice, nvnQueue, nvnCmdBuf>>
      /\ hasInitImGui' = hasInitImGui /\ overlapped' = overlapped
  BY <1>1, MakerMoves, Zenon DEF CaughtInv, InitBackend, caughtVars
<1>3. AllCaught
  BY <1>1, <1>2, Zenon DEF CaughtInv
<1>4. CASE bd.exists
  <2>1. UNCHANGED backendVars /\ ~Running' /\ bd # NoBackend
    <3>1. "lost" # "running"
      OBVIOUS
    <3> QED
      BY <1>4, <3>1, WhetherBackend, Zenon DEF InitBackend, Lose, Running
  <2> QED
    BY <1>2, <2>1, Zenon DEF WholeInv, DataInv, SetupInv, backendVars
<1>5. CASE ~bd.exists
  <2>1. /\ CreateBackend(nvnDevice, nvnQueue, nvnCmdBuf) /\ UNCHANGED processVars
    BY <1>5, Zenon DEF InitBackend
  <2>2. /\ bd' \in Backend
        /\ bd'.device = nvnDevice /\ bd'.queue = nvnQueue /\ bd'.cmdBuf = nvnCmdBuf
        /\ bd'.isInitialized = FALSE
    BY <2>1, NewData, Zenon DEF CreateBackend, WholeInv, SetupInv
  <2>3. bd = NoBackend
    BY <1>5, WhetherBackend, Zenon DEF WholeInv, DataInv
  <2>4. DataInv'
    BY <1>3, <2>1, <2>2, <2>3, BackendIsOne, Zenon DEF DataInv, WholeInv, CreateBackend, AllCaught
  <2>5. \A u \in Makers : maker[u] \notin Setting
    BY <2>3, Zenon DEF WholeInv, SetupInv
  <2>6. \A u \in Makers : maker'[u] \in Setting => u = t
    BY <1>2, <2>5, Zenon
  <2>7. Alone(t)'
    BY <2>2, <2>6, Zenon DEF Alone
  <2>8. "setup" \in Setting
    BY DEF Setting
  <2>9. \A u \in Makers : maker'[u] = "setup" => Alone(u)'
    BY <2>6, <2>7, <2>8, Zenon
  <2>10. \A u \in Makers : maker'[u] = "data" => overlapped'
    BY <1>1, <1>2 DEF EntryInv, OneByOne
  <2> QED
    BY <1>2, <2>2, <2>4, <2>9, <2>10, BackendIsOne, Zenon DEF WholeInv, SetupInv
<1> QED
  BY <1>4, <1>5

LEMMA SetupWhole ==
    ASSUME WholeInv, CaughtInv, Running, NEW t \in Makers, SetupImGui(t),
           UNCHANGED <<given, caughtVars, overlapped, late>>
    PROVE  WholeInv'
<1>1. /\ "end" \in MakerPlaces /\ "setup" # "idle" /\ "setup" \in Setting /\ "end" \in Setting
      /\ "end" # "setup" /\ "end" # "data"
  BY DEF MakerPlaces, InImGui, Setting
<1>2. /\ maker' \in [Makers -> MakerPlaces] /\ maker'[t] = "end" /\ maker[t] = "setup"
      /\ \A u \in Makers : u # t => maker'[u] = maker[u]
      /\ UNCHANGED <<nvnDevice, nvnQueue, nvnCmdBuf>>
      /\ hasInitImGui' = hasInitImGui /\ overlapped' = overlapped
  BY <1>1, MakerMoves, Zenon DEF CaughtInv, SetupImGui, caughtVars
<1>3. /\ bd # NoBackend /\ bd \in Backend /\ Alone(t)
  BY <1>1, <1>2, Zenon DEF WholeInv, SetupInv, DataInv
<1>4. begun = 0 /\ begun' = begun
  BY <1>3, Zenon DEF SetupImGui, SetupBackend, WholeInv, DataInv, Alone
<1>5. \A u \in Makers : maker'[u] # "setup"
  BY <1>1, <1>2, <1>3, Zenon DEF Alone
<1>6. \/ bd' = bd
      \/ \E n \in 0 .. Len(Parts) : SetupParts(n)
  BY Zenon DEF SetupImGui, SetupBackend
<1>7. ASSUME NEW n \in 0 .. Len(Parts), SetupParts(n)
      PROVE  /\ bd' \in Backend
             /\ bd'.device = bd.device /\ bd'.queue = bd.queue /\ bd'.cmdBuf = bd.cmdBuf
             /\ bd'.isInitialized => bd'.made = Parts
  <2>1. PICK all \in BOOLEAN : /\ all <=> n = Len(Parts)
                              /\ bd' = [bd EXCEPT !.made = MadeUpTo(n), !.isInitialized = all]
    BY <1>7, Zenon DEF SetupParts
  <2>2. all => MadeUpTo(n) = Parts
    BY <2>1, PartsCount, Zenon
  <2>3. bd' = [bd EXCEPT !.made = MadeUpTo(n), !.isInitialized = all]
    BY <2>1
  <2>4. /\ bd' \in Backend
        /\ bd'.device = bd.device /\ bd'.queue = bd.queue /\ bd'.cmdBuf = bd.cmdBuf
        /\ bd'.isInitialized = all /\ bd'.made = MadeUpTo(n)
    BY <1>3, <2>3, Zenon DEF Backend
  <2> QED
    BY <2>2, <2>4, Zenon
<1>8. DataInv' /\ bd' # NoBackend
  BY <1>3, <1>4, <1>6, <1>7, BackendIsOne, Zenon DEF WholeInv, DataInv
<1>9. \A u \in Makers : maker'[u] = "data" => overlapped'
  BY <1>1, <1>2, <1>3 DEF WholeInv, SetupInv
<1> QED
  BY <1>2, <1>5, <1>8, <1>9, Zenon DEF WholeInv, SetupInv

----
(* The buffers of vertices and of indices                                  *)

Buffer == [kind : BufferKinds, pages : Nat, pool : BOOLEAN, ready : BOOLEAN,
           allocated : BOOLEAN, frame : Nat]

Steps == {"none", "vtx", "idx", "copy", "submit"}

Submitted == [frame : Nat, vtx : Nat, idx : Nat, need : Demands]

(* The types of what is rendered.                                          *)
RenderTypes ==
    /\ buffers \in Seq(Buffer)
    /\ begun \in Nat
    /\ drawing = Idle \/ drawing \in [step : Steps, need : Demands]
    /\ drawing.step # "none" => drawing.need \in Demands /\ bd # NoBackend
    /\ gpu \in Seq(Submitted)

(* The backend's own buffers, one of each kind or none.                    *)
Current(kind) ==
    /\ bd[kind] \in 0 .. Len(buffers)
    /\ bd[kind] # 0 => buffers[bd[kind]].kind = kind /\ buffers[bd[kind]].allocated

Sized(kind) ==
    /\ bd[kind] # 0
    /\ buffers[bd[kind]].ready => buffers[bd[kind]].pages >= drawing.need[kind]

Filled(kind) == buffers[bd[kind]].ready /\ buffers[bd[kind]].frame = begun

(* A buffer that was made is given back only when it is outgrown.          *)
KeptInv ==
    \A i \in DOMAIN buffers :
        /\ buffers[i].ready => buffers[i].pool
        /\ buffers[i].pool => buffers[i].allocated \/ Outgrown(i)

CurrentInv ==
    /\ bd # NoBackend => Current("vtx") /\ Current("idx")
    /\ drawing.step \in {"idx", "copy", "submit"} => Sized("vtx")
    /\ drawing.step \in {"copy", "submit"} => Sized("idx")
    /\ drawing.step = "submit" => Filled("vtx") /\ Filled("idx")

(* A submitted frame has buffers that fit it.                              *)
Fits(f) ==
    /\ f.vtx \in DOMAIN buffers /\ f.idx \in DOMAIN buffers
    /\ buffers[f.vtx].ready /\ buffers[f.vtx].pages >= f.need.vtx
    /\ buffers[f.idx].ready /\ buffers[f.idx].pages >= f.need.idx

(* Only between two frames is the last one still at the processor.         *)
SubmittedInv ==
    \A i \in DOMAIN gpu :
        /\ Fits(gpu[i])
        /\ gpu[i].frame <= begun
        /\ gpu[i].frame = begun => drawing.step = "none" /\ Intact(gpu[i])

RenderInv == RenderTypes /\ KeptInv /\ CurrentInv /\ SubmittedInv

LEMMA RenderInvInit == OverlayInit => RenderInv
<1> SUFFICES ASSUME OverlayInit PROVE RenderInv
  OBVIOUS
<1>1. /\ bd = NoBackend /\ buffers = <<>> /\ drawing = Idle /\ begun = 0 /\ gpu = <<>>
  BY Zenon DEF OverlayInit, BackendInit
<1>2. drawing.step = "none"
  BY <1>1 DEF Idle
<1>3. buffers \in Seq(Buffer) /\ gpu \in Seq(Submitted) /\ 0 \in Nat
      /\ DOMAIN buffers = {} /\ DOMAIN gpu = {}
  BY <1>1
<1>4. RenderTypes
  BY <1>1, <1>2, <1>3, Zenon DEF RenderTypes
<1>5. "none" \notin {"idx", "copy", "submit"} /\ "none" \notin {"copy", "submit"} /\ "none" # "submit"
  OBVIOUS
<1> QED
  BY <1>1, <1>2, <1>3, <1>4, <1>5, Zenon DEF RenderInv, KeptInv, CurrentInv, SubmittedInv

(* FramesReadTheirData is what the invariant says of the submitted frames. *)
LEMMA RenderInvReads == RenderInv => FramesReadTheirData
<1> SUFFICES ASSUME RenderInv, NEW i \in DOMAIN gpu
             PROVE  LET f == gpu[i]
                    IN  /\ begun = f.frame => Intact(f)
                        /\ buffers[f.vtx].ready /\ buffers[f.vtx].pages >= f.need.vtx
                        /\ buffers[f.idx].ready /\ buffers[f.idx].pages >= f.need.idx
                        /\ \A id \in {f.vtx, f.idx} : ~buffers[id].allocated => Outgrown(id)
  BY Zenon DEF FramesReadTheirData
<1>1. Fits(gpu[i]) /\ (gpu[i].frame = begun => Intact(gpu[i]))
  BY Zenon DEF RenderInv, SubmittedInv
<1>2. \A id \in {gpu[i].vtx, gpu[i].idx} : id \in DOMAIN buffers /\ buffers[id].ready
  BY <1>1, Zenon DEF Fits
<1>3. \A id \in DOMAIN buffers : buffers[id].ready => buffers[id].allocated \/ Outgrown(id)
  BY Zenon DEF RenderInv, KeptInv
<1> QED
  BY <1>1, <1>2, <1>3, Zenon DEF Fits

(* Buffers never change what they hold or how large they are.              *)
SameBuffer(b, c) ==
    c.kind = b.kind /\ c.pages = b.pages /\ c.pool = b.pool /\ c.ready = b.ready

KeepsBuffers ==
    /\ buffers \in Seq(Buffer) /\ buffers' \in Seq(Buffer)
    /\ Len(buffers) <= Len(buffers')
    /\ \A i \in DOMAIN buffers : SameBuffer(buffers[i], buffers'[i])

LEMMA BufferPlaces ==
    ASSUME buffers \in Seq(Buffer)
    PROVE  /\ DOMAIN buffers = 1 .. Len(buffers) /\ Len(buffers) \in Nat
           /\ \A i \in 1 .. Len(buffers) : buffers[i] \in Buffer /\ i \in Nat
OBVIOUS

LEMMA KeptPlaces ==
    ASSUME KeepsBuffers, NEW i \in DOMAIN buffers
    PROVE  /\ i \in DOMAIN buffers' /\ SameBuffer(buffers[i], buffers'[i])
           /\ i \in Int /\ \A j \in i + 1 .. Len(buffers) : j \in DOMAIN buffers /\ j \in i + 1 .. Len(buffers')
<1>1. buffers \in Seq(Buffer) /\ buffers' \in Seq(Buffer) /\ Len(buffers) <= Len(buffers')
      /\ SameBuffer(buffers[i], buffers'[i])
  BY Zenon DEF KeepsBuffers
<1>2. i \in 1 .. Len(buffers) /\ Len(buffers) \in Nat /\ Len(buffers') \in Nat
      /\ DOMAIN buffers' = 1 .. Len(buffers') /\ DOMAIN buffers = 1 .. Len(buffers)
  BY <1>1
<1> QED
  BY <1>1, <1>2

LEMMA OutgrownStays ==
    ASSUME KeepsBuffers, NEW i \in DOMAIN buffers, Outgrown(i) PROVE Outgrown(i)'
<1>1. PICK later \in i + 1 .. Len(buffers) :
         buffers[later].kind = buffers[i].kind /\ buffers[later].pages > buffers[i].pages
  BY Zenon DEF Outgrown
<1>2. later \in DOMAIN buffers /\ later \in i + 1 .. Len(buffers')
  BY KeptPlaces
<1>3. /\ buffers'[later].kind = buffers[later].kind /\ buffers'[later].pages = buffers[later].pages
      /\ buffers'[i].kind = buffers[i].kind /\ buffers'[i].pages = buffers[i].pages
  BY <1>2, KeptPlaces, Zenon DEF SameBuffer
<1>4. buffers'[later].kind = buffers'[i].kind /\ buffers'[later].pages > buffers'[i].pages
  BY <1>1, <1>3
<1> QED
  BY <1>2, <1>4, Zenon DEF Outgrown

LEMMA FitsStays == ASSUME KeepsBuffers, NEW f, Fits(f) PROVE Fits(f)'
<1>1. /\ f.vtx \in DOMAIN buffers' /\ SameBuffer(buffers[f.vtx], buffers'[f.vtx])
      /\ f.idx \in DOMAIN buffers' /\ SameBuffer(buffers[f.idx], buffers'[f.idx])
  BY KeptPlaces, Zenon DEF Fits
<1> QED
  BY <1>1, Zenon DEF Fits, SameBuffer

(* A step in the middle of a frame leaves the submitted ones as they fit.  *)
LEMMA SubmittedStays ==
    ASSUME RenderInv, KeepsBuffers, drawing.step # "none", gpu' = gpu, begun' = begun
    PROVE  SubmittedInv'
<1> SUFFICES ASSUME NEW i \in DOMAIN gpu
             PROVE  /\ Fits(gpu[i])'
                    /\ gpu[i].frame <= begun
                    /\ gpu[i].frame # begun
  BY Zenon DEF SubmittedInv
<1> QED
  BY FitsStays, Zenon DEF RenderInv, SubmittedInv

----
(* Resize                                                                  *)

LEMMA NewBuffer ==
    ASSUME NEW kind \in BufferKinds, NEW pages \in Nat, NEW outcome \in Outcomes
    PROVE  /\ MemoryBuffer(kind, pages, outcome) \in Buffer
           /\ MemoryBuffer(kind, pages, outcome).kind = kind
           /\ MemoryBuffer(kind, pages, outcome).pages = pages
           /\ MemoryBuffer(kind, pages, outcome).allocated
           /\ MemoryBuffer(kind, pages, outcome).ready => MemoryBuffer(kind, pages, outcome).pool
<1>1. 0 \in Nat /\ "ready" # "pool fails"
  OBVIOUS
<1> QED
  BY <1>1, Zenon DEF MemoryBuffer, Buffer

LEMMA GivenBack ==
    ASSUME NEW b \in Buffer
    PROVE  /\ [b EXCEPT !.allocated = FALSE] \in Buffer
           /\ SameBuffer(b, [b EXCEPT !.allocated = FALSE])
BY Zenon DEF Buffer, SameBuffer

LEMMA Stamped ==
    ASSUME NEW b \in Buffer, NEW frame \in Nat
    PROVE  /\ [b EXCEPT !.frame = frame] \in Buffer
           /\ SameBuffer(b, [b EXCEPT !.frame = frame])
           /\ [b EXCEPT !.frame = frame].frame = frame
           /\ [b EXCEPT !.frame = frame].allocated = b.allocated
BY Zenon DEF Buffer, SameBuffer

LEMMA SameIsSame == \A b : SameBuffer(b, b)
BY Zenon DEF SameBuffer

(* The list after one place of it is replaced, or one is added.            *)
LEMMA Replaced ==
    ASSUME NEW s \in Seq(Buffer), NEW i \in DOMAIN s, NEW b \in Buffer, NEW r, r = [s EXCEPT ![i] = b]
    PROVE  /\ r \in Seq(Buffer) /\ Len(r) = Len(s) /\ DOMAIN r = DOMAIN s
           /\ r[i] = b /\ \A j \in DOMAIN s : j # i => r[j] = s[j]
OBVIOUS

LEMMA Added ==
    ASSUME NEW s \in Seq(Buffer), NEW b \in Buffer
    PROVE  /\ Append(s, b) \in Seq(Buffer) /\ Len(Append(s, b)) = Len(s) + 1
           /\ DOMAIN Append(s, b) = 1 .. Len(s) + 1
           /\ Append(s, b)[Len(s) + 1] = b
           /\ \A j \in DOMAIN s : Append(s, b)[j] = s[j]
OBVIOUS

(* What a Resize that makes a buffer does to the list of them.             *)
LEMMA ListGrows ==
    ASSUME buffers \in Seq(Buffer), NEW old \in 0 .. Len(buffers), NEW new \in Buffer,
           buffers' = Append(IF old = 0 THEN buffers ELSE Finalize(old), new)
    PROVE  /\ KeepsBuffers
           /\ Len(buffers') = Len(buffers) + 1
           /\ buffers'[Len(buffers) + 1] = new
           /\ \A i \in DOMAIN buffers : i # old => buffers'[i] = buffers[i]
<1> DEFINE kept == IF old = 0 THEN buffers ELSE Finalize(old)
<1>1. /\ kept \in Seq(Buffer) /\ Len(kept) = Len(buffers) /\ DOMAIN kept = DOMAIN buffers
      /\ \A i \in DOMAIN buffers : SameBuffer(buffers[i], kept[i]) /\ (i # old => kept[i] = buffers[i])
  <2>1. CASE old = 0
    BY <2>1, SameIsSame, Zenon
  <2>2. CASE old # 0
    <3>1. old \in DOMAIN buffers /\ buffers[old] \in Buffer
      BY <2>2, BufferPlaces
    <3>2. kept = [buffers EXCEPT ![old] = [buffers[old] EXCEPT !.allocated = FALSE]]
      BY <2>2, Zenon DEF Finalize
    <3>3. /\ [buffers[old] EXCEPT !.allocated = FALSE] \in Buffer
          /\ SameBuffer(buffers[old], [buffers[old] EXCEPT !.allocated = FALSE])
      BY <3>1, GivenBack
    <3> HIDE DEF kept
    <3>4. /\ kept \in Seq(Buffer) /\ Len(kept) = Len(buffers) /\ DOMAIN kept = DOMAIN buffers
          /\ kept[old] = [buffers[old] EXCEPT !.allocated = FALSE]
          /\ \A j \in DOMAIN buffers : j # old => kept[j] = buffers[j]
      BY <3>1, <3>2, <3>3, Replaced
    <3> QED
      BY <3>3, <3>4, SameIsSame, Zenon
  <2> QED
    BY <2>1, <2>2
<1>2. buffers' = Append(kept, new)
  OBVIOUS
<1> HIDE DEF kept
<1>3. /\ buffers' \in Seq(Buffer) /\ Len(buffers') = Len(buffers) + 1
      /\ buffers'[Len(buffers) + 1] = new
      /\ \A j \in DOMAIN buffers : buffers'[j] = kept[j]
  <2>1. kept \in Seq(Buffer) /\ Len(kept) = Len(buffers) /\ DOMAIN kept = DOMAIN buffers
    BY <1>1
  <2>2. /\ Append(kept, new) \in Seq(Buffer) /\ Len(Append(kept, new)) = Len(kept) + 1
        /\ Append(kept, new)[Len(kept) + 1] = new
        /\ \A j \in DOMAIN kept : Append(kept, new)[j] = kept[j]
    BY <2>1, Added, Zenon
  <2> QED
    BY <1>2, <2>1, <2>2, Zenon
<1>4. Len(buffers) <= Len(buffers')
  BY <1>3, BufferPlaces
<1> QED
  BY <1>1, <1>3, <1>4, Zenon DEF KeepsBuffers

LEMMA NeedIsPages == ASSUME NEW d \in Demands, NEW kind \in BufferKinds PROVE d[kind] \in Nat
<1>1. d.vtx \in Nat /\ d.idx \in Nat
  BY DemandsAssumption
<1>2. kind = "vtx" \/ kind = "idx"
  BY Zenon DEF BufferKinds
<1> QED
  BY <1>1, <1>2

LEMMA EnoughOrTooSmall ==
    ASSUME NEW p \in Nat, NEW n \in Nat PROVE (p < n => n > p) /\ (~(p < n) => p >= n)
OBVIOUS

(* A round of renderDrawData goes on with its old or a new buffer.         *)
ResizeEffect(kind) ==
    /\ KeepsBuffers /\ SameParts
    /\ bd' \in Backend
    /\ bd'[kind] \in 1 .. Len(buffers')
    /\ \A other \in BufferKinds : other # kind => bd'[other] = bd[other]
    /\ buffers'[bd'[kind]].kind = kind /\ buffers'[bd'[kind]].allocated
    /\ buffers'[bd'[kind]].ready => buffers'[bd'[kind]].pages >= drawing.need[kind]
    /\ \A i \in DOMAIN buffers : buffers[i].kind # kind => buffers'[i] = buffers[i]
    /\ KeptInv'

LEMMA ResizeBegins ==
    ASSUME RenderInv, WholeInv, drawing.step # "none", NEW kind \in BufferKinds
    PROVE  /\ bd \in Backend /\ Current(kind) /\ drawing.need[kind] \in Nat
           /\ buffers \in Seq(Buffer) /\ KeptInv
<1>1. bd \in Backend /\ drawing.need \in Demands
  BY Zenon DEF RenderInv, RenderTypes, WholeInv, DataInv
<1>2. Current(kind)
  BY <1>1, BackendIsOne, Zenon DEF RenderInv, CurrentInv, BufferKinds
<1> QED
  BY <1>1, <1>2, NeedIsPages, Zenon DEF RenderInv, RenderTypes

LEMMA ResizeNot ==
    ASSUME RenderInv, WholeInv, drawing.step # "none", NEW kind \in BufferKinds,
           NEW tooSmall \in MayBeTooSmall(bd[kind], drawing.need[kind]), ~tooSmall, UNCHANGED <<bd, buffers>>
    PROVE  ResizeEffect(kind)
<1> DEFINE id == bd[kind]
<1>1. /\ bd \in Backend /\ Current(kind) /\ drawing.need[kind] \in Nat
      /\ buffers \in Seq(Buffer) /\ KeptInv
  BY ResizeBegins
<1>2. id # 0
  BY Zenon DEF MayBeTooSmall
<1>3. id \in 0 .. Len(buffers)
  BY <1>1, Zenon DEF Current
<1>4. id \in 1 .. Len(buffers) /\ id \in DOMAIN buffers /\ Len(buffers) <= Len(buffers)
  BY <1>1, <1>2, <1>3
<1>5. buffers[id] \in Buffer
  BY <1>1, <1>4
<1>6. buffers[id].pages \in Nat
  BY <1>5, Zenon DEF Buffer
<1>7. buffers[id].ready => ~(buffers[id].pages < drawing.need[kind])
  BY <1>1, <1>2, <1>4, Zenon DEF MayBeTooSmall, KeptInv
<1>8. buffers[id].ready => buffers[id].pages >= drawing.need[kind]
  BY <1>1, <1>6, <1>7, EnoughOrTooSmall, Zenon
<1>9. KeepsBuffers /\ KeptInv'
  BY <1>1, <1>4, SameIsSame, Zenon DEF KeepsBuffers, KeptInv, Outgrown
<1> QED
  BY <1>1, <1>2, <1>4, <1>8, <1>9, Zenon DEF ResizeEffect, SameParts, Current

LEMMA ResizeMakes ==
    ASSUME RenderInv, WholeInv, drawing.step # "none", NEW kind \in BufferKinds,
           NEW outcome \in Outcomes,
           NEW tooSmall \in MayBeTooSmall(bd[kind], drawing.need[kind]), tooSmall,
           buffers' = Append(IF bd[kind] = 0 THEN buffers ELSE Finalize(bd[kind]),
                             MemoryBuffer(kind, drawing.need[kind], outcome)),
           bd' = [bd EXCEPT ![kind] = Len(buffers) + 1]
    PROVE  ResizeEffect(kind)
<1>0. PICK id : id = bd[kind]
  OBVIOUS
<1> DEFINE pages == drawing.need[kind]
           new == MemoryBuffer(kind, pages, outcome)
           at == Len(buffers) + 1
<1>1. /\ bd \in Backend /\ Current(kind) /\ pages \in Nat
      /\ buffers \in Seq(Buffer) /\ KeptInv
  BY ResizeBegins
<1>2. id \in 0 .. Len(buffers)
  BY <1>0, <1>1, Zenon DEF Current
<1>3. /\ new \in Buffer /\ new.kind = kind /\ new.pages = pages
      /\ new.allocated /\ (new.ready => new.pool)
  BY <1>1, NewBuffer, ZenonT(60)
<1> HIDE DEF new
<1>4. buffers' = Append(IF id = 0 THEN buffers ELSE Finalize(id), new)
  BY <1>0, Zenon DEF new
<1>5. /\ KeepsBuffers /\ Len(buffers') = at /\ buffers'[at] = new
      /\ \A i \in DOMAIN buffers : i # id => buffers'[i] = buffers[i]
  BY <1>1, <1>2, <1>3, <1>4, ListGrows, Zenon
<1>6. at \in Nat /\ at \in 1 .. at /\ at # 0
  BY <1>1, BufferPlaces
<1>7. /\ bd' \in Backend /\ SameParts /\ bd'[kind] = at
      /\ \A other \in BufferKinds : other # kind => bd'[other] = bd[other]
  <2>1. at \in Nat /\ kind \in BufferKinds /\ bd \in Backend
    BY <1>1, <1>6
  <2>2. BufferDataIs(bd, bd', kind, at)
    BY <2>1, BufferData, Zenon
  <2> QED
    BY <2>1, <2>2, Zenon DEF SameParts, BufferDataIs
<1>8. ASSUME NEW i \in DOMAIN buffers', i # at PROVE i \in DOMAIN buffers
  <2>1. buffers' \in Seq(Buffer) /\ Len(buffers') = Len(buffers) + 1
    BY <1>5, Zenon DEF KeepsBuffers
  <2> QED
    BY <1>1, <1>8, <2>1
<1>9. new.pages >= pages
  BY <1>1, <1>3
<1>10. ASSUME id \in DOMAIN buffers, buffers'[id].pool PROVE Outgrown(id)'
  <2>1. SameBuffer(buffers[id], buffers'[id]) /\ id \in DOMAIN buffers'
    BY <1>5, <1>10, KeptPlaces
  <2>2. id # 0 /\ at \in id + 1 .. Len(buffers') /\ buffers[id] \in Buffer
    BY <1>1, <1>5, <1>10
  <2>3. buffers[id].pages < pages
    BY <1>10, <2>1, <2>2, <1>0, Zenon DEF MayBeTooSmall, SameBuffer
  <2>4. buffers[id].pages \in Nat
    BY <2>2, Zenon DEF Buffer
  <2>5. pages > buffers[id].pages
    BY <1>1, <2>3, <2>4, EnoughOrTooSmall, Zenon
  <2>6. buffers[id].kind = kind
    BY <1>0, <1>1, <2>2, Zenon DEF Current
  <2>7. buffers'[at].kind = buffers'[id].kind /\ buffers'[at].pages > buffers'[id].pages
    BY <1>3, <1>5, <2>1, <2>5, <2>6, Zenon DEF SameBuffer
  <2> QED
    BY <2>2, <2>7, Zenon DEF Outgrown
<1>11. KeptInv'
  <2> SUFFICES ASSUME NEW i \in DOMAIN buffers'
               PROVE  /\ buffers'[i].ready => buffers'[i].pool
                      /\ buffers'[i].pool => buffers'[i].allocated \/ Outgrown(i)'
    BY Zenon DEF KeptInv
  <2>1. CASE i = at
    BY <1>3, <1>5, <2>1, Zenon
  <2>2. CASE i # at /\ i = id
    <3>1. i \in DOMAIN buffers
      BY <1>8, <2>2
    <3>2. SameBuffer(buffers[i], buffers'[i])
      BY <1>5, <3>1, KeptPlaces
    <3> QED
      BY <1>1, <1>10, <2>2, <3>1, <3>2, Zenon DEF SameBuffer, KeptInv
  <2>3. CASE i # at /\ i # id
    <3>1. i \in DOMAIN buffers
      BY <1>8, <2>3
    <3>2. buffers'[i] = buffers[i]
      BY <1>5, <2>3, <3>1, Zenon
    <3> QED
      BY <1>1, <1>5, <3>1, <3>2, OutgrownStays, Zenon DEF KeptInv
  <2> QED
    BY <2>1, <2>2, <2>3
<1>12. \A i \in DOMAIN buffers : buffers[i].kind # kind => buffers'[i] = buffers[i]
  <2>1. id # 0 => buffers[id].kind = kind
    BY <1>0, <1>1, Zenon DEF Current
  <2>2. 0 \notin DOMAIN buffers
    BY <1>1
  <2> QED
    BY <1>5, <2>1, <2>2, Zenon
<1> QED
  <2>1. bd'[kind] \in 1 .. Len(buffers') /\ buffers'[bd'[kind]] = new
    BY <1>5, <1>6, <1>7, Zenon
  <2>2. new.kind = kind /\ new.allocated /\ (new.ready => new.pages >= drawing.need[kind])
    BY <1>3, <1>9, Zenon
  <2>3. KeepsBuffers /\ SameParts /\ bd' \in Backend /\ KeptInv'
    BY <1>5, <1>7, <1>11, Zenon
  <2>4. \A other \in BufferKinds : other # kind => bd'[other] = bd[other]
    BY <1>7, Zenon
  <2> QED
    BY <1>12, <2>1, <2>2, <2>3, <2>4, Zenon DEF ResizeEffect

LEMMA Resizing ==
    ASSUME RenderInv, WholeInv, drawing.step # "none", NEW kind \in BufferKinds, Resize(kind)
    PROVE  ResizeEffect(kind)
<1>1. PICK tooSmall \in MayBeTooSmall(bd[kind], drawing.need[kind]), outcome \in Outcomes :
         Resize(kind)!(tooSmall, outcome)
  BY Zenon DEF Resize
<1>2. CASE ~tooSmall
  BY <1>1, <1>2, ResizeNot, Zenon
<1>3. CASE tooSmall
  BY <1>1, <1>3, ResizeMakes, Zenon
<1> QED
  BY <1>2, <1>3

----
(* The steps of renderDrawData                                             *)

(* A frame that goes on from step to step keeps its need.                  *)
LEMMA StepToTypes ==
    ASSUME RenderTypes, NEW from \in Steps, NEW to \in Steps, from # "none", StepTo(from, to)
    PROVE  /\ drawing.step = from /\ drawing' \in [step : Steps, need : Demands]
           /\ drawing'.step = to /\ drawing'.need = drawing.need /\ drawing.need \in Demands
           /\ bd # NoBackend
<1>1. drawing.step = from /\ drawing' = [drawing EXCEPT !.step = to]
  BY Zenon DEF StepTo
<1>2. Idle.step = "none"
  BY DEF Idle
<1>3. drawing \in [step : Steps, need : Demands] /\ bd # NoBackend
  BY <1>1, <1>2, Zenon DEF RenderTypes
<1> QED
  BY <1>1, <1>3, Zenon

(* The other kind's buffer is not disturbed.                               *)
LEMMA OtherStays ==
    ASSUME RenderInv, WholeInv, drawing.step # "none", NEW kind \in BufferKinds, ResizeEffect(kind),
           NEW other \in BufferKinds, other # kind, drawing'.need = drawing.need
    PROVE  Current(other)' /\ (Sized(other) => Sized(other)')
<1>1. Current(other) /\ buffers \in Seq(Buffer)
  BY ResizeBegins
<1>2. bd'[other] = bd[other] /\ KeepsBuffers
  BY Zenon DEF ResizeEffect
<1>3. bd[other] \in 0 .. Len(buffers) /\ Len(buffers) <= Len(buffers') /\ Len(buffers') \in Nat
  BY <1>1, <1>2 DEF Current, KeepsBuffers
<1>4. CASE bd[other] = 0
  <2>1. 0 \in 0 .. Len(buffers')
    BY <1>3
  <2> QED
    BY <1>2, <1>4, <2>1, Zenon DEF Current, Sized
<1>5. CASE bd[other] # 0
  <2>1. bd[other] \in DOMAIN buffers /\ bd[other] \in 0 .. Len(buffers')
    BY <1>1, <1>3, <1>5
  <2>2. buffers[bd[other]].kind = other /\ buffers[bd[other]].allocated
    BY <1>1, <1>5, Zenon DEF Current
  <2>3. buffers'[bd[other]] = buffers[bd[other]]
    BY <2>1, <2>2, Zenon DEF ResizeEffect
  <2> QED
    BY <1>2, <2>1, <2>2, <2>3, Zenon DEF Current, Sized
<1> QED
  BY <1>4, <1>5

LEMMA ThisOneSized ==
    ASSUME NEW kind \in BufferKinds, ResizeEffect(kind), drawing'.need = drawing.need
    PROVE  Current(kind)' /\ Sized(kind)'
<1>1. /\ bd'[kind] \in 1 .. Len(buffers')
      /\ buffers'[bd'[kind]].kind = kind /\ buffers'[bd'[kind]].allocated
      /\ buffers'[bd'[kind]].ready => buffers'[bd'[kind]].pages >= drawing.need[kind]
      /\ buffers' \in Seq(Buffer)
  BY Zenon DEF ResizeEffect, KeepsBuffers
<1>2. bd'[kind] \in 0 .. Len(buffers') /\ bd'[kind] # 0
  BY <1>1
<1> QED
  BY <1>1, <1>2, Zenon DEF Current, Sized

LEMMA KindsOfBuffers == "vtx" \in BufferKinds /\ "idx" \in BufferKinds /\ "vtx" # "idx"
BY DEF BufferKinds

LEMMA StepNames ==
    /\ "none" \in Steps /\ "vtx" \in Steps /\ "idx" \in Steps /\ "copy" \in Steps /\ "submit" \in Steps
    /\ "vtx" # "none" /\ "idx" # "none" /\ "copy" # "none" /\ "submit" # "none"
    /\ "idx" # "copy" /\ "idx" # "submit" /\ "copy" # "submit" /\ "vtx" # "idx"
    /\ "idx" \in {"idx", "copy", "submit"} /\ "copy" \in {"idx", "copy", "submit"}
    /\ "submit" \in {"idx", "copy", "submit"} /\ "submit" \in {"copy", "submit"}
    /\ "copy" \in {"copy", "submit"} /\ "idx" \notin {"copy", "submit"}
    /\ "vtx" \notin {"idx", "copy", "submit"} /\ "none" \notin {"idx", "copy", "submit"}
    /\ "vtx" \notin {"copy", "submit"} /\ "none" \notin {"copy", "submit"}
BY DEF Steps

LEMMA ResizeVerticesRender ==
    ASSUME RenderInv, WholeInv, ResizeVertices PROVE RenderInv' /\ SameParts
<1>1. /\ drawing.step = "vtx" /\ drawing' \in [step : Steps, need : Demands]
      /\ drawing'.step = "idx" /\ drawing'.need = drawing.need /\ drawing.need \in Demands
  BY StepToTypes, StepNames, Zenon DEF ResizeVertices, RenderInv
<1>2. drawing.step # "none" /\ begun' = begun /\ gpu' = gpu /\ Resize("vtx")
  BY <1>1, StepNames, Zenon DEF ResizeVertices
<1>3. ResizeEffect("vtx")
  BY <1>2, Resizing, KindsOfBuffers, Zenon
<1>4. Current("vtx")' /\ Sized("vtx")' /\ Current("idx")'
  BY <1>1, <1>2, <1>3, ThisOneSized, OtherStays, KindsOfBuffers, Zenon
<1>5. CurrentInv'
  BY <1>1, <1>4, StepNames, Zenon DEF CurrentInv
<1>6. KeepsBuffers /\ KeptInv' /\ bd' # NoBackend /\ SameParts
  BY <1>3, BackendIsOne, Zenon DEF ResizeEffect
<1>7. RenderTypes'
  BY <1>1, <1>2, <1>6, Zenon DEF RenderTypes, RenderInv, KeepsBuffers
<1>8. SubmittedInv'
  BY <1>2, <1>6, SubmittedStays
<1> QED
  BY <1>5, <1>6, <1>7, <1>8, Zenon DEF RenderInv

LEMMA ResizeIndicesRender ==
    ASSUME RenderInv, WholeInv, ResizeIndices PROVE RenderInv' /\ SameParts
<1>1. /\ drawing.step = "idx" /\ drawing' \in [step : Steps, need : Demands]
      /\ drawing'.step = "copy" /\ drawing'.need = drawing.need /\ drawing.need \in Demands
  BY StepToTypes, StepNames, Zenon DEF ResizeIndices, RenderInv
<1>2. drawing.step # "none" /\ begun' = begun /\ gpu' = gpu /\ Resize("idx")
  BY <1>1, StepNames, Zenon DEF ResizeIndices
<1>3. ResizeEffect("idx")
  BY <1>2, Resizing, KindsOfBuffers, Zenon
<1>4. Current("idx")' /\ Sized("idx")' /\ Current("vtx")' /\ Sized("vtx")'
  <2>1. Sized("vtx")
    BY <1>1, StepNames, Zenon DEF RenderInv, CurrentInv
  <2> QED
    BY <1>1, <1>2, <1>3, <2>1, ThisOneSized, OtherStays, KindsOfBuffers, Zenon
<1>5. CurrentInv'
  BY <1>1, <1>4, StepNames, Zenon DEF CurrentInv
<1>6. KeepsBuffers /\ KeptInv' /\ bd' # NoBackend /\ SameParts
  BY <1>3, BackendIsOne, Zenon DEF ResizeEffect
<1>7. RenderTypes'
  BY <1>1, <1>2, <1>6, Zenon DEF RenderTypes, RenderInv, KeepsBuffers
<1>8. SubmittedInv'
  BY <1>2, <1>6, SubmittedStays
<1> QED
  BY <1>5, <1>6, <1>7, <1>8, Zenon DEF RenderInv

(* Both buffers get the frame, and nothing else changes.                   *)
LEMMA CopyEffect ==
    ASSUME RenderInv, WholeInv, CopyLists
    PROVE  /\ KeepsBuffers /\ DOMAIN buffers' = DOMAIN buffers
           /\ bd["vtx"] \in DOMAIN buffers /\ bd["idx"] \in DOMAIN buffers
           /\ buffers'[bd["vtx"]].frame = begun /\ buffers'[bd["idx"]].frame = begun
           /\ \A i \in DOMAIN buffers : buffers'[i].allocated = buffers[i].allocated
<1>0. PICK v, x : v = bd["vtx"] /\ x = bd["idx"]
  OBVIOUS
<1>1. /\ drawing.step = "copy" /\ begun \in Nat /\ buffers \in Seq(Buffer)
      /\ buffers' = [buffers EXCEPT ![bd.vtx].frame = begun, ![bd.idx].frame = begun]
  BY Zenon DEF CopyLists, StepTo, RenderInv, RenderTypes
<1>2. drawing.step # "none"
  BY <1>1, StepNames, Zenon
<1>3. Current("vtx") /\ Current("idx") /\ Sized("vtx") /\ Sized("idx")
  BY <1>1, <1>2, ResizeBegins, KindsOfBuffers, StepNames, Zenon DEF RenderInv, CurrentInv
<1>4. /\ v # 0 /\ v \in 0 .. Len(buffers) /\ buffers[v].kind = "vtx"
      /\ x # 0 /\ x \in 0 .. Len(buffers) /\ buffers[x].kind = "idx"
  BY <1>0, <1>3, Zenon DEF Current, Sized
<1>5. v \in DOMAIN buffers /\ x \in DOMAIN buffers
  BY <1>1, <1>4
<1>6. v # x
  BY <1>4, KindsOfBuffers, Zenon
<1>7. buffers[v] \in Buffer /\ buffers[x] \in Buffer
  BY <1>1, <1>5
<1> DEFINE bv == [buffers[v] EXCEPT !.frame = begun]
           bx == [buffers[x] EXCEPT !.frame = begun]
<1>8. /\ bv \in Buffer /\ SameBuffer(buffers[v], bv) /\ bv.frame = begun
      /\ bv.allocated = buffers[v].allocated
      /\ bx \in Buffer /\ SameBuffer(buffers[x], bx) /\ bx.frame = begun
      /\ bx.allocated = buffers[x].allocated
  BY <1>1, <1>7, Stamped, Zenon
<1>9. PICK mid : mid = [buffers EXCEPT ![v] = bv]
  OBVIOUS
<1> HIDE DEF bv
<1>10. /\ mid \in Seq(Buffer) /\ Len(mid) = Len(buffers) /\ DOMAIN mid = DOMAIN buffers
       /\ mid[v] = bv /\ \A j \in DOMAIN buffers : j # v => mid[j] = buffers[j]
  BY <1>1, <1>5, <1>8, <1>9, Replaced
<1>11. buffers' = [mid EXCEPT ![x] = bx]
  BY <1>0, <1>1, <1>5, <1>6, <1>9, <1>10, Zenon DEF bv
<1> HIDE DEF bx
<1>12. /\ buffers' \in Seq(Buffer) /\ Len(buffers') = Len(mid) /\ DOMAIN buffers' = DOMAIN mid
       /\ buffers'[x] = bx /\ \A j \in DOMAIN mid : j # x => buffers'[j] = mid[j]
  BY <1>5, <1>8, <1>10, <1>11, Replaced
<1>13. \A i \in DOMAIN buffers : \/ i = v /\ buffers'[i] = bv
                                 \/ i = x /\ buffers'[i] = bx
                                 \/ buffers'[i] = buffers[i]
  BY <1>6, <1>10, <1>12, Zenon
<1>14. Len(buffers) <= Len(buffers')
  BY <1>1, <1>10, <1>12, BufferPlaces
<1>15. KeepsBuffers
  BY <1>1, <1>8, <1>12, <1>13, <1>14, SameIsSame, Zenon DEF KeepsBuffers
<1> QED
  BY <1>0, <1>5, <1>6, <1>8, <1>10, <1>12, <1>13, <1>15, Zenon

LEMMA CopyListsRender ==
    ASSUME RenderInv, WholeInv, CopyLists PROVE RenderInv' /\ SameParts
<1>1. /\ drawing.step = "copy" /\ drawing' \in [step : Steps, need : Demands]
      /\ drawing'.step = "submit" /\ drawing'.need = drawing.need /\ drawing.need \in Demands
      /\ bd # NoBackend
  BY StepToTypes, StepNames, Zenon DEF CopyLists, RenderInv
<1>2. /\ drawing.step # "none" /\ begun' = begun /\ gpu' = gpu /\ bd' = bd
      /\ buffers[bd.vtx].ready /\ buffers[bd.idx].ready
  BY <1>1, StepNames, Zenon DEF CopyLists, BuffersReady
<1>3. /\ KeepsBuffers /\ DOMAIN buffers' = DOMAIN buffers
      /\ bd["vtx"] \in DOMAIN buffers /\ bd["idx"] \in DOMAIN buffers
      /\ buffers'[bd["vtx"]].frame = begun /\ buffers'[bd["idx"]].frame = begun
      /\ \A i \in DOMAIN buffers : buffers'[i].allocated = buffers[i].allocated
  BY CopyEffect
<1>4. Current("vtx") /\ Current("idx") /\ Sized("vtx") /\ Sized("idx")
  BY <1>1, <1>2, ResizeBegins, KindsOfBuffers, StepNames, Zenon DEF RenderInv, CurrentInv
<1>5. Len(buffers') = Len(buffers)
  BY <1>3 DEF KeepsBuffers
<1>6. ASSUME NEW kind \in BufferKinds, Current(kind), Sized(kind), bd[kind] \in DOMAIN buffers
      PROVE  Current(kind)' /\ Sized(kind)'
  <2>1. SameBuffer(buffers[bd[kind]], buffers'[bd[kind]])
    BY <1>3, <1>6, KeptPlaces
  <2> QED
    BY <1>1, <1>2, <1>3, <1>5, <1>6, <2>1, Zenon DEF Current, Sized, SameBuffer
<1>7. Filled("vtx")' /\ Filled("idx")'
  <2>1. /\ SameBuffer(buffers[bd["vtx"]], buffers'[bd["vtx"]])
        /\ SameBuffer(buffers[bd["idx"]], buffers'[bd["idx"]])
    BY <1>3, KeptPlaces
  <2> QED
    BY <1>2, <1>3, <2>1, Zenon DEF Filled, SameBuffer
<1>8. CurrentInv'
  BY <1>1, <1>3, <1>4, <1>6, <1>7, KindsOfBuffers, Zenon DEF CurrentInv
<1>9. KeptInv'
  <2> SUFFICES ASSUME NEW i \in DOMAIN buffers
               PROVE  /\ buffers'[i].ready => buffers'[i].pool
                      /\ buffers'[i].pool => buffers'[i].allocated \/ Outgrown(i)'
    BY <1>3, Zenon DEF KeptInv
  <2>1. SameBuffer(buffers[i], buffers'[i])
    BY <1>3, KeptPlaces
  <2> QED
    BY <1>3, <2>1, OutgrownStays, Zenon DEF SameBuffer, RenderInv, KeptInv
<1>10. RenderTypes'
  BY <1>1, <1>2, <1>3, Zenon DEF RenderTypes, RenderInv, KeepsBuffers
<1>11. SubmittedInv'
  BY <1>2, <1>3, SubmittedStays
<1> QED
  BY <1>2, <1>8, <1>9, <1>10, <1>11, Zenon DEF RenderInv, SameParts

(* A frame given up leaves all as it was.                                  *)
LEMMA GiveUpRender ==
    ASSUME RenderInv, GiveUp PROVE RenderInv' /\ SameParts
<1>1. /\ drawing.step = "copy" /\ drawing' = Idle
      /\ UNCHANGED <<bd, buffers, begun, gpu>>
  BY Zenon DEF GiveUp
<1>2. drawing'.step = "none" /\ drawing.step # "none"
  BY <1>1 DEF Idle
<1>3. RenderTypes' /\ KeptInv'
  BY <1>1, <1>2, Zenon DEF RenderInv, RenderTypes, KeptInv, Outgrown
<1>4. CurrentInv'
  BY <1>1, <1>2, StepNames, Zenon DEF RenderInv, CurrentInv, Current
<1>5. SubmittedInv'
  BY <1>1, <1>2, Zenon DEF RenderInv, SubmittedInv, Fits, Intact
<1> QED
  BY <1>1, <1>3, <1>4, <1>5, Zenon DEF RenderInv, SameParts

LEMMA Enqueued ==
    ASSUME NEW f \in Submitted, gpu \in Seq(Submitted), gpu' = Append(gpu, f)
    PROVE  /\ gpu' \in Seq(Submitted)
           /\ \A i \in DOMAIN gpu' : gpu'[i] = f \/ (i \in DOMAIN gpu /\ gpu'[i] = gpu[i])
BY SMTT(60) DEF Submitted

LEMMA SubmitRender ==
    ASSUME RenderInv, WholeInv, SubmitCommands PROVE RenderInv' /\ SameParts
<1>0. PICK f : f = [frame |-> begun, vtx |-> bd.vtx, idx |-> bd.idx, need |-> drawing.need]
  OBVIOUS
<1>1. /\ drawing.step = "submit" /\ drawing' = Idle /\ gpu' = Append(gpu, f)
      /\ UNCHANGED <<bd, buffers, begun>>
  BY <1>0, Zenon DEF SubmitCommands
<1>2. drawing'.step = "none" /\ drawing.step # "none"
  BY <1>1 DEF Idle
<1>3. RenderTypes /\ KeptInv /\ CurrentInv /\ SubmittedInv /\ bd # NoBackend /\ drawing.need \in Demands
      /\ begun \in Nat /\ gpu \in Seq(Submitted)
  BY <1>2, Zenon DEF RenderInv, RenderTypes
<1>4. /\ Current("vtx") /\ Current("idx") /\ Sized("vtx") /\ Sized("idx")
      /\ Filled("vtx") /\ Filled("idx")
  BY <1>1, <1>3, StepNames, Zenon DEF CurrentInv
<1>5. /\ bd["vtx"] \in DOMAIN buffers /\ bd["idx"] \in DOMAIN buffers
      /\ bd["vtx"] \in Nat /\ bd["idx"] \in Nat
  <2>1. /\ bd["vtx"] # 0 /\ bd["vtx"] \in 0 .. Len(buffers)
        /\ bd["idx"] # 0 /\ bd["idx"] \in 0 .. Len(buffers)
    BY <1>4, Zenon DEF Current, Sized
  <2>2. buffers \in Seq(Buffer)
    BY <1>3, Zenon DEF RenderTypes
  <2> QED
    BY <2>1, <2>2
<1>6. f \in Submitted
  BY <1>0, <1>3, <1>5, Zenon DEF Submitted
<1>7. Fits(f)' /\ Intact(f)' /\ f.frame = begun
  BY <1>0, <1>1, <1>4, <1>5, Zenon DEF Fits, Intact, Filled, Sized, Current
<1>8. begun <= begun
  BY <1>3
<1>9. /\ gpu' \in Seq(Submitted)
      /\ \A i \in DOMAIN gpu' : gpu'[i] = f \/ (i \in DOMAIN gpu /\ gpu'[i] = gpu[i])
  BY <1>1, <1>3, <1>6, Enqueued, Zenon
<1>10. SubmittedInv'
  <2> SUFFICES ASSUME NEW i \in DOMAIN gpu'
               PROVE  /\ Fits(gpu[i])' /\ gpu'[i].frame <= begun
                      /\ gpu'[i].frame = begun => drawing'.step = "none" /\ Intact(gpu[i])'
    BY <1>1, Zenon DEF SubmittedInv
  <2>1. CASE gpu'[i] = f
    BY <1>2, <1>7, <1>8, <2>1, Zenon
  <2>2. CASE i \in DOMAIN gpu /\ gpu'[i] = gpu[i]
    BY <1>1, <1>2, <1>3, <2>2, Zenon DEF SubmittedInv, Fits, Intact
  <2> QED
    BY <1>9, <2>1, <2>2, Zenon
<1>11. RenderTypes' /\ KeptInv'
  BY <1>1, <1>2, <1>3, <1>9, Zenon DEF RenderTypes, KeptInv, Outgrown
<1>12. CurrentInv'
  BY <1>1, <1>2, <1>3, StepNames, Zenon DEF CurrentInv, Current
<1> QED
  BY <1>1, <1>10, <1>11, <1>12, Zenon DEF RenderInv, SameParts

(* A new frame has a number of its own.                                    *)
LEMMA BeginRenderRender ==
    ASSUME RenderInv, bd # NoBackend, BeginRender PROVE RenderInv' /\ SameParts /\ bd.isInitialized
<1>1. PICK need \in Demands : drawing' = [step |-> "vtx", need |-> need]
  BY Zenon DEF BeginRender
<1>2. begun' = begun + 1 /\ UNCHANGED <<bd, buffers, gpu>> /\ bd.isInitialized
  BY Zenon DEF BeginRender
<1>3. /\ drawing'.step = "vtx" /\ drawing'.need \in Demands
      /\ drawing' \in [step : Steps, need : Demands]
  BY <1>1, StepNames, Zenon
<1>4. begun \in Nat /\ gpu \in Seq(Submitted)
  BY Zenon DEF RenderInv, RenderTypes
<1>5. begun' \in Nat /\ \A n \in Nat : n <= begun => n <= begun' /\ n # begun'
  BY <1>2, <1>4
<1>6. \A i \in DOMAIN gpu : gpu[i] \in Submitted
  BY <1>4
<1>7. \A i \in DOMAIN gpu : gpu[i].frame \in Nat
  BY <1>6, Zenon DEF Submitted
<1>8. SubmittedInv'
  BY <1>2, <1>5, <1>7, Zenon DEF RenderInv, SubmittedInv, Fits
<1>9. RenderTypes' /\ KeptInv'
  BY <1>2, <1>3, <1>5, Zenon DEF RenderInv, RenderTypes, KeptInv, Outgrown
<1>10. CurrentInv'
  BY <1>2, <1>3, StepNames, Zenon DEF RenderInv, CurrentInv, Current
<1> QED
  BY <1>2, <1>8, <1>9, <1>10, Zenon DEF RenderInv, SameParts

LEMMA Dequeued ==
    ASSUME gpu \in Seq(Submitted), gpu # <<>>, gpu' = Tail(gpu)
    PROVE  /\ gpu' \in Seq(Submitted)
           /\ \A i \in DOMAIN gpu' : i + 1 \in DOMAIN gpu /\ gpu'[i] = gpu[i + 1]
OBVIOUS

LEMMA FinishFrameRender == ASSUME RenderInv, FinishFrame PROVE RenderInv'
<1>1. gpu # <<>> /\ gpu' = Tail(gpu) /\ UNCHANGED <<bd, buffers, drawing, begun>>
  BY Zenon DEF FinishFrame
<1>2. gpu \in Seq(Submitted)
  BY Zenon DEF RenderInv, RenderTypes
<1>3. /\ gpu' \in Seq(Submitted)
      /\ \A i \in DOMAIN gpu' : i + 1 \in DOMAIN gpu /\ gpu'[i] = gpu[i + 1]
  BY <1>1, <1>2, Dequeued
<1>4. SubmittedInv'
  BY <1>1, <1>3, ZenonT(60) DEF RenderInv, SubmittedInv, Fits, Intact
<1> QED
  BY <1>1, <1>3, <1>4, Zenon DEF RenderInv, RenderTypes, KeptInv, Outgrown, CurrentInv, Current,
     Sized, Filled

(* What does not render leaves the rest as it was.                         *)
renderVars == <<buffers, drawing, begun, gpu>>

LEMMA RenderSame ==
    ASSUME RenderInv, UNCHANGED renderVars,
           \/ bd' = bd
           \/ bd = NoBackend /\ bd' # NoBackend /\ bd'["vtx"] = 0 /\ bd'["idx"] = 0
           \/ bd # NoBackend /\ bd' # NoBackend /\ bd'["vtx"] = bd["vtx"] /\ bd'["idx"] = bd["idx"]
    PROVE  RenderInv'
<1>1. UNCHANGED <<buffers, drawing, begun, gpu>>
  BY Zenon DEF renderVars
<1>2. RenderTypes' /\ KeptInv' /\ SubmittedInv'
  BY <1>1, Zenon DEF RenderInv, RenderTypes, KeptInv, Outgrown, SubmittedInv, Fits, Intact
<1>3. CurrentInv'
  <2>1. CASE bd' = bd
    BY <1>1, <2>1, Zenon DEF RenderInv, CurrentInv, Current, Sized, Filled
  <2>2. CASE bd = NoBackend /\ bd' # NoBackend /\ bd'["vtx"] = 0 /\ bd'["idx"] = 0
    <3>1. drawing.step = "none"
      BY <2>2, Zenon DEF RenderInv, RenderTypes
    <3>2. 0 \in 0 .. Len(buffers)
      <4>1. buffers \in Seq(Buffer)
        BY Zenon DEF RenderInv, RenderTypes
      <4> QED
        BY <4>1
    <3>3. Current("vtx")' /\ Current("idx")'
      BY <1>1, <2>2, <3>2, Zenon DEF Current
    <3> QED
      BY <1>1, <3>1, <3>3, StepNames, Zenon DEF CurrentInv
  <2>3. CASE bd # NoBackend /\ bd' # NoBackend /\ bd'["vtx"] = bd["vtx"] /\ bd'["idx"] = bd["idx"]
    BY <1>1, <2>3, Zenon DEF RenderInv, CurrentInv, Current, Sized, Filled
  <2> QED
    BY <2>1, <2>2, <2>3
<1> QED
  BY <1>2, <1>3, Zenon DEF RenderInv

----
(* Pictures and windows                                                    *)

(* Pictures are presented with the overlay once it has its data.           *)
PictureInv ==
    /\ presenting # "idle" => bd # NoBackend
    /\ menuDrawn => sequence = "menu" /\ bd # NoBackend

LEMMA PictureInit == OverlayInit => PictureInv
BY Zenon DEF OverlayInit, PictureInv

LEMMA SequenceStays == ASSUME HakoniwaSequenceInit, sequence = "menu" PROVE sequence' = "menu"
<1>1. "menu" # "none" /\ "menu" # "sequence" /\ "menu" \in {"heap", "menu"}
  OBVIOUS
<1> QED
  BY <1>1, Zenon DEF HakoniwaSequenceInit

LEMMA PictureStep ==
    ASSUME PictureInv, SetupInv, [Next]_bootStateVars, bd # NoBackend => bd' # NoBackend
    PROVE  PictureInv'
<1>1. hasInitImGui => bd # NoBackend
  BY Zenon DEF SetupInv
<1>2. CASE UNCHANGED frameVars
  BY <1>2, Zenon DEF PictureInv, frameVars
<1>3. CASE WindowCalls
  <2>1. UNCHANGED <<presenting, sequence, menuDrawn>>
    BY <1>3, Zenon DEF WindowCalls, setCrop
  <2> QED
    BY <2>1, Zenon DEF PictureInv
<1>4. CASE InputCalls
  <2>1. CASE HakoniwaSequenceInit
    <3>1. UNCHANGED <<presenting, menuDrawn>>
      BY <2>1, Zenon DEF HakoniwaSequenceInit
    <3>2. sequence = "menu" => sequence' = "menu"
      BY <2>1, SequenceStays
    <3> QED
      BY <3>1, <3>2, Zenon DEF PictureInv
  <2> QED
    BY <1>2, <1>4, <2>1, Zenon DEF InputCalls
<1>5. CASE Presenting
  <2>2. CASE BeginFrame
    BY <1>1, <2>2, Zenon DEF PictureInv, BeginFrame
  <2>3. CASE PadRead \/ KeysRead \/ AddEvents
    <3>1. presenting # "idle" /\ UNCHANGED <<sequence, menuDrawn>>
      BY <2>3, PresentingPlaces, Zenon DEF PadRead, KeysRead, AddEvents, PresentTo
    <3> QED
      BY <3>1, Zenon DEF PictureInv
  <2>4. CASE drawDbgGui
    <3>1. "draw" # "idle"
      OBVIOUS
    <3> QED
      BY <2>4, <3>1, Zenon DEF PictureInv, drawDbgGui, PresentTo
  <2>5. CASE renderDrawData
    <3>1. "render" # "idle"
      OBVIOUS
    <3> QED
      BY <2>5, <3>1, Zenon DEF PictureInv, renderDrawData, PresentTo
  <2>6. CASE Present
    BY <2>6, Zenon DEF PictureInv, Present, PresentTo
  <2> QED
    BY <1>2, <1>5, <2>2, <2>3, <2>4, <2>5, <2>6, Zenon DEF Presenting
<1> QED
  BY <1>2, <1>3, <1>4, <1>5, StepOfOverlay,
     Zenon DEF OverlayStep, overlayVars, Lookups, Makings

LEMMA PresentingKeeps ==
    ASSUME RenderInv, WholeInv, PictureInv, Presenting, Running' => Running
    PROVE  RenderInv' /\ WholeInv' /\ SameParts
<1>1. UNCHANGED <<nvnDevice, nvnQueue, nvnCmdBuf, maker, hasInitImGui, overlapped>>
  BY Zenon DEF Presenting, bootVars, caughtVars, makerVars
<1>2. RenderInv' /\ SameParts /\ (begun' # 0 => begun # 0 \/ (bd # NoBackend /\ bd.isInitialized))
  <2>1. CASE UNCHANGED backendVars
    BY <2>1, RenderSame, Zenon DEF backendVars, renderVars, SameParts
  <2>2. CASE renderDrawData
    <3>1. "render" # "idle"
      OBVIOUS
    <3>2. bd # NoBackend
      BY <2>2, <3>1, Zenon DEF renderDrawData, PresentTo, PictureInv, WholeInv, SetupInv
    <3>3. CASE BeginRender
      BY <3>2, <3>3, BeginRenderRender
    <3>4. CASE NothingToRender
      BY <3>4, RenderSame, Zenon DEF NothingToRender, renderVars, SameParts
    <3> QED
      BY <2>2, <3>3, <3>4, Zenon DEF renderDrawData
  <2>3. CASE RenderStep
    <3>1. begun' = begun
      BY <2>3, Zenon DEF RenderStep, ResizeVertices, ResizeIndices, CopyLists, GiveUp, SubmitCommands
    <3>2. RenderInv' /\ SameParts
      BY <2>3, ResizeVerticesRender, ResizeIndicesRender, CopyListsRender, GiveUpRender,
         SubmitRender, Zenon DEF RenderStep
    <3> QED
      BY <3>1, <3>2, Zenon
  <2>4. CASE FinishFrame
    BY <2>4, FinishFrameRender, Zenon DEF FinishFrame, SameParts
  <2> QED
    BY <2>1, <2>2, <2>3, <2>4, Zenon DEF Presenting
<1>3. DataInv'
  BY <1>2, DataSame, Zenon DEF WholeInv
<1>4. SetupInv'
  BY <1>1, <1>2, SetupSame, Zenon DEF WholeInv
<1> QED
  BY <1>2, <1>3, <1>4, Zenon DEF WholeInv

(* Resizing the window changes the projection alone.                       *)
LEMMA CropData ==
    ASSUME WholeInv, NEW size \in WindowSizes, hasInitImGui, ResizeDisplay(size)
    PROVE  /\ bd \in Backend /\ bd' \in Backend /\ SameParts
           /\ bd'["vtx"] = bd["vtx"] /\ bd'["idx"] = bd["idx"]
           /\ UNCHANGED renderVars
<1>1. bd \in Backend
  BY Zenon DEF WholeInv, DataInv, SetupInv
<1>2. size \in Sizes
  BY Zenon DEF Sizes
<1>3. bd' = bd \/ bd' = [bd EXCEPT !.proj = size]
  BY Zenon DEF ResizeDisplay, updateProjection
<1>4. UNCHANGED renderVars
  BY Zenon DEF ResizeDisplay, renderVars
<1>5. CASE bd' = bd
  BY <1>1, <1>4, <1>5, Zenon DEF SameParts
<1>6. CASE bd' = [bd EXCEPT !.proj = size]
  BY <1>1, <1>2, <1>4, <1>6, Zenon DEF SameParts, Backend
<1> QED
  BY <1>3, <1>5, <1>6

LEMMA WindowKeeps ==
    ASSUME RenderInv, WholeInv, WindowCalls PROVE RenderInv' /\ WholeInv' /\ SameParts
<1>1. UNCHANGED <<nvnDevice, nvnQueue, nvnCmdBuf, maker, hasInitImGui, overlapped, status>>
  BY Zenon DEF WindowCalls, bootVars, caughtVars, makerVars, processVars
<1>2. SameParts /\ RenderInv' /\ begun' = begun
  <2>1. PICK size \in WindowSizes : setCrop(size)
    BY Zenon DEF WindowCalls
  <2>2. CASE hasInitImGui
    <3>1. ResizeDisplay(size)
      BY <2>1, <2>2, Zenon DEF setCrop
    <3>2. /\ bd \in Backend /\ bd' \in Backend /\ SameParts
          /\ bd'["vtx"] = bd["vtx"] /\ bd'["idx"] = bd["idx"]
          /\ UNCHANGED renderVars
      BY <2>2, <3>1, CropData
    <3> QED
      BY <3>2, BackendIsOne, RenderSame, Zenon DEF renderVars
  <2>3. CASE ~hasInitImGui
    BY <2>1, <2>3, RenderSame, Zenon DEF setCrop, backendVars, renderVars, SameParts
  <2> QED
    BY <2>2, <2>3
<1>3. DataInv'
  BY <1>2, DataSame, Zenon DEF WholeInv
<1>4. SetupInv'
  BY <1>1, <1>2, SetupSame, Zenon DEF WholeInv, Running
<1> QED
  BY <1>2, <1>3, <1>4, Zenon DEF WholeInv

LEMMA MakingsKeepRender ==
    ASSUME RenderInv, WholeInv, Makings PROVE RenderInv' /\ (bd # NoBackend => bd' # NoBackend)
<1>1. CASE UNCHANGED backendVars
  BY <1>1, RenderSame, Zenon DEF backendVars, renderVars
<1>4. UNCHANGED backendVars \/ \E t \in Makers : InitBackend(t) \/ SetupImGui(t)
  BY Zenon DEF Makings, CheckInitImGui, InitImGui, CreateContext, AssertNotInitialized, StoreInitImGui
<1>2. ASSUME NEW t \in Makers, InitBackend(t), ~UNCHANGED backendVars PROVE RenderInv' /\ bd' # NoBackend
  <2>1. CreateBackend(nvnDevice, nvnQueue, nvnCmdBuf)
    BY <1>2, Zenon DEF InitBackend
  <2>2. ~bd.exists /\ UNCHANGED renderVars
    BY <2>1, Zenon DEF CreateBackend, renderVars
  <2>3. bd = NoBackend
    BY <2>2, WhetherBackend, Zenon DEF WholeInv, DataInv
  <2>4. bd' \in Backend /\ bd'["vtx"] = 0 /\ bd'["idx"] = 0
    BY <2>1, NewData, Zenon DEF CreateBackend, WholeInv, SetupInv
  <2> QED
    BY <2>2, <2>3, <2>4, BackendIsOne, RenderSame, Zenon
<1>3. ASSUME NEW t \in Makers, SetupImGui(t) PROVE RenderInv' /\ bd' # NoBackend
  <2>1. UNCHANGED renderVars
    BY <1>3, Zenon DEF SetupImGui, SetupBackend, renderVars
  <2>2. bd # NoBackend
    <3>1. maker[t] = "setup" /\ "setup" \in Setting
      BY <1>3, Zenon DEF SetupImGui, MakerTo, Setting
    <3> QED
      BY <3>1, Zenon DEF WholeInv, SetupInv
  <2>3. bd \in Backend
    BY <2>2, Zenon DEF WholeInv, DataInv
  <2>4. bd' = bd \/ \E n \in 0 .. Len(Parts) : SetupParts(n)
    BY <1>3, Zenon DEF SetupImGui, SetupBackend
  <2>5. ASSUME NEW n \in 0 .. Len(Parts), SetupParts(n)
        PROVE  bd' # NoBackend /\ bd'["vtx"] = bd["vtx"] /\ bd'["idx"] = bd["idx"]
    <3>1. bd' = [bd EXCEPT !.made = MadeUpTo(n), !.isInitialized = n = Len(Parts)]
      BY <2>5, Zenon DEF SetupParts
    <3>2. bd'["vtx"] = bd["vtx"] /\ bd'["idx"] = bd["idx"] /\ bd'.exists = bd.exists
      BY <2>3, <3>1, Zenon DEF Backend
    <3> QED
      BY <2>3, <3>2, WhetherBackend, Zenon
  <2> QED
    BY <2>1, <2>2, <2>4, <2>5, RenderSame, Zenon
<1> QED
  BY <1>1, <1>2, <1>3, <1>4, Zenon DEF backendVars

(* Data is lost only where two threads are at it.                          *)
LostInv == status = "lost" => overlapped

LEMMA LostStep ==
    ASSUME LostInv, CaughtInv, EntryInv, SetupInv, [Next]_bootStateVars PROVE LostInv'
<1>1. \/ status' = status \/ status' = "aborted"
      \/ Running /\ Makings /\ \E t \in Makers : Loses(t)
  <2>1. CASE Starting
    BY <2>1, HandleKeeps, Zenon DEF Starting, StartNext, LayoutNext, FindModules, TooManyStaticModules,
       FindRegions, virtmemSetup, InitPatcherImpl, PatcherMapped, HookInitialize, exl_main, Abort,
       Continue, processVars
  <2>2. CASE Playing
    BY <2>2, GameKeeps, Zenon DEF Playing
  <2>3. CASE Loading
    BY <2>3, LoaderKeeps, Zenon
  <2> QED
    BY <2>1, <2>2, <2>3, Zenon DEF Next, bootStateVars, startVars, processVars
<1>2. overlapped => overlapped'
  BY StepOfOverlay, Zenon DEF OverlayStep, overlayVars, bootVars, makerVars, Lookups, NvnBootstrapHook,
     getProc, Makings, deviceInit, queueInit, cmdBufInit, WindowCalls, InputCalls, Presenting
<1>3. ASSUME Running, NEW t \in Makers, Loses(t) PROVE overlapped
  <2>1. SUFFICES ASSUME OneByOne, ~overlapped PROVE FALSE
    BY Zenon DEF EntryInv
  <2>2. CASE CreateContext(t) /\ Disturbs(t)
    <3>1. maker[t] = "create"
      BY <2>2, Zenon DEF CreateContext, MakerTo
    <3>2. ~hasInitImGui
      BY <2>1, <3>1, Places, Zenon DEF OneByOne
    <3>3. PICK u \in Makers \ {t} : maker[u] \in InImGui
      BY <2>2, <3>2, Zenon DEF Disturbs
    <3> QED
      BY <2>1, <3>1, <3>3, Places, Zenon DEF OneByOne
  <2>3. CASE InitBackend(t) /\ bd.exists
    BY <1>3, <2>1, <2>3, WhetherBackend, Zenon DEF InitBackend, MakerTo, SetupInv
  <2> QED
    BY <1>3, <2>2, <2>3, Zenon DEF Loses
<1>4. "aborted" # "lost"
  OBVIOUS
<1> QED
  BY <1>1, <1>2, <1>3, <1>4, Zenon DEF LostInv

(* The overlay, from its beginning to the buffers it draws from.           *)
OverlayInv == CaughtInv /\ EntryInv /\ WholeInv /\ RenderInv /\ PictureInv /\ LostInv

LEMMA OverlaySteps == OverlayInv /\ [Next]_bootStateVars => OverlayInv'
<1> SUFFICES ASSUME OverlayInv, [Next]_bootStateVars PROVE OverlayInv'
  OBVIOUS
<1>1. CaughtInv /\ EntryInv /\ WholeInv /\ RenderInv /\ PictureInv /\ LostInv
  BY Zenon DEF OverlayInv
<1>2. CaughtInv' /\ EntryInv' /\ LostInv'
  BY <1>1, CaughtStep, LostStep, Zenon DEF WholeInv
<1>3. Running' => Running
  BY NoReturn
<1>4. SameParts => (bd # NoBackend => bd' # NoBackend)
  BY BackendIsOne, Zenon DEF SameParts
<1>5. RenderInv' /\ WholeInv' /\ (bd # NoBackend => bd' # NoBackend)
  <2>1. CASE UNCHANGED <<backendVars, bootVars>>
    <3>1. RenderInv' /\ SameParts
      BY <1>1, <2>1, RenderSame, Zenon DEF backendVars, renderVars, SameParts
    <3>2. UNCHANGED <<nvnDevice, nvnQueue, nvnCmdBuf, maker, hasInitImGui, overlapped>> /\ begun' = begun
      BY <2>1, Zenon DEF backendVars, bootVars, caughtVars, makerVars
    <3>3. DataInv' /\ SetupInv'
      BY <1>1, <1>3, <3>1, <3>2, DataSame, SetupSame, Zenon DEF WholeInv
    <3> QED
      BY <1>4, <3>1, <3>3, Zenon DEF WholeInv
  <2>2. CASE Lookups
    BY <1>1, <2>2, LookupsWhole, RenderSame, Zenon DEF Lookups, backendVars, renderVars
  <2>3. CASE Playing /\ Makings
    <3>1. WholeInv'
      BY <1>1, <2>3, CatchingWhole, CheckWhole, BeginWhole, SetupWhole, Zenon DEF Makings, Playing
    <3> QED
      BY <1>1, <2>3, <3>1, MakingsKeepRender
  <2>4. CASE WindowCalls
    BY <1>1, <1>4, <2>4, WindowKeeps
  <2>5. CASE InputCalls
    BY <2>1, <2>5, Zenon DEF InputCalls
  <2>6. CASE Presenting
    BY <1>1, <1>3, <1>4, <2>6, PresentingKeeps
  <2> QED
    BY <2>1, <2>2, <2>3, <2>4, <2>5, <2>6, StepOfOverlay, Zenon DEF OverlayStep, overlayVars
<1>6. PictureInv'
  BY <1>1, <1>5, PictureStep, Zenon DEF WholeInv
<1> QED
  BY <1>2, <1>5, <1>6, Zenon DEF OverlayInv

LEMMA LostInit == BootInit => LostInv
<1>1. BootInit => status = "running"
  BY Zenon DEF BootInit, StartInit, LayoutInit
<1>2. "running" # "lost"
  OBVIOUS
<1> QED
  BY <1>1, <1>2, Zenon DEF LostInv

LEMMA OverlayInvariance == Spec => []OverlayInv
<1>1. BootInit => OverlayInv
  BY CaughtInit, WholeInit, RenderInvInit, PictureInit, LostInit, Zenon DEF BootInit, OverlayInv
<1> QED
  BY <1>1, OverlaySteps, PTL DEF Spec

(***************************************************************************)
(* The processor finds every frame as it was submitted unless a later one  *)
(* was begun, in buffers that were large enough, and only a buffer that is *)
(* outgrown is given back, for any demands and any number of frames.       *)
(***************************************************************************)
THEOREM FramesAreRead == Spec => []FramesReadTheirData
<1>1. OverlayInv => FramesReadTheirData
  BY RenderInvReads, Zenon DEF OverlayInv
<1> QED
  BY <1>1, OverlayInvariance, PTL

(***************************************************************************)
(* However many threads make command buffers, the overlay begins with a    *)
(* device, a queue and a buffer, at the latest with a buffer made after    *)
(* both, and draws when all parts are made; only where two threads meet    *)
(* does it begin twice, is it forgotten or its data lost.                  *)
(***************************************************************************)
THEOREM OverlayBeginsWhole == Spec => []OverlayBegunWhole
<1>1. OverlayInv => OverlayBegunWhole
  <2> SUFFICES ASSUME OverlayInv PROVE OverlayBegunWhole
    OBVIOUS
  <2>1. CaughtInv /\ EntryInv /\ WholeInv /\ RenderInv /\ PictureInv /\ LostInv
    BY Zenon DEF OverlayInv
  <2>2. entries > 1 \/ forgotten \/ status = "lost" => overlapped
    BY <2>1, Zenon DEF EntryInv, OneByOne, LostInv
  <2>3. late /\ (\A t \in Makers : maker[t] = "idle") => hasInitImGui \/ forgotten
    BY <2>1, Zenon DEF CaughtInv, Delivers
  <2>4. hasInitImGui => bd.exists
    BY <2>1, WhetherBackend, Zenon DEF WholeInv, DataInv, SetupInv
  <2>5. bd.exists <=> bd # NoBackend
    BY <2>1, WhetherBackend, Zenon DEF WholeInv, DataInv
  <2>6. begun > 0 => begun # 0
    <3>1. begun \in Nat
      BY <2>1, Zenon DEF RenderInv, RenderTypes
    <3> QED
      BY <3>1
  <2>7. begun > 0 => bd.made = Parts
    BY <2>1, <2>6, Zenon DEF WholeInv, DataInv
  <2>8. bd.exists => bd.device # 0 /\ bd.queue # 0 /\ bd.cmdBuf # 0
    BY <2>1, <2>5, Zenon DEF WholeInv, DataInv
  <2>9. menuDrawn => sequence = "menu" /\ bd.exists
    BY <2>1, <2>5, Zenon DEF PictureInv
  <2> QED
    BY <2>2, <2>3, <2>4, <2>7, <2>8, <2>9, Zenon DEF OverlayBegunWhole
<1> QED
  BY <1>1, OverlayInvariance, PTL

----
(* The screen                                                              *)

(* The last even width not above the window's: what rounding comes to.     *)
Even == 2 * (WindowWidth \div 2)

Widths == {WindowWidth, Even}

LEMMA EvenWidth ==
    /\ Even \in Nat /\ WindowWidth \in Nat
    /\ Even \in {WindowWidth - 1, WindowWidth}
    /\ 2 * (Even \div 2) = Even
BY WidthAssumption DEF Even

(* Scaled up by a half and back, a width is rounded down to an even one.   *)
LEMMA ScalingBack ==
    ASSUME NEW w \in Nat
    PROVE  /\ Scaled(w, 2) = w /\ Unscaled(w, 2) = w /\ Unscaled(w, 0) = w
           /\ Unscaled(Scaled(w, 3), 3) = 2 * (w \div 2)
BY DEF Scaled, Unscaled

LEMMA WidthsScale ==
    ASSUME NEW w \in Widths
    PROVE  /\ w \in Nat /\ Scaled(w, 2) = w /\ Unscaled(w, 2) = w /\ Unscaled(w, 0) = w
           /\ Unscaled(Scaled(w, 3), 3) \in Widths
<1>1. w \in Nat /\ (2 * (w \div 2) = Even)
  BY EvenWidth DEF Widths, Even
<1> QED
  BY <1>1, ScalingBack DEF Widths

(* The width as it would be without a scale stays one of the two.          *)
WindowInv ==
    /\ prevScale \in {0, 2, 3}
    /\ prevScale # 3 => window \in Widths
    /\ prevScale = 3 => \E w \in Widths : window = Scaled(w, 3)

LEMMA ScaleKeeps ==
    ASSUME WindowInv, NEW isDocked \in BOOLEAN, updateScale(isDocked) PROVE WindowInv'
<1>1. Unscaled(window, prevScale) \in Widths
  <2>1. CASE prevScale = 3
    BY <2>1, WidthsScale, Zenon DEF WindowInv
  <2>2. CASE prevScale \in {0, 2}
    BY <2>2, WidthsScale DEF WindowInv
  <2> QED
    BY <2>1, <2>2 DEF WindowInv
<1>2. CASE isDocked
  <2>1. window' = Scaled(Unscaled(window, prevScale), 3) /\ prevScale' = 3
    BY <1>2, Zenon DEF updateScale
  <2> QED
    BY <1>1, <2>1 DEF WindowInv
<1>3. CASE ~isDocked
  <2>1. window' = Scaled(Unscaled(window, prevScale), 2) /\ prevScale' = 2
    BY <1>3, Zenon DEF updateScale
  <2> QED
    BY <1>1, <2>1, WidthsScale DEF WindowInv
<1> QED
  BY <1>2, <1>3

Alike(s, r) == s[1] = r[1] \/ s[2] = r[2]

(* What is projected and scaled fits what is laid out, and that the window *)
(* last shown in one dimension at least.                                   *)
ScreenInv ==
    /\ WindowInv
    /\ bd = NoBackend => shown = Unset /\ prevScale = 0
    /\ bd # NoBackend =>
        /\ display \in WindowSizes \cup {DefaultSize}
        /\ shown # Unset => Alike(display, shown)
        /\ \/ bd.proj = Unset /\ display = DefaultSize /\ prevScale = 0
           \/ bd.proj = display /\ display # Unset /\ prevScale = IF display = UndockedSize THEN 2 ELSE 3

LEMMA SizesSet == Unset \notin WindowSizes /\ Unset # DefaultSize
BY WindowSizesAssumption DEF Unset, DefaultSize

LEMMA ScreenInit == OverlayInit => ScreenInv
<1> SUFFICES ASSUME OverlayInit PROVE ScreenInv
  OBVIOUS
<1>1. bd = NoBackend /\ prevScale = 0 /\ window = WindowWidth /\ shown = Unset
  BY Zenon DEF OverlayInit, BackendInit
<1>2. WindowInv
  BY <1>1 DEF WindowInv, Widths
<1> QED
  BY <1>1, <1>2, Zenon DEF ScreenInv

screenVars == <<display, prevScale, window, shown>>

LEMMA ScreenSame ==
    ASSUME ScreenInv, UNCHANGED screenVars,
           bd' # NoBackend <=> bd # NoBackend, bd # NoBackend => bd'.proj = bd.proj
    PROVE  ScreenInv'
<1>1. WindowInv'
  BY Zenon DEF ScreenInv, WindowInv, screenVars
<1>2. UNCHANGED <<display, prevScale, shown>>
  BY Zenon DEF screenVars
<1> QED
  BY <1>1, <1>2, Zenon DEF ScreenInv

LEMMA ScreenBegins ==
    ASSUME ScreenInv, bd = NoBackend, CreateBackend(nvnDevice, nvnQueue, nvnCmdBuf),
           bd' \in Backend, bd'.proj = Unset, shown' = shown
    PROVE  ScreenInv'
<1>1. display' = DefaultSize /\ UNCHANGED <<prevScale, window, shown>>
  BY Zenon DEF CreateBackend
<1>2. WindowInv' /\ shown' = Unset /\ prevScale' = 0
  BY <1>1, Zenon DEF ScreenInv, WindowInv
<1> QED
  BY <1>1, <1>2, BackendIsOne, Zenon DEF ScreenInv

(* A window shown, of another size or not.                                 *)
LEMMA ScreenFollows ==
    ASSUME ScreenInv, bd \in Backend, NEW size \in WindowSizes, ResizeDisplay(size), shown' = size
    PROVE  ScreenInv'
<1>1. size # Unset /\ bd # NoBackend /\ WindowInv
  BY SizesSet, BackendIsOne, Zenon DEF ScreenInv
<1>2. CASE Alike(display, size)
  <2>1. UNCHANGED <<display, bd, window, prevScale>>
    BY <1>2, Zenon DEF Alike, ResizeDisplay
  <2>2. WindowInv'
    BY <1>1, <2>1, Zenon DEF WindowInv
  <2>3. Alike(display', shown')
    BY <1>2, <2>1, Zenon
  <2> QED
    BY <1>1, <2>1, <2>2, <2>3, Zenon DEF ScreenInv, Alike
<1>3. CASE ~Alike(display, size)
  <2>1. /\ display' = size /\ bd' = [bd EXCEPT !.proj = size]
        /\ updateScale(size # UndockedSize)
    BY <1>3, Zenon DEF Alike, ResizeDisplay, updateProjection
  <2>2. bd' \in Backend /\ bd'.proj = size
    <3>1. size \in Sizes
      BY Zenon DEF Sizes
    <3> QED
      BY <2>1, <3>1, Zenon DEF Backend
  <2>3. WindowInv'
    <3>1. PICK isDocked \in BOOLEAN : isDocked <=> size # UndockedSize
      BY Zenon
    <3>2. updateScale(isDocked)
      BY <2>1, <3>1, Zenon DEF updateScale
    <3> QED
      BY <1>1, <3>2, ScaleKeeps
  <2>4. prevScale' = IF size = UndockedSize THEN 2 ELSE 3
    BY <2>1, Zenon DEF updateScale
  <2>5. Alike(display', shown')
    BY <2>1, Zenon DEF Alike
  <2> QED
    BY <1>1, <2>1, <2>2, <2>3, <2>4, <2>5, BackendIsOne, Zenon DEF ScreenInv, Alike
<1> QED
  BY <1>2, <1>3

LEMMA ResizeLeavesProjection ==
    ASSUME RenderInv, WholeInv, drawing.step # "none", NEW kind \in BufferKinds, Resize(kind)
    PROVE  bd' # NoBackend /\ bd'.proj = bd.proj
<1>1. bd \in Backend /\ buffers \in Seq(Buffer)
  BY ResizeBegins
<1>2. Len(buffers) + 1 \in Nat
  BY <1>1
<1>3. bd' = bd \/ bd' = [bd EXCEPT ![kind] = Len(buffers) + 1]
  BY Zenon DEF Resize
<1>4. CASE bd' = bd
  BY <1>1, <1>4, BackendIsOne, Zenon
<1>5. CASE bd' = [bd EXCEPT ![kind] = Len(buffers) + 1]
  <2>1. BufferDataIs(bd, bd', kind, Len(buffers) + 1)
    BY <1>1, <1>2, <1>5, BufferData, Zenon
  <2> QED
    BY <2>1, BackendIsOne, Zenon DEF BufferDataIs
<1> QED
  BY <1>3, <1>4, <1>5

LEMMA PresentingScreen ==
    ASSUME ScreenInv, RenderInv, WholeInv, Presenting PROVE ScreenInv'
<1>1. CASE UNCHANGED backendVars
  <2>1. UNCHANGED screenVars
    BY <1>1, Zenon DEF Presenting, backendVars, screenVars, BeginFrame, PadRead, KeysRead, AddEvents,
       drawDbgGui, Present, renderDrawData, frameVars
  <2> QED
    BY <1>1, <2>1, ScreenSame, Zenon DEF backendVars
<1>2. CASE renderDrawData
  BY <1>2, ScreenSame, Zenon DEF renderDrawData, BeginRender, NothingToRender, screenVars
<1>3. CASE RenderStep /\ UNCHANGED <<inputVars, frameVars>>
  <2>1. UNCHANGED screenVars
    BY <1>3, Zenon DEF RenderStep, screenVars, frameVars
  <2>2. CASE ResizeVertices
    <3>1. drawing.step # "none" /\ Resize("vtx")
      BY <2>2, StepNames, Zenon DEF ResizeVertices, StepTo
    <3>2. bd' # NoBackend /\ bd'.proj = bd.proj /\ bd # NoBackend
      BY <3>1, ResizeLeavesProjection, ResizeBegins, KindsOfBuffers, BackendIsOne, Zenon
    <3> QED
      BY <2>1, <3>2, ScreenSame, Zenon
  <2>3. CASE ResizeIndices
    <3>1. drawing.step # "none" /\ Resize("idx")
      BY <2>3, StepNames, Zenon DEF ResizeIndices, StepTo
    <3>2. bd' # NoBackend /\ bd'.proj = bd.proj /\ bd # NoBackend
      BY <3>1, ResizeLeavesProjection, ResizeBegins, KindsOfBuffers, BackendIsOne, Zenon
    <3> QED
      BY <2>1, <3>2, ScreenSame, Zenon
  <2>4. CASE CopyLists \/ GiveUp \/ SubmitCommands
    BY <2>1, <2>4, ScreenSame, Zenon DEF CopyLists, GiveUp, SubmitCommands
  <2> QED
    BY <1>3, <2>2, <2>3, <2>4, Zenon DEF RenderStep
<1>4. CASE FinishFrame /\ UNCHANGED <<inputVars, frameVars>>
  BY <1>4, ScreenSame, Zenon DEF FinishFrame, screenVars, frameVars
<1> QED
  BY <1>1, <1>2, <1>3, <1>4, Zenon DEF Presenting

LEMMA MakingsScreen ==
    ASSUME ScreenInv, WholeInv, Makings PROVE ScreenInv'
<1>1. shown' = shown
  BY Zenon DEF Makings, frameVars
<1>2. CASE UNCHANGED backendVars
  BY <1>1, <1>2, ScreenSame, Zenon DEF backendVars, screenVars
<1>3. ASSUME NEW t \in Makers, InitBackend(t), ~UNCHANGED backendVars PROVE ScreenInv'
  <2>1. CreateBackend(nvnDevice, nvnQueue, nvnCmdBuf)
    BY <1>3, Zenon DEF InitBackend
  <2>2. bd = NoBackend
    BY <2>1, WhetherBackend, Zenon DEF WholeInv, DataInv, CreateBackend
  <2>3. bd' \in Backend /\ bd'.proj = Unset
    BY <2>1, NewData, Zenon DEF CreateBackend, WholeInv, SetupInv
  <2> QED
    BY <1>1, <2>1, <2>2, <2>3, ScreenBegins
<1>4. ASSUME NEW t \in Makers, SetupImGui(t) PROVE ScreenInv'
  <2>1. UNCHANGED screenVars
    BY <1>1, <1>4, Zenon DEF SetupImGui, SetupBackend, screenVars
  <2>2. maker[t] = "setup" /\ "setup" \in Setting
    BY <1>4, Zenon DEF SetupImGui, MakerTo, Setting
  <2>3. bd # NoBackend /\ bd \in Backend
    BY <2>2, Zenon DEF WholeInv, SetupInv, DataInv
  <2>4. bd' = bd \/ \E n \in 0 .. Len(Parts) : SetupParts(n)
    BY <1>4, Zenon DEF SetupImGui, SetupBackend
  <2>5. ASSUME NEW n \in 0 .. Len(Parts), SetupParts(n) PROVE bd' # NoBackend /\ bd'.proj = bd.proj
    <3>1. bd' = [bd EXCEPT !.made = MadeUpTo(n), !.isInitialized = n = Len(Parts)]
      BY <2>5, Zenon DEF SetupParts
    <3>2. bd'.proj = bd.proj /\ bd'.exists = bd.exists
      BY <2>3, <3>1, Zenon DEF Backend
    <3> QED
      BY <2>3, <3>2, WhetherBackend, Zenon
  <2> QED
    BY <2>1, <2>3, <2>4, <2>5, ScreenSame, Zenon
<1>5. UNCHANGED backendVars \/ \E t \in Makers : InitBackend(t) \/ SetupImGui(t)
  BY Zenon DEF Makings, CheckInitImGui, InitImGui, CreateContext, AssertNotInitialized, StoreInitImGui
<1> QED
  BY <1>2, <1>3, <1>4, <1>5, Zenon

LEMMA ScreenSteps == ScreenInv /\ OverlayInv /\ [Next]_bootStateVars => ScreenInv'
<1> SUFFICES ASSUME ScreenInv, OverlayInv, [Next]_bootStateVars PROVE ScreenInv'
  OBVIOUS
<1>1. WholeInv /\ RenderInv
  BY Zenon DEF OverlayInv
<1>2. CASE UNCHANGED overlayVars
  BY <1>2, ScreenSame, Zenon DEF overlayVars, backendVars, frameVars, screenVars
<1>3. CASE Lookups
  BY <1>3, ScreenSame, Zenon DEF Lookups, backendVars, frameVars, screenVars
<1>4. CASE WindowCalls
  <2>1. PICK size \in WindowSizes : setCrop(size)
    BY <1>4, Zenon DEF WindowCalls
  <2>2. CASE hasInitImGui
    <3>1. ResizeDisplay(size) /\ shown' = size
      BY <2>1, <2>2, Zenon DEF setCrop
    <3>2. bd \in Backend
      BY <1>1, <2>2, <3>1, CropData
    <3> QED
      BY <3>1, <3>2, ScreenFollows
  <2>3. CASE ~hasInitImGui
    BY <2>1, <2>3, ScreenSame, Zenon DEF setCrop, backendVars, screenVars
  <2> QED
    BY <2>2, <2>3
<1>5. CASE InputCalls
  BY <1>5, ScreenSame, Zenon DEF InputCalls, HakoniwaSequenceInit, backendVars, frameVars, screenVars
<1> QED
  BY <1>1, <1>2, <1>3, <1>4, <1>5, MakingsScreen, PresentingScreen, StepOfOverlay, Zenon DEF OverlayStep

LEMMA ScreenInvFollows == ScreenInv /\ OverlayInv => ScreenFollowsWindow
<1> SUFFICES ASSUME ScreenInv, OverlayInv, bd.exists
             PROVE  /\ shown # Unset => display[1] = shown[1] \/ display[2] = shown[2]
                    /\ bd.proj = display \/ (bd.proj = Unset /\ display = DefaultSize)
                    /\ prevScale = (IF bd.proj = Unset THEN 0 ELSE IF display = UndockedSize THEN 2 ELSE 3)
                    /\ prevScale # 3 => window \in {WindowWidth - 1, WindowWidth}
                    /\ prevScale = 3 => window \in {Scaled(WindowWidth - 1, 3), Scaled(WindowWidth, 3)}
  BY Zenon DEF ScreenFollowsWindow
<1>1. bd # NoBackend
  BY WhetherBackend, Zenon
<1>2. shown # Unset => display[1] = shown[1] \/ display[2] = shown[2]
  BY <1>1, Zenon DEF ScreenInv, Alike
<1>3. /\ bd.proj = display \/ (bd.proj = Unset /\ display = DefaultSize)
      /\ prevScale = (IF bd.proj = Unset THEN 0 ELSE IF display = UndockedSize THEN 2 ELSE 3)
  <2>1. \/ bd.proj = Unset /\ display = DefaultSize /\ prevScale = 0
        \/ bd.proj = display /\ display # Unset
           /\ prevScale = IF display = UndockedSize THEN 2 ELSE 3
    BY <1>1, Zenon DEF ScreenInv
  <2> QED
    BY <2>1, Zenon
<1>4. \A w \in Widths : w = WindowWidth - 1 \/ w = WindowWidth
  BY EvenWidth DEF Widths
<1>5. WindowInv
  BY Zenon DEF ScreenInv
<1> QED
  BY <1>2, <1>3, <1>4, <1>5, Zenon DEF WindowInv

(***************************************************************************)
(* Whatever windows are shown, the overlay is laid out for the last one or *)
(* for one of its width or height, projected and scaled for that, and its  *)
(* own windows lose a pixel at most, for any width.                        *)
(***************************************************************************)
THEOREM ScreenFollowsTheWindow == Spec => []ScreenFollowsWindow
<1>1. BootInit => ScreenInv
  BY ScreenInit, Zenon DEF BootInit
<1>2. Spec => []ScreenInv
  BY <1>1, ScreenSteps, OverlayInvariance, PTL DEF Spec
<1> QED
  BY <1>2, OverlayInvariance, ScreenInvFollows, PTL

----
(***************************************************************************)
(* The run-time loader                                                     *)
(***************************************************************************)

(* The modules in the list that give a symbol of this name to others.      *)
Gives(m, name) ==
    /\ GetSymbolByName(m, name) # 0
    /\ image[m].syms[GetSymbolByName(m, name)].bind # "local"

Givers(name) == {k \in DOMAIN loadList : Gives(loadList[k], name)}

(* Where a slot's symbol leads; once one was found it stays so.            *)
Reaches(s, m, t) ==
    IF s.hidden
    THEN \E i \in DOMAIN image[m].syms :
            /\ image[m].syms[i].name = s.name
            /\ t = SymbolAddress(m, i)
    ELSE \/ lookup_global_auto(s.name) # 0 /\ t = lookup_global_auto(s.name)
         \/ s.name \in Manual /\ t = ManualAddress

SlotSymbol(m, slot) == image[m].syms[image[m].plt[slot].sym]
AddendOf(m, slot) == image[m].plt[slot].addend

(* What a slot that is not the stub any more holds, and where a call went. *)
Bound(m, slot, w) ==
    \/ w \in {Never, 0, AddendOf(m, slot)}
    \/ \E t \in Nat : Reaches(SlotSymbol(m, slot), m, t) /\ w = t + AddendOf(m, slot)

LoadStages == {"file", "initialized", "relocated", "resolved", "started"}

LoadTypes ==
    /\ image \in [LoadModules -> Images]
    /\ loadList \in Seq(LoadModules)
    /\ stage \in [LoadModules -> LoadStages]
    /\ DOMAIN words = LoadModules
    /\ DOMAIN called = LoadModules

WordsOf(m) ==
    /\ DOMAIN words[m] = 1 .. Len(image[m].dyn) + Len(image[m].plt)
    /\ DOMAIN called[m] = Slots(m)

(* Before it is relocated a module is as in its file, and its slots are    *)
(* until they are bound.                                                   *)
AsInFile(m) ==
    /\ stage[m] \in {"file", "initialized"} => words[m] = InFile(image[m])
    /\ stage[m] = "relocated" =>
          \A slot \in Slots(m) : words[m][Word(m, slot)] = image[m].stub

SlotBound(m, slot) ==
    /\ Bound(m, slot, called[m][slot])
    /\ stage[m] = "resolved" =>
          \/ words[m][Word(m, slot)] = StubOf(m)
          \/ Bound(m, slot, words[m][Word(m, slot)])

SlotsBound(m) == image[m].rela => \A slot \in Slots(m) : SlotBound(m, slot)

RelocatedOnce(m) ==
    \A i \in Entries(m) :
        LET counted == i <= image[m].count
            based == Base(m) + (IF image[m].rela THEN image[m].dyn[i].addend ELSE image[m].dyn[i].word)
        IN  /\ image[m].dyn[i].type = "relative" /\ stage[m] \in {"relocated", "resolved"} =>
                    words[m][i] = IF counted THEN based ELSE image[m].dyn[i].word
            /\ image[m].dyn[i].type = "relative" /\ stage[m] = "started" =>
                    words[m][i] = IF counted \/ image[m].count = 0 THEN based ELSE image[m].dyn[i].word

ModuleInv(m) == WordsOf(m) /\ AsInFile(m) /\ SlotsBound(m) /\ RelocatedOnce(m)

LoadInv == LoadTypes /\ \A m \in LoadModules : ModuleInv(m)

(* Without modules there is nothing to bind.                               *)
RtldInv == IF focus = "loading" THEN LoadInv ELSE image = <<>>

LEMMA ElementOf ==
    ASSUME NEW S, NEW s \in Seq(S), NEW i \in DOMAIN s
    PROVE  s[i] \in S
OBVIOUS

LEMMA BehindEntries ==
    ASSUME NEW d \in Nat, NEW p \in Nat, NEW slot \in 1 .. p
    PROVE  d + slot \in 1 .. d + p /\ d + slot \notin 1 .. d
OBVIOUS

(* What a file's assumption says of a module's image.                      *)
LEMMA ImageFacts ==
    ASSUME image \in [LoadModules -> Images], NEW m \in LoadModules
    PROVE  /\ image[m] \in Images
           /\ image[m].rela \in BOOLEAN
           /\ image[m].stub \in Nat
           /\ image[m].dyn \in Seq([type : STRING, sym : Nat, word : Int, addend : Int])
           /\ image[m].plt \in Seq([sym : Nat, addend : Nat])
           /\ image[m].syms \in Seq([name : STRING, defined : BOOLEAN, bind : STRING,
                                     hidden : BOOLEAN, value : Nat])
           /\ image[m].count \in 0 .. Len(image[m].dyn)
           /\ Base(m) \in Nat \ {0}
<1>1. image[m] \in Images
  BY Zenon
<1>2. m \in Nat \ {0}
  BY ModulesAssumption, Zenon DEF ModulesAssumption
<1>3. Base(m) \in Nat \ {0}
  BY <1>2 DEF Base
<1> QED
  BY <1>1, <1>3, ImagesAssumption, Zenon DEF ImagesAssumption

LEMMA SlotFacts ==
    ASSUME image \in [LoadModules -> Images], NEW m \in LoadModules, NEW slot \in Slots(m)
    PROVE  /\ AddendOf(m, slot) \in Nat
           /\ image[m].plt[slot].sym \in DOMAIN image[m].syms
           /\ slot \in 1 .. Len(image[m].plt)
           /\ Word(m, slot) = Len(image[m].dyn) + slot
           /\ Word(m, slot) \in 1 .. Len(image[m].dyn) + Len(image[m].plt)
           /\ Word(m, slot) \notin Entries(m)
           /\ Entries(m) = 1 .. Len(image[m].dyn)
           /\ Slots(m) = 1 .. Len(image[m].plt)
           /\ StubOf(m) \in Nat
<1>1. /\ image[m] \in Images
      /\ image[m].stub \in Nat
      /\ image[m].dyn \in Seq([type : STRING, sym : Nat, word : Int, addend : Int])
      /\ image[m].plt \in Seq([sym : Nat, addend : Nat])
      /\ Base(m) \in Nat \ {0}
  BY ImageFacts, Zenon
<1>2. image[m].plt[slot].sym \in DOMAIN image[m].syms
  BY <1>1, ImagesAssumption, Zenon DEF ImagesAssumption, Slots
<1>3. Slots(m) = 1 .. Len(image[m].plt) /\ Entries(m) = 1 .. Len(image[m].dyn)
  BY <1>1 DEF Slots, Entries
<1>4. image[m].plt[slot] \in [sym : Nat, addend : Nat]
  BY <1>1, ElementOf, Zenon DEF Slots
<1>5. AddendOf(m, slot) \in Nat
  BY <1>4 DEF AddendOf
<1>6. Len(image[m].dyn) \in Nat /\ Len(image[m].plt) \in Nat
  BY <1>1
<1>7. slot \in 1 .. Len(image[m].plt)
  BY <1>3
<1>8. /\ Word(m, slot) = Len(image[m].dyn) + slot
      /\ Word(m, slot) \in 1 .. Len(image[m].dyn) + Len(image[m].plt)
      /\ Word(m, slot) \notin 1 .. Len(image[m].dyn)
  BY <1>6, <1>7, BehindEntries, Zenon DEF Word
<1>9. StubOf(m) \in Nat
  BY <1>1 DEF StubOf
<1> QED
  BY <1>2, <1>3, <1>5, <1>7, <1>8, <1>9

LEMMA AmongWords ==
    ASSUME NEW d \in Nat, NEW p \in Nat, NEW i \in 1 .. d
    PROVE  i \in 1 .. d + p /\ i <= d
OBVIOUS

LEMMA EntryFacts ==
    ASSUME image \in [LoadModules -> Images], NEW m \in LoadModules, NEW i \in Entries(m)
    PROVE  /\ i \in 1 .. Len(image[m].dyn) + Len(image[m].plt)
           /\ i \in 1 .. Len(image[m].dyn)
           /\ i <= Len(image[m].dyn)
<1>1. /\ image[m].dyn \in Seq([type : STRING, sym : Nat, word : Int, addend : Int])
      /\ image[m].plt \in Seq([sym : Nat, addend : Nat])
  BY ImageFacts, Zenon
<1>2. Len(image[m].dyn) \in Nat /\ Len(image[m].plt) \in Nat
  BY <1>1
<1>3. i \in 1 .. Len(image[m].dyn)
  BY <1>1, SMTT(60) DEF Entries
<1> QED
  BY <1>2, <1>3, AmongWords, Zenon

LEMMA LeastOne ==
    ASSUME NEW T \in SUBSET Nat, T # {}
    PROVE  \E n \in T : \A m \in T : n <= m
<1>1. PICK x \in T : \A y \in T : ~(<<y, x>> \in OpToRel(<, Nat))
  BY WFMin, NatLessThanWellFounded, Zenon
<1>2. \A y \in T : ~(y < x)
  BY <1>1 DEF OpToRel
<1> QED
  BY <1>2

LEMMA FirstIsLeast ==
    ASSUME NEW T \in SUBSET Nat, T # {}
    PROVE  First(T) \in T /\ \A n \in T : First(T) <= n
<1>1. \E n \in T : \A m \in T : n <= m
  BY LeastOne
<1> QED
  BY <1>1, Zenon DEF First

LEMMA FirstIs ==
    ASSUME NEW T \in SUBSET Nat, NEW n \in T, \A m \in T : n <= m
    PROVE  First(T) = n
<1>1. First(T) \in T /\ \A m \in T : First(T) <= m
  BY FirstIsLeast, Zenon
<1>2. First(T) <= n /\ n <= First(T)
  BY <1>1
<1>3. First(T) \in Nat /\ n \in Nat
  BY <1>1
<1> QED
  BY <1>2, <1>3

(* What the search of a module's table finds has the name and is defined.  *)
LEMMA SymbolFound ==
    ASSUME image \in [LoadModules -> Images], NEW m \in LoadModules, NEW name,
           GetSymbolByName(m, name) # 0
    PROVE  /\ GetSymbolByName(m, name) \in DOMAIN image[m].syms
           /\ image[m].syms[GetSymbolByName(m, name)].name = name
           /\ image[m].syms[GetSymbolByName(m, name)].defined
           /\ SymbolAddress(m, GetSymbolByName(m, name)) \in Nat \ {0}
<1> DEFINE named == {i \in DOMAIN image[m].syms :
                        image[m].syms[i].name = name /\ image[m].syms[i].defined}
<1>1. named # {} /\ GetSymbolByName(m, name) = First(named)
  BY Zenon DEF GetSymbolByName
<1>2. image[m].syms \in Seq([name : STRING, defined : BOOLEAN, bind : STRING,
                             hidden : BOOLEAN, value : Nat])
  BY ImageFacts, Zenon
<1>3. DOMAIN image[m].syms = 1 .. Len(image[m].syms) /\ Len(image[m].syms) \in Nat
  BY <1>2
<1>4. named \in SUBSET Nat
  BY <1>3
<1> HIDE DEF named
<1>5. First(named) \in named
  BY <1>1, <1>4, FirstIsLeast, Zenon
<1> USE DEF named
<1>6. PICK i \in DOMAIN image[m].syms : i = First(named) /\ image[m].syms[i].name = name /\ image[m].syms[i].defined
  BY <1>5, Zenon
<1>7. image[m].syms[i] \in [name : STRING, defined : BOOLEAN, bind : STRING,
                            hidden : BOOLEAN, value : Nat]
  BY <1>2, <1>6, ElementOf, Zenon
<1>8. image[m].syms[i].value \in Nat
  BY <1>7
<1>9. Base(m) \in Nat \ {0}
  BY ImageFacts, Zenon
<1>10. SymbolAddress(m, i) \in Nat \ {0}
  BY <1>8, <1>9 DEF SymbolAddress
<1> QED
  BY <1>1, <1>6, <1>10, Zenon

(* The search of the list of modules takes the first that gives the name.  *)
LEMMA LookupTakesFirst ==
    ASSUME NEW name
    PROVE  lookup_global_auto(name) =
               IF Givers(name) = {} THEN 0
               ELSE SymbolAddress(loadList[First(Givers(name))],
                                  GetSymbolByName(loadList[First(Givers(name))], name))
BY Zenon DEF lookup_global_auto, Givers, Gives

LEMMA GiversAreNumbers ==
    ASSUME loadList \in Seq(LoadModules), NEW name
    PROVE  /\ Givers(name) \in SUBSET Nat
           /\ \A k \in Givers(name) : k \in 1 .. Len(loadList) /\ loadList[k] \in LoadModules
<1>1. DOMAIN loadList = 1 .. Len(loadList) /\ Len(loadList) \in Nat
  OBVIOUS
<1>2. \A k \in Givers(name) : k \in DOMAIN loadList
  BY Zenon DEF Givers
<1>3. \A k \in DOMAIN loadList : loadList[k] \in LoadModules
  BY ElementOf, Zenon
<1> QED
  BY <1>1, <1>2, <1>3

LEMMA LookupFinds ==
    ASSUME LoadTypes, NEW name, lookup_global_auto(name) # 0
    PROVE  /\ Givers(name) # {}
           /\ lookup_global_auto(name) \in Nat \ {0}
           /\ lookup_global_auto(name) \in UNION {Exports(m, name) : m \in DOMAIN image}
           /\ name \notin Manual
<1>1. Givers(name) # {}
  BY LookupTakesFirst, Zenon
<1>2. Givers(name) \in SUBSET Nat /\ \A k \in Givers(name) : loadList[k] \in LoadModules
  BY GiversAreNumbers, Zenon DEF LoadTypes
<1>3. PICK k \in Givers(name) : k = First(Givers(name))
  BY <1>1, <1>2, FirstIsLeast, Zenon
<1>4. PICK m \in LoadModules : m = loadList[k]
  BY <1>2, <1>3, Zenon
<1>5. Gives(m, name)
  BY <1>3, <1>4, Zenon DEF Givers
<1>6. lookup_global_auto(name) = SymbolAddress(m, GetSymbolByName(m, name))
  BY <1>1, <1>3, <1>4, LookupTakesFirst, Zenon
<1>7. image \in [LoadModules -> Images] /\ m \in DOMAIN image
  BY <1>4, Zenon DEF LoadTypes
<1>8. /\ GetSymbolByName(m, name) # 0
      /\ image[m].syms[GetSymbolByName(m, name)].bind # "local"
  BY <1>5, Zenon DEF Gives
<1>9. PICK i \in DOMAIN image[m].syms :
          /\ i = GetSymbolByName(m, name)
          /\ image[m].syms[i].name = name
          /\ image[m].syms[i].defined
          /\ SymbolAddress(m, i) \in Nat \ {0}
  BY <1>7, <1>8, SymbolFound, Zenon
<1>10. SymbolAddress(m, i) \in Exports(m, name)
  BY <1>8, <1>9, Zenon DEF Exports
<1>11. image[m] \in Images
  BY <1>7, ImageFacts, Zenon
<1>12. name \notin Manual
  BY <1>9, <1>11, ImagesAssumption, Zenon DEF ImagesAssumption
<1> QED
  BY <1>1, <1>6, <1>7, <1>9, <1>10, <1>12, Zenon

(* Modules that join the list later do not change what a name means.       *)
LEMMA LookupLasts ==
    ASSUME LoadTypes, image' = image, NEW m \in LoadModules,
           loadList' = Append(loadList, m), NEW name, lookup_global_auto(name) # 0
    PROVE  lookup_global_auto(name)' = lookup_global_auto(name)
<1> DEFINE G == Givers(name)
           H == Givers(name)'
<1>0. loadList \in Seq(LoadModules) /\ loadList' \in Seq(LoadModules)
  BY Zenon, AppendProperties DEF LoadTypes
<1>1. G # {}
  BY LookupFinds, Zenon
<1>2. G \in SUBSET Nat /\ \A k \in G : k \in 1 .. Len(loadList)
  BY <1>0, GiversAreNumbers, Zenon
<1>3. /\ Len(loadList') = Len(loadList) + 1
      /\ Len(loadList) \in Nat
      /\ \A k \in 1 .. Len(loadList) : loadList'[k] = loadList[k]
      /\ DOMAIN loadList' = 1 .. Len(loadList) + 1
      /\ DOMAIN loadList = 1 .. Len(loadList)
  BY <1>0
<1>4. H = {k \in DOMAIN loadList' : Gives(loadList'[k], name)}
  BY Zenon DEF Givers, Gives, GetSymbolByName
<1>5. \A k \in 1 .. Len(loadList) : k \in G <=> k \in H
  <2> SUFFICES ASSUME NEW k \in 1 .. Len(loadList)
               PROVE  k \in G <=> k \in H
    OBVIOUS
  <2>1. k \in DOMAIN loadList' /\ k \in DOMAIN loadList /\ loadList'[k] = loadList[k]
    BY <1>3
  <2> QED
    BY <1>4, <2>1, Zenon DEF Givers
<1>6. \A k \in H : k \in 1 .. Len(loadList) + 1
  BY <1>3, <1>4, Zenon
<1> HIDE DEF G, H
<1>7. PICK k \in G : k = First(G) /\ \A j \in G : k <= j
  BY <1>1, <1>2, FirstIsLeast, Zenon
<1>8. k \in H /\ H \in SUBSET Nat
  BY <1>2, <1>3, <1>5, <1>6
<1>9. \A j \in H : k <= j
  BY <1>2, <1>3, <1>5, <1>6, <1>7
<1>10. First(H) = k
  BY <1>8, <1>9, FirstIs, Zenon
<1>11. k \in 1 .. Len(loadList) /\ loadList'[k] = loadList[k]
  BY <1>2, <1>3
<1>12. H # {}
  BY <1>8
<1>13. lookup_global_auto(name) = SymbolAddress(loadList[k], GetSymbolByName(loadList[k], name))
  BY <1>1, <1>7, LookupTakesFirst, Zenon DEF G
<1>14. lookup_global_auto(name)' = SymbolAddress(loadList'[k], GetSymbolByName(loadList'[k], name))
  <2> DEFINE Value(m1) == SymbolAddress(m1, GetSymbolByName(m1, name))
  <2>1. lookup_global_auto(name)' = IF H = {} THEN 0 ELSE Value(loadList'[First(H)])
    <3>1. (lookup_global_auto(name) =
             IF Givers(name) = {} THEN 0
             ELSE SymbolAddress(loadList[First(Givers(name))],
                                GetSymbolByName(loadList[First(Givers(name))], name)))'
      BY LookupTakesFirst, PTL
    <3> QED
      BY <3>1, Zenon DEF H, SymbolAddress, GetSymbolByName
  <2> QED
    BY <1>10, <1>12, <2>1, Zenon
<1> QED
  BY <1>11, <1>13, <1>14, Zenon

(***************************************************************************)
(* What resolving a symbol finds is what the slot is to reach.             *)
(***************************************************************************)
LEMMA ResolvedReaches ==
    ASSUME LoadTypes, NEW m \in LoadModules, NEW sym \in DOMAIN image[m].syms
    PROVE  \/ TryResolveSymbol(m, sym) \in {0, Unresolved}
           \/ /\ TryResolveSymbol(m, sym) \in Nat \ {0}
              /\ Reaches(image[m].syms[sym], m, TryResolveSymbol(m, sym))
<1> DEFINE s == image[m].syms[sym]
<1>0. image \in [LoadModules -> Images]
  BY Zenon DEF LoadTypes
<1>1. s.hidden \in BOOLEAN
  <2>1. image[m].syms \in Seq([name : STRING, defined : BOOLEAN, bind : STRING,
                               hidden : BOOLEAN, value : Nat])
    BY <1>0, ImageFacts, Zenon
  <2>2. s \in [name : STRING, defined : BOOLEAN, bind : STRING, hidden : BOOLEAN, value : Nat]
    BY <2>1, ElementOf, Zenon
  <2> QED
    BY <2>2, Zenon
<1>2. CASE s.hidden /\ GetSymbolByName(m, s.name) # 0
  <2>1. TryResolveSymbol(m, sym) = SymbolAddress(m, GetSymbolByName(m, s.name))
    BY <1>2, Zenon DEF TryResolveSymbol
  <2>2. PICK i \in DOMAIN image[m].syms :
            /\ i = GetSymbolByName(m, s.name)
            /\ image[m].syms[i].name = s.name
            /\ SymbolAddress(m, i) \in Nat \ {0}
    BY <1>0, <1>2, SymbolFound, Zenon
  <2> QED
    BY <1>2, <2>1, <2>2, Zenon DEF Reaches
<1>3. CASE s.hidden /\ GetSymbolByName(m, s.name) = 0
  BY <1>3, Zenon DEF TryResolveSymbol
<1>4. CASE ~s.hidden /\ lookup_global_auto(s.name) # 0
  <2>1. TryResolveSymbol(m, sym) = lookup_global_auto(s.name)
    BY <1>4, Zenon DEF TryResolveSymbol
  <2>2. lookup_global_auto(s.name) \in Nat \ {0}
    BY <1>4, LookupFinds, Zenon
  <2> QED
    BY <1>4, <2>1, <2>2, Zenon DEF Reaches
<1>5. CASE ~s.hidden /\ lookup_global_auto(s.name) = 0
  <2>1. TryResolveSymbol(m, sym) = IF s.name \in Manual THEN ManualAddress ELSE Unresolved
    BY <1>5, Zenon DEF TryResolveSymbol
  <2>2. ManualAddress \in Nat \ {0}
    BY DEF ManualAddress
  <2> QED
    BY <1>5, <2>1, <2>2, Zenon DEF Reaches
<1> QED
  BY <1>1, <1>2, <1>3, <1>4, <1>5, Zenon

LoadListGrows == loadList' = loadList \/ \E m \in LoadModules : loadList' = Append(loadList, m)

LEMMA LookupSame ==
    ASSUME image' = image, loadList' = loadList, NEW name
    PROVE  lookup_global_auto(name)' = lookup_global_auto(name)
<1>1. (lookup_global_auto(name) =
         IF Givers(name) = {} THEN 0
         ELSE SymbolAddress(loadList[First(Givers(name))],
                            GetSymbolByName(loadList[First(Givers(name))], name)))'
  BY LookupTakesFirst, PTL
<1>2. Givers(name)' = Givers(name)
  BY Zenon DEF Givers, Gives, GetSymbolByName
<1> QED
  BY <1>1, <1>2, LookupTakesFirst, Zenon DEF SymbolAddress, GetSymbolByName

LEMMA ReachesLasts ==
    ASSUME LoadTypes, image' = image, LoadListGrows, NEW s, NEW m, NEW t, Reaches(s, m, t)
    PROVE  Reaches(s, m, t)'
<1>1. lookup_global_auto(s.name) # 0 => lookup_global_auto(s.name)' = lookup_global_auto(s.name)
  <2>1. ASSUME loadList' = loadList
        PROVE  lookup_global_auto(s.name)' = lookup_global_auto(s.name)
    BY <2>1, LookupSame, Zenon
  <2>2. ASSUME lookup_global_auto(s.name) # 0,
               NEW n \in LoadModules, loadList' = Append(loadList, n)
        PROVE  lookup_global_auto(s.name)' = lookup_global_auto(s.name)
    BY <2>2, LookupLasts, Zenon
  <2> QED
    BY <2>1, <2>2, Zenon DEF LoadListGrows
<1> QED
  BY <1>1, Zenon DEF Reaches, SymbolAddress

LEMMA BoundLasts ==
    ASSUME LoadTypes, image' = image, LoadListGrows,
           NEW m \in LoadModules, NEW slot, NEW w, Bound(m, slot, w)
    PROVE  Bound(m, slot, w)'
<1>1. AddendOf(m, slot)' = AddendOf(m, slot) /\ SlotSymbol(m, slot)' = SlotSymbol(m, slot)
  BY Zenon DEF AddendOf, SlotSymbol
<1>2. CASE w \in {Never, 0, AddendOf(m, slot)}
  BY <1>1, <1>2, Zenon DEF Bound
<1>3. ASSUME NEW t \in Nat, Reaches(SlotSymbol(m, slot), m, t), w = t + AddendOf(m, slot)
      PROVE  Bound(m, slot, w)'
  <2>1. PICK s : s = SlotSymbol(m, slot)
    OBVIOUS
  <2>2. Reaches(s, m, t)'
    BY <1>3, <2>1, ReachesLasts, Zenon
  <2>3. s = SlotSymbol(m, slot)'
    BY <1>1, <2>1, Zenon
  <2>4. Reaches(SlotSymbol(m, slot), m, t)'
    BY <2>2, <2>3, Zenon DEF Reaches
  <2> QED
    BY <1>1, <1>3, <2>4, Zenon DEF Bound
<1> QED
  BY <1>2, <1>3, Zenon DEF Bound

(* A module is not disturbed by what happens to others.                    *)
LEMMA OthersKept ==
    ASSUME LoadTypes, image' = image, LoadListGrows, NEW m \in LoadModules, ModuleInv(m),
           stage'[m] = stage[m], words'[m] = words[m], called'[m] = called[m]
    PROVE  ModuleInv(m)'
<1>1. WordsOf(m)' /\ AsInFile(m)' /\ RelocatedOnce(m)'
  BY Zenon DEF ModuleInv, WordsOf, AsInFile, RelocatedOnce, Slots, Entries, Word, InFile
<1>2. SlotsBound(m)'
  <2> SUFFICES ASSUME image[m].rela, NEW slot \in Slots(m)
               PROVE  SlotBound(m, slot)'
    BY Zenon DEF SlotsBound, Slots
  <2>1. SlotBound(m, slot)
    BY Zenon DEF ModuleInv, SlotsBound
  <2>2. PICK c, w : c = called[m][slot] /\ w = words[m][Word(m, slot)]
    OBVIOUS
  <2>3. c = called'[m][slot] /\ w = words'[m][Word(m, slot)'] /\ StubOf(m)' = StubOf(m)
    BY <2>2, Zenon DEF Word, StubOf
  <2>4. Bound(m, slot, c)'
    BY <2>1, <2>2, BoundLasts, Zenon DEF SlotBound
  <2>5. stage[m] = "resolved" /\ w # StubOf(m) => Bound(m, slot, w)'
    BY <2>1, <2>2, BoundLasts, Zenon DEF SlotBound
  <2> QED
    BY <2>3, <2>4, <2>5, Zenon DEF SlotBound, Bound
<1> QED
  BY <1>1, <1>2, Zenon DEF ModuleInv

LEMMA OneModuleChanges ==
    ASSUME LoadInv, image' = image, LoadListGrows, LoadTypes', NEW m \in LoadModules,
           ModuleInv(m)',
           \A n \in LoadModules \ {m} :
              stage'[n] = stage[n] /\ words'[n] = words[n] /\ called'[n] = called[n]
    PROVE  LoadInv'
<1>1. ASSUME NEW n \in LoadModules, n # m
      PROVE  ModuleInv(n)'
  BY <1>1, OthersKept, Zenon DEF LoadInv
<1>2. ASSUME NEW n \in LoadModules
      PROVE  ModuleInv(n)'
  <2>1. CASE n # m
    BY <1>1, <2>1, Zenon
  <2>2. CASE n = m
    BY <2>2
  <2> QED
    BY <2>1, <2>2, Zenon
<1> QED
  BY <1>2, Zenon DEF LoadInv

(* A module in another state, with its slots as they were.                 *)
LEMMA StageMoves ==
    ASSUME LoadTypes, NEW m \in LoadModules, NEW from \in LoadStages, NEW to \in LoadStages,
           Stage(m, from, to)
    PROVE  /\ stage[m] = from
           /\ stage'[m] = to
           /\ stage' \in [LoadModules -> LoadStages]
           /\ \A n \in LoadModules \ {m} : stage'[n] = stage[n]
BY Zenon DEF LoadTypes, Stage

LEMMA CallsKept ==
    ASSUME LoadTypes, image' = image, LoadListGrows, NEW m \in LoadModules, ModuleInv(m),
           called'[m] = called[m], stage'[m] # "resolved"
    PROVE  SlotsBound(m)'
<1> SUFFICES ASSUME image[m].rela, NEW slot \in Slots(m)
             PROVE  SlotBound(m, slot)'
  BY Zenon DEF SlotsBound, Slots
<1>1. PICK c : c = called[m][slot]
  OBVIOUS
<1>2. Bound(m, slot, c)
  BY <1>1, Zenon DEF ModuleInv, SlotsBound, SlotBound
<1>3. Bound(m, slot, c)'
  BY <1>2, BoundLasts, Zenon
<1> QED
  BY <1>1, <1>3, Zenon DEF SlotBound, Bound

LEMMA InitializeKeepsInv ==
    ASSUME LoadInv, NEW m \in LoadModules, Initialize(m)
    PROVE  LoadInv'
<1>1. /\ stage[m] = "file" /\ stage'[m] = "initialized"
      /\ stage' \in [LoadModules -> LoadStages]
      /\ \A n \in LoadModules \ {m} : stage'[n] = stage[n]
  BY StageMoves, Zenon DEF Initialize, LoadInv, LoadStages
<1>2. image' = image /\ loadList' = loadList /\ words' = words /\ called' = called
  BY Zenon DEF Initialize
<1>3. LoadTypes'
  BY <1>1, <1>2, Zenon DEF LoadInv, LoadTypes
<1>4. LoadListGrows
  BY <1>2 DEF LoadListGrows
<1>5. ModuleInv(m) /\ LoadTypes
  BY Zenon DEF LoadInv
<1>6. SlotsBound(m)'
  BY <1>1, <1>2, <1>4, <1>5, CallsKept
<1>7. WordsOf(m)'
  BY <1>2, <1>5, Zenon DEF ModuleInv, WordsOf, Slots
<1>8. AsInFile(m)'
  BY <1>1, <1>2, <1>5 DEF ModuleInv, AsInFile
<1>9. RelocatedOnce(m)'
  BY <1>1 DEF RelocatedOnce
<1> QED
  BY <1>1, <1>2, <1>3, <1>4, <1>6, <1>7, <1>8, <1>9, OneModuleChanges, Zenon DEF ModuleInv

(* The words of a module's file, relocated.                                *)
LEMMA RelocatedWord ==
    ASSUME LoadTypes, NEW m \in LoadModules, words[m] = InFile(image[m]), NEW i \in Entries(m)
    PROVE  /\ words[m][i] = image[m].dyn[i].word
           /\ Relocated(m, i, Base(m)) =
                Base(m) + (IF image[m].rela THEN image[m].dyn[i].addend ELSE image[m].dyn[i].word)
<1>1. /\ image[m].dyn \in Seq([type : STRING, sym : Nat, word : Int, addend : Int])
      /\ image[m].plt \in Seq([sym : Nat, addend : Nat])
      /\ Base(m) \in Nat \ {0}
  BY ImageFacts, Zenon DEF LoadTypes
<1>2. image[m].dyn[i] \in [type : STRING, sym : Nat, word : Int, addend : Int]
  BY <1>1, ElementOf, Zenon DEF Entries
<1>3. image[m].dyn[i].word \in Int /\ Base(m) \in Int
  BY <1>1, <1>2
<1>4. i \in 1 .. Len(image[m].dyn) + Len(image[m].plt) /\ i <= Len(image[m].dyn)
  BY EntryFacts, Zenon DEF LoadTypes
<1>5. words[m][i] = image[m].dyn[i].word
  BY <1>4, Zenon DEF InFile
<1>6. image[m].dyn[i].word + Base(m) = Base(m) + image[m].dyn[i].word
  BY <1>3
<1> QED
  BY <1>5, <1>6, Zenon DEF Relocated

LEMMA RelocateKeepsInv ==
    ASSUME LoadInv, NEW m \in LoadModules, Relocate(m)
    PROVE  LoadInv'
<1> DEFINE value(i) == IF i <= image[m].count /\ image[m].dyn[i].type = "relative"
                       THEN Relocated(m, i, Base(m)) ELSE words[m][i]
<1>0. ModuleInv(m) /\ LoadTypes
  BY Zenon DEF LoadInv
<1>1. /\ stage[m] = "initialized" /\ stage'[m] = "relocated"
      /\ stage' \in [LoadModules -> LoadStages]
      /\ \A n \in LoadModules \ {m} : stage'[n] = stage[n]
  BY <1>0, StageMoves, Zenon DEF Relocate, LoadStages
<1>2. image' = image /\ called' = called /\ loadList' = Append(loadList, m)
  BY Zenon DEF Relocate
<1>3. /\ DOMAIN words' = LoadModules
      /\ words'[m] = [i \in DOMAIN words[m] |-> value(i)]
      /\ \A n \in LoadModules \ {m} : words'[n] = words[n]
  BY <1>0, Zenon DEF Relocate, LoadTypes
<1> HIDE DEF value
<1>4. LoadTypes'
  BY <1>0, <1>1, <1>2, <1>3, AppendProperties, Zenon DEF LoadTypes
<1>5. LoadListGrows
  BY <1>2, Zenon DEF LoadListGrows
<1>6. words[m] = InFile(image[m])
  BY <1>0, <1>1, Zenon DEF ModuleInv, AsInFile
<1>7. SlotsBound(m)'
  BY <1>0, <1>1, <1>2, <1>5, CallsKept
<1>8. WordsOf(m)'
  BY <1>0, <1>2, <1>3, Zenon DEF ModuleInv, WordsOf, Slots
<1>9. AsInFile(m)'
  <2>1. ASSUME NEW slot \in Slots(m)
        PROVE  words'[m][Word(m, slot)] = image[m].stub
    <3>1. PICK w : w = Word(m, slot)
      OBVIOUS
    <3>2. /\ w \in 1 .. Len(image[m].dyn) + Len(image[m].plt)
          /\ w \notin 1 .. Len(image[m].dyn)
      BY <1>0, <2>1, <3>1, SlotFacts, Zenon DEF LoadTypes
    <3>3. Len(image[m].dyn) \in Nat /\ Len(image[m].plt) \in Nat /\ image[m].count \in 0 .. Len(image[m].dyn)
      BY <1>0, ImageFacts, LenProperties, Zenon DEF LoadTypes
    <3>4. ~(w <= image[m].count) /\ ~(w <= Len(image[m].dyn))
      BY <3>2, <3>3
    <3>5. words'[m][w] = words[m][w]
      BY <1>0, <1>3, <3>2, <3>4, Zenon DEF ModuleInv, WordsOf, value
    <3>6. words[m][w] = image[m].stub
      BY <1>6, <3>2, <3>4, Zenon DEF InFile
    <3> QED
      BY <3>1, <3>5, <3>6
  <2> QED
    BY <1>1, <1>2, <2>1 DEF AsInFile, Slots, Word
<1>10. RelocatedOnce(m)'
  <2> SUFFICES ASSUME NEW i \in Entries(m), image[m].dyn[i].type = "relative"
               PROVE  words'[m][i] =
                        IF i <= image[m].count
                        THEN Base(m) + (IF image[m].rela THEN image[m].dyn[i].addend ELSE image[m].dyn[i].word)
                        ELSE image[m].dyn[i].word
    BY <1>1, <1>2, Zenon DEF RelocatedOnce, Entries
  <2>1. i \in DOMAIN words[m]
    <3>2. i \in 1 .. Len(image[m].dyn) + Len(image[m].plt)
      BY <1>0, EntryFacts, Zenon DEF LoadTypes
    <3> QED
      BY <1>0, <3>2, Zenon DEF ModuleInv, WordsOf
  <2> QED
    BY <1>0, <1>3, <1>6, <2>1, RelocatedWord, ZenonT(60) DEF value
<1> QED
  BY <1>1, <1>2, <1>3, <1>4, <1>5, <1>7, <1>8, <1>9, <1>10, OneModuleChanges, Zenon DEF ModuleInv

LEMMA StartKeepsInv ==
    ASSUME LoadInv, NEW m \in LoadModules, exl_dynamic(m)
    PROVE  LoadInv'
<1> DEFINE count == IF image[m].count = 0 THEN Len(image[m].dyn) ELSE image[m].count
           value(i) == IF i <= count /\ image[m].dyn[i].type = "relative"
                       THEN Relocated(m, i, Base(m)) ELSE words[m][i]
<1>0. ModuleInv(m) /\ LoadTypes
  BY Zenon DEF LoadInv
<1>1. /\ stage[m] = "file" /\ stage'[m] = "started"
      /\ stage' \in [LoadModules -> LoadStages]
      /\ \A n \in LoadModules \ {m} : stage'[n] = stage[n]
  BY <1>0, StageMoves, Zenon DEF exl_dynamic, LoadStages
<1>2. image' = image /\ called' = called /\ loadList' = loadList
  BY Zenon DEF exl_dynamic
<1>3. /\ DOMAIN words' = LoadModules
      /\ words'[m] = [i \in DOMAIN words[m] |-> value(i)]
      /\ \A n \in LoadModules \ {m} : words'[n] = words[n]
  BY <1>0, Zenon DEF exl_dynamic, LoadTypes
<1> HIDE DEF value
<1>4. LoadTypes'
  BY <1>0, <1>1, <1>2, <1>3, Zenon DEF LoadTypes
<1>5. LoadListGrows
  BY <1>2, Zenon DEF LoadListGrows
<1>6. words[m] = InFile(image[m])
  BY <1>0, <1>1, Zenon DEF ModuleInv, AsInFile
<1>7. SlotsBound(m)'
  BY <1>0, <1>1, <1>2, <1>5, CallsKept
<1>8. WordsOf(m)'
  BY <1>0, <1>2, <1>3, Zenon DEF ModuleInv, WordsOf, Slots
<1>9. AsInFile(m)'
  BY <1>1 DEF AsInFile
<1>10. RelocatedOnce(m)'
  <2> SUFFICES ASSUME NEW i \in Entries(m), image[m].dyn[i].type = "relative"
               PROVE  words'[m][i] =
                        IF i <= image[m].count \/ image[m].count = 0
                        THEN Base(m) + (IF image[m].rela THEN image[m].dyn[i].addend ELSE image[m].dyn[i].word)
                        ELSE image[m].dyn[i].word
    BY <1>1, <1>2, Zenon DEF RelocatedOnce, Entries
  <2>2. i \in 1 .. Len(image[m].dyn) + Len(image[m].plt) /\ i <= Len(image[m].dyn)
    BY <1>0, EntryFacts, Zenon DEF LoadTypes
  <2>3. i \in DOMAIN words[m]
    BY <1>0, <2>2, Zenon DEF ModuleInv, WordsOf
  <2>4. i <= count <=> (i <= image[m].count \/ image[m].count = 0)
    <3>1. image[m].count = 0 => ~(i <= image[m].count)
      BY <2>2
    <3> QED
      BY <2>2, <3>1, Zenon
  <2> QED
    BY <1>0, <1>3, <1>6, <2>3, <2>4, RelocatedWord, ZenonT(60) DEF value
<1> QED
  BY <1>1, <1>2, <1>3, <1>4, <1>5, <1>7, <1>8, <1>9, <1>10, OneModuleChanges, Zenon DEF ModuleInv

(* What a slot is bound to at once: its stub, nothing, or its symbol.      *)
LEMMA JumpSlotBound ==
    ASSUME LoadTypes, NEW m \in LoadModules, image[m].rela, NEW slot \in Slots(m),
           words[m][Word(m, slot)] = image[m].stub, NEW lazy \in BOOLEAN
    PROVE  \/ ResolveSymbolJumpSlot(m, slot, lazy) = StubOf(m)
           \/ Bound(m, slot, ResolveSymbolJumpSlot(m, slot, lazy))
<1> DEFINE target == TryResolveSymbol(m, image[m].plt[slot].sym)
<1>1. image[m].plt[slot].sym \in DOMAIN image[m].syms /\ AddendOf(m, slot) \in Nat
  BY SlotFacts, Zenon DEF LoadTypes
<1>2. \/ target \in {0, Unresolved}
      \/ target \in Nat \ {0} /\ Reaches(SlotSymbol(m, slot), m, target)
  BY <1>1, ResolvedReaches, Zenon DEF SlotSymbol
<1>3. CASE lazy \/ target = Unresolved
  BY <1>3, Zenon DEF ResolveSymbolJumpSlot, StubOf
<1>4. CASE ~(lazy \/ target = Unresolved)
  <2>1. ResolveSymbolJumpSlot(m, slot, lazy) = target + AddendOf(m, slot)
    BY <1>4, Zenon DEF ResolveSymbolJumpSlot, AddendOf
  <2> HIDE DEF target
  <2>2. CASE target = 0
    <3>1. target + AddendOf(m, slot) = AddendOf(m, slot)
      BY <1>1, <2>2
    <3> QED
      BY <2>1, <3>1, Zenon DEF Bound
  <2>3. CASE target \in Nat \ {0} /\ Reaches(SlotSymbol(m, slot), m, target)
    <3>1. target \in Nat
      BY <2>3
    <3> QED
      BY <2>1, <2>3, <3>1, Zenon DEF Bound
  <2> QED
    BY <1>2, <1>4, <2>2, <2>3, Zenon
<1> QED
  BY <1>3, <1>4, Zenon

LEMMA BehindIsSlot ==
    ASSUME NEW d \in Nat, NEW slot \in Nat
    PROVE  (d + slot) - d = slot
OBVIOUS

LEMMA ResolveKeepsInv ==
    ASSUME LoadInv, NEW m \in LoadModules, NEW lazy \in BOOLEAN, ResolveSymbols(m, lazy)
    PROVE  LoadInv'
<1> DEFINE value(i) == IF i \notin Entries(m)
                       THEN ResolveSymbolJumpSlot(m, i - Len(image[m].dyn), lazy)
                       ELSE IF i > image[m].count THEN ResolveSymbolAbsolute(m, i)
                       ELSE words[m][i]
<1>0. ModuleInv(m) /\ LoadTypes
  BY Zenon DEF LoadInv
<1>1. /\ stage[m] = "relocated" /\ stage'[m] = "resolved"
      /\ stage' \in [LoadModules -> LoadStages]
      /\ \A n \in LoadModules \ {m} : stage'[n] = stage[n]
  BY <1>0, StageMoves, Zenon DEF ResolveSymbols, LoadStages
<1>2. image' = image /\ called' = called /\ loadList' = loadList
  BY Zenon DEF ResolveSymbols
<1>3. /\ DOMAIN words' = LoadModules
      /\ words'[m] = [i \in DOMAIN words[m] |-> value(i)]
      /\ \A n \in LoadModules \ {m} : words'[n] = words[n]
  BY <1>0, Zenon DEF ResolveSymbols, LoadTypes
<1> HIDE DEF value
<1>4. LoadTypes'
  BY <1>0, <1>1, <1>2, <1>3, Zenon DEF LoadTypes
<1>5. LoadListGrows
  BY <1>2, Zenon DEF LoadListGrows
<1>6. WordsOf(m)'
  BY <1>0, <1>2, <1>3, Zenon DEF ModuleInv, WordsOf, Slots
<1>7. AsInFile(m)'
  BY <1>1 DEF AsInFile
<1>8. SlotsBound(m)'
  <2> SUFFICES ASSUME image[m].rela, NEW slot \in Slots(m)
               PROVE  SlotBound(m, slot)'
    BY <1>2, Zenon DEF SlotsBound, Slots
  <2>1. PICK c, w : c = called[m][slot] /\ w = ResolveSymbolJumpSlot(m, slot, lazy)
    OBVIOUS
  <2>2. PICK at : at = Word(m, slot)
    OBVIOUS
  <2>3. /\ at = Len(image[m].dyn) + slot
        /\ at \in 1 .. Len(image[m].dyn) + Len(image[m].plt)
        /\ at \notin Entries(m)
        /\ slot \in 1 .. Len(image[m].plt)
    BY <1>0, <2>2, SlotFacts, Zenon DEF LoadTypes
  <2>4. Len(image[m].dyn) \in Nat /\ slot \in Nat
    BY <1>0, <2>3, ImageFacts, LenProperties DEF LoadTypes
  <2>5. at - Len(image[m].dyn) = slot
    BY <2>3, <2>4, BehindIsSlot, Zenon
  <2>6. words'[m][at] = w
    BY <1>0, <1>3, <2>1, <2>3, <2>5, Zenon DEF value, ModuleInv, WordsOf
  <2>7. words[m][Word(m, slot)] = image[m].stub
    BY <1>0, <1>1, Zenon DEF ModuleInv, AsInFile
  <2>8. w = StubOf(m) \/ Bound(m, slot, w)
    BY <1>0, <2>1, <2>7, JumpSlotBound, Zenon
  <2>9. Bound(m, slot, c)
    BY <1>0, <2>1, Zenon DEF ModuleInv, SlotsBound, SlotBound
  <2>10. Bound(m, slot, c)' /\ (w = StubOf(m) \/ Bound(m, slot, w)')
    BY <1>0, <1>2, <1>5, <2>8, <2>9, BoundLasts, Zenon
  <2>11. at = Word(m, slot)' /\ StubOf(m)' = StubOf(m) /\ c = called'[m][slot]
    BY <1>2, <2>1, <2>2, Zenon DEF Word, StubOf
  <2> QED
    BY <2>6, <2>10, <2>11, Zenon DEF SlotBound, Bound
<1>9. RelocatedOnce(m)'
  <2>1. ASSUME NEW i \in Entries(m), image[m].dyn[i].type = "relative"
        PROVE  words'[m][i] = words[m][i]
    <3>1. i \in DOMAIN words[m]
      BY <1>0, <2>1, EntryFacts, Zenon DEF LoadTypes, ModuleInv, WordsOf
    <3>2. image[m].dyn[i].type # "absolute"
      BY <2>1
    <3> QED
      BY <1>3, <2>1, <3>1, <3>2, Zenon DEF value, ResolveSymbolAbsolute
  <2>2. ASSUME NEW i \in Entries(m), image[m].dyn[i].type = "relative"
        PROVE  words[m][i] =
                 IF i <= image[m].count
                 THEN Base(m) + (IF image[m].rela THEN image[m].dyn[i].addend ELSE image[m].dyn[i].word)
                 ELSE image[m].dyn[i].word
    BY <1>0, <1>1, <2>2 DEF ModuleInv, RelocatedOnce
  <2> QED
    BY <1>1, <1>2, <2>1, <2>2 DEF RelocatedOnce, Entries
<1> QED
  BY <1>1, <1>2, <1>3, <1>4, <1>5, <1>6, <1>7, <1>8, <1>9, OneModuleChanges, Zenon DEF ModuleInv

(* What the stub binds a slot to when it is called first.                  *)
LEMMA LazyBound ==
    ASSUME LoadTypes, NEW m \in LoadModules, image[m].rela, NEW slot \in Slots(m)
    PROVE  Bound(m, slot, rtld_lazy_bind_symbol(m, slot))
<1> DEFINE target == TryResolveSymbol(m, image[m].plt[slot].sym)
<1>1. image[m].plt[slot].sym \in DOMAIN image[m].syms
  BY SlotFacts, Zenon DEF LoadTypes
<1>2. \/ target \in {0, Unresolved}
      \/ target \in Nat \ {0} /\ Reaches(SlotSymbol(m, slot), m, target)
  BY <1>1, ResolvedReaches, Zenon DEF SlotSymbol
<1>3. CASE target \in {0, Unresolved}
  BY <1>3, Zenon DEF rtld_lazy_bind_symbol, Bound
<1>4. CASE target \notin {0, Unresolved}
  <2>1. rtld_lazy_bind_symbol(m, slot) = target + AddendOf(m, slot)
    BY <1>4, Zenon DEF rtld_lazy_bind_symbol, AddendOf
  <2> HIDE DEF target
  <2>2. target \in Nat
    BY <1>2, <1>4
  <2> QED
    BY <1>2, <1>4, <2>1, <2>2, Zenon DEF Bound
<1> QED
  BY <1>3, <1>4, Zenon

LEMMA CallKeepsInv ==
    ASSUME LoadInv, NEW m \in LoadModules, NEW slot \in Slots(m), Call(m, slot)
    PROVE  LoadInv'
<1> DEFINE goes == IF words[m][Word(m, slot)] = StubOf(m) THEN rtld_lazy_bind_symbol(m, slot)
                   ELSE words[m][Word(m, slot)]
<1>0. ModuleInv(m) /\ LoadTypes
  BY Zenon DEF LoadInv
<1>1. /\ stage[m] = "resolved" /\ stage' = stage
      /\ image' = image /\ loadList' = loadList
  BY Zenon DEF Call
<1>2. PICK at, to : at = Word(m, slot) /\ to = goes
  OBVIOUS
<1>3. /\ words' = [words EXCEPT ![m][at] = to]
      /\ called' = [called EXCEPT ![m][slot] = to]
  BY <1>2, Zenon DEF Call
<1> HIDE DEF goes
<1>4. /\ DOMAIN words' = LoadModules
      /\ DOMAIN called' = LoadModules
      /\ words'[m] = [words[m] EXCEPT ![at] = to]
      /\ called'[m] = [called[m] EXCEPT ![slot] = to]
      /\ \A n \in LoadModules \ {m} : words'[n] = words[n] /\ called'[n] = called[n]
  BY <1>0, <1>3, Zenon DEF LoadTypes
<1>5. LoadTypes'
  BY <1>0, <1>1, <1>4, Zenon DEF LoadTypes
<1>6. LoadListGrows
  BY <1>1, Zenon DEF LoadListGrows
<1>7. /\ at = Len(image[m].dyn) + slot
      /\ at \in 1 .. Len(image[m].dyn) + Len(image[m].plt)
      /\ at \notin Entries(m)
  BY <1>0, <1>2, SlotFacts, Zenon DEF LoadTypes
<1>8. WordsOf(m)'
  BY <1>0, <1>1, <1>4, Zenon DEF ModuleInv, WordsOf, Slots
<1>9. AsInFile(m)'
  BY <1>1 DEF AsInFile
<1>10. SlotsBound(m)'
  <2> SUFFICES ASSUME image[m].rela, NEW other \in Slots(m)
               PROVE  SlotBound(m, other)'
    BY <1>1, Zenon DEF SlotsBound, Slots
  <2>1. PICK c, w, oat : c = called[m][other] /\ w = words[m][Word(m, other)] /\ oat = Word(m, other)
    OBVIOUS
  <2>2. Bound(m, other, c) /\ (w = StubOf(m) \/ Bound(m, other, w))
    BY <1>0, <1>1, <2>1, Zenon DEF ModuleInv, SlotsBound, SlotBound
  <2>3. Bound(m, other, c)' /\ (w = StubOf(m) \/ Bound(m, other, w)')
    BY <1>0, <1>1, <1>6, <2>2, BoundLasts, Zenon
  <2>4. oat = Word(m, other)' /\ StubOf(m)' = StubOf(m)
    BY <1>1, <2>1, Zenon DEF Word, StubOf
  <2>5. CASE other = slot
    <3>1. Bound(m, slot, to)
      <4>1. CASE words[m][at] = StubOf(m)
        BY <1>0, <1>2, <4>1, LazyBound, Zenon DEF goes
      <4>2. CASE words[m][at] # StubOf(m)
        BY <1>2, <2>1, <2>2, <2>5, <4>2, Zenon DEF goes
      <4> QED
        BY <4>1, <4>2, Zenon
    <3>2. Bound(m, slot, to)'
      BY <1>0, <1>1, <1>6, <3>1, BoundLasts, Zenon
    <3>3. called'[m][slot] = to /\ words'[m][at] = to
      BY <1>0, <1>4, <1>7, ZenonT(60) DEF ModuleInv, WordsOf
    <3>4. at = Word(m, other)'
      BY <1>2, <2>1, <2>4, <2>5, Zenon
    <3> QED
      BY <2>5, <3>2, <3>3, <3>4, Zenon DEF SlotBound, Bound
  <2>6. CASE other # slot
    <3>1. oat # at
      <4>1. /\ oat = Len(image[m].dyn) + other /\ Len(image[m].dyn) \in Nat
            /\ other \in 1 .. Len(image[m].plt) /\ slot \in 1 .. Len(image[m].plt)
        BY <1>0, <2>1, SlotFacts, ImageFacts, LenProperties, Zenon DEF LoadTypes
      <4> QED
        BY <1>7, <2>6, <4>1
    <3>2. called'[m][other] = c /\ words'[m][oat] = w
      <4>1. oat \in DOMAIN words[m] /\ other \in DOMAIN called[m]
        BY <1>0, <2>1, SlotFacts, Zenon DEF ModuleInv, WordsOf, LoadTypes
      <4> QED
        BY <1>4, <2>1, <2>6, <3>1, <4>1, ZenonT(60)
    <3> QED
      BY <2>3, <2>4, <3>2, Zenon DEF SlotBound, Bound
  <2> QED
    BY <2>5, <2>6, Zenon
<1>11. RelocatedOnce(m)'
  <2>1. ASSUME NEW i \in Entries(m)
        PROVE  words'[m][i] = words[m][i]
    <3>1. i \in DOMAIN words[m] /\ i # at
      BY <1>0, <1>7, EntryFacts, Zenon DEF LoadTypes, ModuleInv, WordsOf
    <3> QED
      BY <1>4, <3>1, Zenon
  <2>2. RelocatedOnce(m)
    BY <1>0, Zenon DEF ModuleInv
  <2> QED
    BY <1>1, <2>1, <2>2 DEF RelocatedOnce, Entries
<1> QED
  BY <1>1, <1>4, <1>5, <1>6, <1>8, <1>9, <1>10, <1>11, OneModuleChanges, Zenon DEF ModuleInv

LEMMA RtldStepKeepsInv ==
    ASSUME LoadInv, RtldNext
    PROVE  LoadInv'
<1> PICK m \in LoadModules :
        \/ Initialize(m) \/ Relocate(m) \/ exl_dynamic(m)
        \/ \E lazy \in BOOLEAN : ResolveSymbols(m, lazy)
        \/ \E slot \in Slots(m) : Call(m, slot)
  BY Zenon DEF RtldNext
<1> QED
  BY InitializeKeepsInv, RelocateKeepsInv, StartKeepsInv, ResolveKeepsInv, CallKeepsInv, Zenon

LEMMA LoadSame ==
    ASSUME LoadInv, UNCHANGED rtldVars
    PROVE  LoadInv'
<1>1. image' = image /\ loadList' = loadList /\ stage' = stage /\ words' = words /\ called' = called
  BY Zenon DEF rtldVars
<1>2. LoadTypes' /\ LoadListGrows
  BY <1>1, Zenon DEF LoadInv, LoadTypes, LoadListGrows
<1>3. ASSUME NEW m \in LoadModules
      PROVE  ModuleInv(m)'
  BY <1>1, <1>2, OthersKept, Zenon DEF LoadInv
<1> QED
  BY <1>2, <1>3, Zenon DEF LoadInv

LEMMA LoadStarts == RtldInit => LoadInv
<1> SUFFICES ASSUME RtldInit
             PROVE  LoadInv
  OBVIOUS
<1>1. LoadTypes
  BY DEF RtldInit, LoadTypes, LoadStages
<1>2. ASSUME NEW m \in LoadModules
      PROVE  ModuleInv(m)
  <2>1. stage[m] = "file"
    BY DEF RtldInit
  <2>2. words[m] = InFile(image[m]) /\ called[m] = [slot \in Slots(m) |-> Never]
    BY Zenon DEF RtldInit, Slots
  <2>3. WordsOf(m)
    BY <2>2, Zenon DEF WordsOf, InFile
  <2>4. AsInFile(m) /\ RelocatedOnce(m)
    BY <2>1, <2>2 DEF AsInFile, RelocatedOnce
  <2>5. SlotsBound(m)
    BY <2>1, <2>2 DEF SlotsBound, SlotBound, Bound
  <2> QED
    BY <2>3, <2>4, <2>5, Zenon DEF ModuleInv
<1> QED
  BY <1>1, <1>2, Zenon DEF LoadInv

(* The invariant is that a slot holds its stub, nothing, or its symbol as  *)
(* it was and will be found; so all who call a symbol reach the same.      *)
LEMMA LoadInvBinds == LoadInv => ModulesBound
<1> SUFFICES ASSUME LoadInv
             PROVE  ModulesBound
  OBVIOUS
<1>0. LoadTypes /\ DOMAIN image = LoadModules
  BY Zenon DEF LoadInv, LoadTypes
<1>1. WordsRelocatedOnce
  <2>1. \A m \in LoadModules : RelocatedOnce(m)
    BY Zenon DEF LoadInv, ModuleInv
  <2> QED
    BY <1>0, <2>1, Zenon DEF WordsRelocatedOnce, RelocatedOnce
<1>2. ASSUME NEW c \in Callers
      PROVE  /\ Callee(c) \in Nat /\ Reaches(Symbol(c), c[1], Callee(c))
             /\ c[1] \in LoadModules
  <2>1. PICK m, slot : m = c[1] /\ slot = c[2] /\ m \in LoadModules /\ slot \in Slots(m)
    BY <1>0, Zenon DEF Callers
  <2>2. image[m].rela /\ called[m][slot] > AddendOf(m, slot)
    BY <2>1, Zenon DEF Callers, AddendOf
  <2>3. Bound(m, slot, called[m][slot])
    BY <2>1, <2>2, Zenon DEF LoadInv, ModuleInv, SlotsBound, SlotBound
  <2>4. AddendOf(m, slot) \in Nat
    BY <1>0, <2>1, SlotFacts, Zenon DEF LoadTypes
  <2>5. called[m][slot] \notin {Never, 0, AddendOf(m, slot)}
    BY <2>2, <2>4 DEF Never
  <2>6. PICK t \in Nat : Reaches(SlotSymbol(m, slot), m, t) /\ called[m][slot] = t + AddendOf(m, slot)
    BY <2>3, <2>5, Zenon DEF Bound
  <2>7. called[m][slot] - AddendOf(m, slot) = t
    BY <2>4, <2>6
  <2>8. Callee(c) = t /\ Symbol(c) = SlotSymbol(m, slot)
    BY <2>1, <2>7, Zenon DEF Callee, Symbol, SlotSymbol, AddendOf
  <2> QED
    BY <2>1, <2>6, <2>8, Zenon
<1>3. ASSUME NEW c \in Callers, ~Symbol(c).hidden
      PROVE  \/ /\ lookup_global_auto(Symbol(c).name) # 0
                /\ Callee(c) = lookup_global_auto(Symbol(c).name)
                /\ Callee(c) \in UNION {Exports(m, Symbol(c).name) : m \in DOMAIN image}
                /\ Symbol(c).name \notin Manual
             \/ Symbol(c).name \in Manual /\ Callee(c) = ManualAddress
  <2>1. PICK name : name = Symbol(c).name
    OBVIOUS
  <2>2. \/ lookup_global_auto(name) # 0 /\ Callee(c) = lookup_global_auto(name)
        \/ name \in Manual /\ Callee(c) = ManualAddress
    BY <1>2, <1>3, <2>1, Zenon DEF Reaches
  <2>3. lookup_global_auto(name) # 0 =>
            /\ lookup_global_auto(name) \in UNION {Exports(m, name) : m \in DOMAIN image}
            /\ name \notin Manual
    BY <1>0, LookupFinds, Zenon
  <2> QED
    BY <2>1, <2>2, <2>3, Zenon
<1>4. ASSUME NEW c \in Callers, Symbol(c).hidden
      PROVE  \E i \in DOMAIN image[c[1]].syms :
                /\ image[c[1]].syms[i].name = Symbol(c).name
                /\ Callee(c) = SymbolAddress(c[1], i)
  BY <1>2, <1>4, Zenon DEF Reaches
<1>5. ASSUME NEW c \in Callers, ~Symbol(c).hidden,
             NEW d \in Callers, ~Symbol(d).hidden, Symbol(d).name = Symbol(c).name
      PROVE  Callee(d) = Callee(c)
  <2>1. PICK name, a, b : name = Symbol(c).name /\ a = Callee(c) /\ b = Callee(d)
    OBVIOUS
  <2>2. \/ a = lookup_global_auto(name) /\ name \notin Manual
        \/ a = ManualAddress /\ name \in Manual
    BY <1>3, <1>5, <2>1, Zenon
  <2>3. \/ b = lookup_global_auto(name) /\ name \notin Manual
        \/ b = ManualAddress /\ name \in Manual
    BY <1>3, <1>5, <2>1, Zenon
  <2>4. a = b
    BY <2>2, <2>3
  <2> QED
    BY <2>1, <2>4, Zenon
<1>6. CallsReachTheirSymbol
  <2> SUFFICES ASSUME NEW c \in Callers
               PROVE  IF Symbol(c).hidden
                      THEN \E i \in DOMAIN image[c[1]].syms :
                              /\ image[c[1]].syms[i].name = Symbol(c).name
                              /\ Callee(c) = SymbolAddress(c[1], i)
                      ELSE /\ Callee(c) \in (UNION {Exports(m, Symbol(c).name) : m \in DOMAIN image}) \cup {ManualAddress}
                           /\ \A d \in Callers :
                                  ~Symbol(d).hidden /\ Symbol(d).name = Symbol(c).name => Callee(d) = Callee(c)
    BY Zenon DEF CallsReachTheirSymbol
  <2>1. CASE Symbol(c).hidden
    BY <1>4, <2>1, Zenon
  <2>2. CASE ~Symbol(c).hidden
    <3>1. Callee(c) \in (UNION {Exports(m, Symbol(c).name) : m \in DOMAIN image}) \cup {ManualAddress}
      BY <1>3, <2>2, Zenon
    <3>2. \A d \in Callers : ~Symbol(d).hidden /\ Symbol(d).name = Symbol(c).name => Callee(d) = Callee(c)
      BY <1>5, <2>2, Zenon
    <3> QED
      BY <2>2, <3>1, <3>2, Zenon
  <2> QED
    BY <2>1, <2>2, Zenon
<1> QED
  BY <1>1, <1>6, Zenon DEF ModulesBound

LEMMA RtldStarts == BootInit => RtldInv
<1> SUFFICES ASSUME BootInit
             PROVE  RtldInv
  OBVIOUS
<1>1. IF focus = "loading" THEN RtldInit ELSE RtldNone
  BY Zenon DEF BootInit
<1> QED
  BY <1>1, LoadStarts, Zenon DEF RtldInv, RtldNone

LEMMA RtldInvStep ==
    ASSUME RtldInv, [Next]_bootStateVars
    PROVE  RtldInv'
<1>1. focus' = focus
  BY Zenon DEF Next, Starting, Playing, Loading, bootStateVars
<1>2. CASE UNCHANGED rtldVars
  BY <1>1, <1>2, LoadSame, Zenon DEF RtldInv, rtldVars
<1>3. CASE Loading
  <2>1. focus = "loading" /\ RtldNext
    BY <1>3, Zenon DEF Loading
  <2> QED
    BY <1>1, <2>1, RtldStepKeepsInv, Zenon DEF RtldInv
<1> QED
  BY <1>2, <1>3, Zenon DEF Next, Starting, Playing, bootStateVars

(***************************************************************************)
(* However the console's loader orders its modules and whenever slots are  *)
(* bound, all calls of a name reach one symbol of that name, and relative  *)
(* words have the base added once, for any modules, files and symbols.     *)
(***************************************************************************)
THEOREM ModulesAreBound == Spec => []ModulesBound
<1>1. RtldInv => ModulesBound
  <2>1. CASE focus = "loading"
    BY <2>1, LoadInvBinds, Zenon DEF RtldInv
  <2>2. CASE focus # "loading"
    <3> SUFFICES ASSUME image = <<>>
                 PROVE  ModulesBound
      BY <2>2, Zenon DEF RtldInv
    <3>1. DOMAIN image = {}
      OBVIOUS
    <3> QED
      BY <3>1 DEF ModulesBound, CallsReachTheirSymbol, WordsRelocatedOnce, Callers
  <2> QED
    BY <2>1, <2>2, Zenon
<1> QED
  BY <1>1, RtldStarts, RtldInvStep, PTL DEF Spec
====
