---- MODULE MenuComponentProofs ----
(***************************************************************************)
(* A value component stays within its limits, looks up only names of its   *)
(* table and steps only on a button, for every table, width and delay.     *)
(***************************************************************************)
EXTENDS MenuComponent, TLAPS

(* What is known of a component, in the order its conditions are used.     *)
DescTyped(d) ==
    /\ d.lower \in Nat /\ d.upper \in Nat
    /\ d.lower <= d.upper
    /\ d.width = "s8" => d.upper < 127
    /\ d.width = "u8" => d.upper < 255

LEMMA DescFacts ==
    ASSUME NEW d \in Descs
    PROVE  DescTyped(d) /\ d.width \in Widths /\ d.aliased \in BOOLEAN
           /\ (d.aliased => d.width = "int" /\ d.lower = 0 /\ d.upper < 256)
<1>1. DescOK(d)
  BY DescsAssumption, Zenon
<1>2. d.width = "s8" => Highest(d.width) = 127
  BY DEF Highest
<1>3. d.width = "u8" => Highest(d.width) = 255
  BY DEF Highest
<1> QED
  BY <1>1, <1>2, <1>3, Zenon DEF DescOK, DescTyped

LEMMA ClampStays ==
    ASSUME NEW d, DescTyped(d), NEW n \in Int
    PROVE  /\ ClampTo(d, n) \in d.lower .. d.upper
           /\ n \in d.lower .. d.upper => ClampTo(d, n) = n
           /\ n > d.upper => ClampTo(d, n) = d.upper
           /\ n < d.lower => ClampTo(d, n) = d.lower
BY DEF DescTyped, ClampTo

(* The value that comes back from the conversion of a step.                *)
LEMMA TruncateStep ==
    ASSUME NEW w \in Widths, NEW n \in Int, -1 <= n, w = "s8" => n <= 127, w = "u8" => n <= 255
    PROVE  /\ Truncate(w, n) \in Int
           /\ n >= 0 => Truncate(w, n) = n
           /\ n = -1 => Truncate(w, n) = IF w = "u8" THEN 255 ELSE -1
<1>1. CASE w = "u8"
  <2>1. Truncate(w, n) = n % 256
    BY <1>1, Zenon DEF Truncate
  <2> QED
    BY <1>1, <2>1
<1>2. CASE w = "s8"
  <2>1. Truncate(w, n) = ((n + 128) % 256) - 128
    BY <1>2 DEF Truncate
  <2> QED
    BY <1>2, <2>1
<1>3. CASE w = "int"
  <2>1. Truncate(w, n) = n
    BY <1>3 DEF Truncate
  <2> QED
    BY <1>3, <2>1
<1> QED
  BY <1>1, <1>2, <1>3, Zenon DEF Widths

LEMMA TruncateInt == ASSUME NEW n \in Int PROVE Truncate("int", n) = n
BY DEF Truncate

----
(* The value a focused draw leaves                                         *)

LEMMA StepValues == Step \in {-1, 0, 1}
BY Zenon DEF Step

(* A component over a field of its own.                                    *)
LEMMA PlainLoad ==
    ASSUME TypeOK, ~desc.aliased
    PROVE  Load = field /\ field \in desc.lower .. desc.upper /\ DescTyped(desc)
           /\ field \in Nat
<1>1. Load = field /\ field \in desc.lower .. desc.upper /\ DescTyped(desc)
  BY DescFacts, Zenon DEF Load, TypeOK
<1>2. field \in Nat
  BY <1>1 DEF DescTyped
<1> QED
  BY <1>1, <1>2

(* The component over the pattern and the byte after it.                   *)
LEMMA AliasedLoad ==
    ASSUME TypeOK, desc.aliased
    PROVE  Load = field + 256 * noclip /\ field \in desc.lower .. desc.upper
           /\ DescTyped(desc) /\ desc.lower = 0 /\ desc.upper < 256 /\ desc.width = "int"
           /\ noclip \in {0, 1}
BY DescFacts, Zenon DEF Load, TypeOK

(* What one step makes of the value of a field of its own.                 *)
LEMMA PlainEdit ==
    ASSUME TypeOK, ~desc.aliased, NEW step \in {-1, 0, 1}
    PROVE  /\ Edited(step) \in desc.lower .. desc.upper
           /\ step = 0 => Edited(step) = field
           /\ step = 1 => Edited(step) \in {field, field + 1}
           /\ step = -1 => \/ Edited(step) \in {field, field - 1}
                           \/ desc.width = "u8" /\ field = 0
                              /\ Edited(step) = desc.upper
<1> DEFINE d == desc
<1>1. /\ Load = field /\ field \in d.lower .. d.upper /\ DescTyped(d)
      /\ field \in Nat /\ d.width \in Widths
  BY PlainLoad, DescFacts, Zenon DEF TypeOK
<1>2. Edited(step) = ClampTo(d, Truncate(d.width, field + step))
  BY <1>1, Zenon DEF Edited
<1>3. /\ field + step \in Int /\ -1 <= field + step
      /\ d.width = "s8" => field + step <= 127
      /\ d.width = "u8" => field + step <= 255
  BY <1>1 DEF DescTyped
<1> DEFINE n == Truncate(d.width, field + step)
<1>4. /\ n \in Int
      /\ field + step >= 0 => n = field + step
      /\ field + step = -1 => n = IF d.width = "u8" THEN 255 ELSE -1
  BY <1>1, <1>3, TruncateStep
<1>5. /\ ClampTo(d, n) \in d.lower .. d.upper
      /\ n \in d.lower .. d.upper => ClampTo(d, n) = n
      /\ n > d.upper => ClampTo(d, n) = d.upper
      /\ n < d.lower => ClampTo(d, n) = d.lower
  BY <1>1, <1>4, ClampStays
<1>6. /\ d.lower \in Nat /\ d.upper \in Nat /\ d.lower <= d.upper
      /\ d.width = "u8" => d.upper < 255
  BY <1>1 DEF DescTyped
<1>7. ClampTo(d, n) = Edited(step)
  BY <1>2
<1> HIDE DEF n, d
<1>8. QED
  <2>1. CASE step = 0
    BY <1>1, <1>4, <1>5, <1>6, <1>7, <2>1 DEF d
  <2>2. CASE step = 1
    BY <1>1, <1>4, <1>5, <1>6, <1>7, <2>2 DEF d
  <2>3. CASE step = -1 /\ field # 0
    BY <1>1, <1>4, <1>5, <1>6, <1>7, <2>3 DEF d
  <2>4. CASE step = -1 /\ field = 0 /\ d.width = "u8"
    BY <1>1, <1>4, <1>5, <1>6, <1>7, <2>4 DEF d
  <2>5. CASE step = -1 /\ field = 0 /\ d.width # "u8"
    BY <1>1, <1>4, <1>5, <1>6, <1>7, <2>5 DEF d
  <2> QED
    BY <2>1, <2>2, <2>3, <2>4, <2>5

(* The pattern steps like an int that starts at zero, or, with noclip on,  *)
(* goes to the last one.                                                   *)
LEMMA AliasedEdit ==
    ASSUME TypeOK, desc.aliased, NEW step \in {-1, 0, 1}
    PROVE  /\ Edited(step) \in desc.lower .. desc.upper
           /\ noclip = 1 => Edited(step) = desc.upper
           /\ noclip = 0 /\ step = 0 => Edited(step) = field
           /\ noclip = 0 /\ step = 1 => Edited(step) \in {field, field + 1}
           /\ noclip = 0 /\ step = -1 => Edited(step) \in {field, field - 1}
<1> DEFINE d == desc
<1>1. /\ Load = field + 256 * noclip /\ field \in d.lower .. d.upper
      /\ DescTyped(d) /\ d.lower = 0 /\ d.upper < 256 /\ d.width = "int"
      /\ noclip \in {0, 1}
  BY AliasedLoad
<1> DEFINE n == field + 256 * noclip + step
<1>2. d.lower \in Nat /\ d.upper \in Nat /\ d.lower <= d.upper
  BY <1>1 DEF DescTyped
<1>3. n \in Int
  BY <1>1, <1>2
<1>4. Edited(step) = ClampTo(d, Truncate("int", n))
  BY <1>1, Zenon DEF Edited
<1>5. Edited(step) = ClampTo(d, n)
  BY <1>3, <1>4, TruncateInt
<1>6. /\ ClampTo(d, n) \in d.lower .. d.upper
      /\ n \in d.lower .. d.upper => ClampTo(d, n) = n
      /\ n > d.upper => ClampTo(d, n) = d.upper
      /\ n < d.lower => ClampTo(d, n) = d.lower
  BY <1>1, <1>3, ClampStays
<1> HIDE DEF d
<1>7. CASE noclip = 1
  BY <1>1, <1>2, <1>5, <1>6, <1>7 DEF d
<1>8. CASE noclip = 0
  BY <1>1, <1>2, <1>5, <1>6, <1>8 DEF d
<1> QED
  BY <1>1, <1>7, <1>8
(* Both kinds: a draw leaves the value within the limits.                  *)
LEMMA EditInRange ==
    ASSUME TypeOK, NEW step \in {-1, 0, 1}
    PROVE  Edited(step) \in desc.lower .. desc.upper
BY PlainEdit, AliasedEdit, Zenon

----
(* The type invariant, one lemma for the part every action disturbs        *)

(* The counts of held frames.                                              *)
Counts == 0 .. HoldDelay + 2

LEMMA TickStays == ASSUME NEW n \in Counts PROVE Tick(n) \in Counts
BY HoldDelayAssumption DEF Tick, Counts

LEMMA CountsStay ==
    ASSUME mHoldLeftFrames \in Counts, mHoldRightFrames \in Counts
    PROVE  NextHoldLeft \in Counts /\ NextHoldRight \in Counts
<1>1. 0 \in Counts
  BY HoldDelayAssumption DEF Counts
<1> QED
  BY <1>1, TickStays, Zenon DEF NextHoldLeft, NextHoldRight

(* What every action but the draw leaves as it is.                         *)
EditOK ==
    /\ field \in desc.lower .. desc.upper
    /\ noclip \in {0, 1}
    /\ mHoldLeftFrames \in Counts /\ mHoldRightFrames \in Counts

PadOK ==
    /\ mIsFocused \in BOOLEAN
    /\ held \subseteq Buttons
    /\ trig \subseteq held
    /\ phase \in {"menu", "draw"}

LEMMA TypeSplits == TypeOK <=> (desc \in Descs /\ EditOK /\ PadOK)
BY Zenon DEF TypeOK, EditOK, PadOK, Counts

LEMMA TypeSplitsNext == TypeOK' <=> (desc' \in Descs /\ EditOK' /\ PadOK')
BY Zenon DEF TypeOK, EditOK, PadOK, Counts

LEMMA TypeInit == Init => TypeOK
<1> SUFFICES ASSUME Init PROVE TypeOK
  OBVIOUS
<1>1. EditOK
  BY HoldDelayAssumption DEF Init, EditOK, Counts
<1>2. PadOK
  BY Zenon DEF Init, PadOK
<1> QED
  BY <1>1, <1>2, TypeSplits, Zenon DEF Init

LEMMA ZeroOrOne == 0 \in {0, 1} /\ 1 \in {0, 1} /\ -1 \in {-1, 0, 1}
OBVIOUS

LEMMA DrawKeepsType == ASSUME TypeOK, Draw PROVE TypeOK'
<1>1. desc \in Descs /\ EditOK /\ PadOK
  BY TypeSplits
<1>2. desc' \in Descs /\ PadOK'
  BY <1>1, Zenon DEF Draw, PadOK
<1>3. CASE DrawFocused
  <2>1. field' \in desc'.lower .. desc'.upper
    BY <1>3, StepValues, EditInRange, Zenon DEF Draw, DrawFocused
  <2>2. noclip' \in {0, 1}
    BY <1>1, <1>3, ZeroOrOne, Zenon DEF DrawFocused, EditOK
  <2>3. mHoldLeftFrames' \in Counts /\ mHoldRightFrames' \in Counts
    BY <1>1, <1>3, CountsStay, Zenon DEF DrawFocused, EditOK
  <2> QED
    BY <1>2, <2>1, <2>2, <2>3, TypeSplitsNext, Zenon DEF EditOK
<1>4. CASE DrawUnfocused
  <2>1. EditOK'
    BY <1>1, <1>4, Zenon DEF DrawUnfocused, EditOK, edit, Draw
  <2> QED
    BY <1>2, <2>1, TypeSplitsNext
<1> QED
  BY <1>3, <1>4, Zenon DEF Draw

LEMMA SkipDrawKeepsType == ASSUME TypeOK, SkipDraw PROVE TypeOK'
BY TypeSplits, TypeSplitsNext, Zenon DEF SkipDraw, EditOK, PadOK, edit

LEMMA MenuTurnKeepsType == ASSUME TypeOK, MenuTurn PROVE TypeOK'
<1>1. held' \subseteq Buttons /\ trig' \subseteq held'
  BY PadStatesAssumption DEF MenuTurn
<1> QED
  BY <1>1, TypeSplits, TypeSplitsNext, Zenon DEF MenuTurn, EditOK, PadOK, edit

LEMMA ChangePatternKeepsType == ASSUME TypeOK, ChangePattern PROVE TypeOK'
<1>1. desc \in Descs /\ EditOK /\ PadOK /\ desc.aliased
  BY TypeSplits, Zenon DEF ChangePattern
<1>2. desc.lower = 0 /\ desc.upper \in Nat /\ field \in desc.lower .. desc.upper
  BY <1>1, DescFacts, Zenon DEF EditOK, DescTyped
<1>3. \/ field' = IF field + 1 > desc.upper THEN 0 ELSE field + 1
      \/ field' = IF field - 1 < 0 THEN desc.upper ELSE field - 1
  BY Zenon DEF ChangePattern
<1>4. field' \in desc.lower .. desc.upper
  BY <1>2, <1>3
<1> QED
  BY <1>1, <1>4, TypeSplitsNext, Zenon DEF ChangePattern, EditOK, PadOK

LEMMA ToggleNoclipKeepsType == ASSUME TypeOK, ToggleNoclip PROVE TypeOK'
<1>1. desc \in Descs /\ EditOK /\ PadOK
  BY TypeSplits
<1>2. noclip' = 1 - noclip /\ noclip \in {0, 1}
  BY <1>1, Zenon DEF ToggleNoclip, EditOK
<1>3. noclip' \in {0, 1}
  BY <1>2
<1> QED
  BY <1>1, <1>3, TypeSplitsNext, Zenon DEF ToggleNoclip, EditOK, PadOK

LEMMA TypeStep == TypeOK /\ [Next]_vars => TypeOK'
<1> SUFFICES ASSUME TypeOK, [Next]_vars PROVE TypeOK'
  OBVIOUS
<1>1. CASE UNCHANGED vars
  BY <1>1, TypeSplits, TypeSplitsNext, Zenon DEF vars, edit, EditOK, PadOK
<1> QED
  BY <1>1, DrawKeepsType, SkipDrawKeepsType, MenuTurnKeepsType,
     ChangePatternKeepsType, ToggleNoclipKeepsType, Zenon DEF Next

(***************************************************************************)
(* Whoever writes the field, it keeps within the limits of the table, and  *)
(* the counts of held frames within theirs.                                *)
(***************************************************************************)
THEOREM TypeCorrect == Spec => []TypeOK
BY TypeInit, TypeStep, PTL DEF Spec
----
(* The names a draw looks up                                               *)

(* An index the table has, or one read together with noclip's byte.        *)
Looked(i) == \/ i \in desc.lower .. desc.upper
             \/ desc.aliased /\ i - 256 \in desc.lower .. desc.upper

LEMMA LoadLooked == TypeOK => Looked(Load)
<1> SUFFICES ASSUME TypeOK PROVE Looked(Load)
  OBVIOUS
<1>1. CASE ~desc.aliased
  BY <1>1, PlainLoad, Zenon DEF Looked
<1>2. CASE desc.aliased
  <2>1. /\ Load = field + 256 * noclip /\ field \in desc.lower .. desc.upper
        /\ desc.lower \in Nat /\ desc.upper \in Nat /\ noclip \in {0, 1}
    BY <1>2, AliasedLoad DEF DescTyped
  <2>2. Load \in desc.lower .. desc.upper \/ Load - 256 \in desc.lower .. desc.upper
    BY <2>1
  <2> QED
    BY <1>2, <2>2, Zenon DEF Looked
<1> QED
  BY <1>1, <1>2

LEMMA PatternInTable == TypeOK => PatternTaken \subseteq 0 .. desc.upper - 1
<1> SUFFICES ASSUME TypeOK PROVE PatternTaken \subseteq 0 .. desc.upper - 1
  OBVIOUS
<1>1. CASE desc.aliased /\ field # 0
  <2>1. field \in desc.lower .. desc.upper /\ desc.lower = 0 /\ desc.upper \in Nat
    BY <1>1, AliasedLoad DEF DescTyped
  <2>2. PatternTaken = {field - 1}
    BY <1>1, Zenon DEF PatternTaken
  <2> QED
    BY <1>1, <2>1, <2>2
<1>2. CASE ~(desc.aliased /\ field # 0)
  BY <1>2, Zenon DEF PatternTaken
<1> QED
  BY <1>1, <1>2

LookInv == TypeOK /\ \A i \in shown : Looked(i)

LEMMA LookStep == LookInv /\ [Next]_vars => LookInv'
<1> SUFFICES ASSUME LookInv, [Next]_vars PROVE LookInv'
  OBVIOUS
<1>1. TypeOK /\ TypeOK'
  BY TypeStep, Zenon DEF LookInv
<1>2. desc' = desc
  BY Zenon DEF Next, vars, edit, Draw, SkipDraw, MenuTurn, ChangePattern, ToggleNoclip
<1>3. \A i : Looked(i) => Looked(i)'
  BY <1>2, Zenon DEF Looked
<1>4. CASE Draw
  <2>1. \/ shown' = {Load, Edited(Step)}
        \/ shown' = {Load}
    BY <1>4, Zenon DEF Draw, DrawFocused, DrawUnfocused
  <2>2. Looked(Load) /\ Looked(Edited(Step))
    BY <1>1, LoadLooked, StepValues, EditInRange, Zenon DEF Looked
  <2>3. \A i \in shown' : Looked(i)
    BY <2>1, <2>2, Zenon
  <2> QED
    BY <1>1, <1>3, <2>3, Zenon DEF LookInv
<1>5. CASE MenuTurn
  BY <1>1, <1>5, Zenon DEF MenuTurn, LookInv
<1>6. CASE shown' = shown
  BY <1>1, <1>3, <1>6, Zenon DEF LookInv
<1> QED
  BY <1>4, <1>5, <1>6, Zenon DEF Next, vars, SkipDraw, ChangePattern, ToggleNoclip

(***************************************************************************)
(* Every index a draw looks up is one of the table's, but for the pattern  *)
(* drawn while noclip is on; the game's own lookup stays within its table. *)
(***************************************************************************)
THEOREM LookupsStayInTheTable == Spec => []LookupInTable
<1>1. Init => LookInv
  BY TypeInit, Zenon DEF Init, LookInv
<1>2. LookInv => LookupInTable
  BY PatternInTable, Zenon DEF LookInv, LookupInTable, Looked
<1> QED
  BY <1>1, <1>2, LookStep, PTL DEF Spec

----
(* What a step of the component needs                                      *)

(* A count that is cleared repeats nothing.                                *)
LEMMA RepeatsNeedsCount == ~Repeats(0)
BY HoldDelayAssumption DEF Repeats

LEMMA LeftStepNeedsButton ==
    ASSUME TypeOK, Step = -1 PROVE held \cap {"Left", "L"} # {}
<1>1. StepsLeft
  <2>1. -1 # 1 /\ -1 # 0
    OBVIOUS
  <2> QED
    BY <2>1, Zenon DEF Step
<1>2. CASE "Left" \in trig
  BY <1>2 DEF TypeOK
<1>3. CASE Repeats(NextHoldLeft)
  <2>1. NextHoldLeft # 0
    BY <1>3, RepeatsNeedsCount, Zenon
  <2>2. "L" \in held \/ "Left" \in held
    BY <2>1, Zenon DEF NextHoldLeft
  <2> QED
    BY <2>2
<1> QED
  BY <1>1, <1>2, <1>3, Zenon DEF StepsLeft

LEMMA RightStepNeedsButton ==
    ASSUME TypeOK, Step = 1 PROVE "Right" \in held
<1>1. StepsRight
  <2>1. -1 # 1 /\ 0 # 1
    OBVIOUS
  <2> QED
    BY <2>1, Zenon DEF Step
<1>2. CASE "Right" \in trig
  BY <1>2 DEF TypeOK
<1>3. CASE Repeats(NextHoldRight)
  <2>1. NextHoldRight # 0
    BY <1>3, RepeatsNeedsCount, Zenon
  <2> QED
    BY <2>1, Zenon DEF NextHoldRight
<1> QED
  BY <1>1, <1>2, <1>3, Zenon DEF StepsRight

(* The body of StepNeedsButton, and of FocusedPatternClearsNoclip.         *)
ButtonStep ==
    \/ field' = field
    \/ desc.aliased /\ noclip = 1 /\ field' = desc.upper
    \/ field' < field /\ held \cap {"Left", "L"} # {}
    \/ field' = field + 1 /\ "Right" \in held
    \/ desc.width = "u8" /\ field = 0 /\ field' = desc.upper

LEMMA DownIsLess == ASSUME TypeOK PROVE field - 1 < field
<1>1. desc.lower \in Nat /\ desc.upper \in Nat /\ field \in desc.lower .. desc.upper
  BY DescFacts, Zenon DEF TypeOK, DescTyped
<1> QED
  BY <1>1

LEMMA FocusedDrawNeedsButton == ASSUME TypeOK, DrawFocused PROVE ButtonStep
<1>1. field' = Edited(Step) /\ Step \in {-1, 0, 1}
  BY StepValues, Zenon DEF DrawFocused
<1>2. CASE desc.aliased /\ noclip = 1
  BY <1>1, <1>2, AliasedEdit, Zenon DEF ButtonStep
<1>3. CASE ~(desc.aliased /\ noclip = 1)
  <2>1. /\ Step = 0 => Edited(Step) = field
        /\ Step = 1 => Edited(Step) \in {field, field + 1}
        /\ Step = -1 => \/ Edited(Step) \in {field, field - 1}
                        \/ desc.width = "u8" /\ field = 0
                           /\ Edited(Step) = desc.upper
    <3>1. CASE desc.aliased
      <4>1. noclip = 0
        BY <1>3, <3>1, Zenon DEF TypeOK
      <4> QED
        BY <1>1, <3>1, <4>1, AliasedEdit, Zenon
    <3>2. CASE ~desc.aliased
      BY <1>1, <3>2, PlainEdit, Zenon
    <3> QED
      BY <3>1, <3>2
  <2>2. CASE Step = 0
    BY <1>1, <2>1, <2>2, Zenon DEF ButtonStep
  <2>3. CASE Step = 1
    BY <1>1, <2>1, <2>3, RightStepNeedsButton, Zenon DEF ButtonStep
  <2>4. CASE Step = -1
    BY <1>1, <2>1, <2>4, LeftStepNeedsButton, DownIsLess, Zenon DEF ButtonStep
  <2> QED
    BY <1>1, <2>2, <2>3, <2>4, Zenon
<1> QED
  BY <1>2, <1>3

(***************************************************************************)
(* A value goes down only with Left or L held and up only with Right, but  *)
(* for the u8 below zero and the pattern that reads noclip's byte.         *)
(***************************************************************************)
THEOREM StepsNeedAButton == Spec => StepNeedsButton
<1>1. TypeOK /\ [Next]_vars => [phase = "draw" => ButtonStep]_vars
  <2> SUFFICES ASSUME TypeOK, Next, phase = "draw" PROVE ButtonStep
    BY Zenon
  <2>1. "draw" # "menu"
    OBVIOUS
  <2>2. CASE Draw /\ DrawFocused
    BY <2>2, FocusedDrawNeedsButton
  <2>3. CASE (Draw /\ DrawUnfocused) \/ SkipDraw
    BY <2>3, Zenon DEF DrawUnfocused, SkipDraw, edit, ButtonStep
  <2> QED
    BY <2>1, <2>2, <2>3, Zenon DEF Next, Draw, MenuTurn, ChangePattern, ToggleNoclip
<1> QED
  BY <1>1, TypeCorrect, PTL DEF Spec, StepNeedsButton, ButtonStep

(***************************************************************************)
(* Only a draw of the focused pattern component changes noclip, and only   *)
(* from on to off, with the pattern left at the last one.                  *)
(***************************************************************************)
THEOREM DrawnPatternClearsNoclip == Spec => FocusedPatternClearsNoclip
<1> DEFINE Clears == noclip = 1 /\ field' = desc.upper /\ mIsFocused
<1>1. TypeOK /\ [Next]_vars => [(phase = "draw" /\ noclip' # noclip) => Clears]_vars
  <2> SUFFICES ASSUME TypeOK, Next, phase = "draw", noclip' # noclip PROVE Clears
    BY Zenon
  <2>1. "draw" # "menu"
    OBVIOUS
  <2>2. Draw /\ DrawFocused
    BY <2>1, Zenon DEF Next, Draw, DrawUnfocused, SkipDraw, MenuTurn, ChangePattern,
       ToggleNoclip, edit
  <2>3. desc.aliased /\ noclip' = 0 /\ mIsFocused
    BY <2>2, Zenon DEF DrawFocused
  <2>4. noclip = 1
    BY <2>3, Zenon DEF TypeOK
  <2>5. field' = desc.upper
    BY <2>2, <2>3, <2>4, AliasedEdit, StepValues, Zenon DEF DrawFocused
  <2> QED
    BY <2>3, <2>4, <2>5
<1> HIDE DEF Clears
<1>2. Spec => [][(phase = "draw" /\ noclip' # noclip) => Clears]_vars
  BY <1>1, TypeCorrect, PTL DEF Spec
<1> QED
  BY <1>2 DEF FocusedPatternClearsNoclip, Clears
====
