---- MODULE MenuComponent ----
(***************************************************************************)
(* One value-editing component of the menu: EnumMenuComponent<T> and       *)
(* IntMenuComponent<T> (include/pe/Menu).  Both keep a pointer to a field  *)
(* of UserConfig, step it by one on Left or Right, repeat the step while   *)
(* the button stays down, and clamp.  An enum's value then indexes the     *)
(* table of its names.                                                     *)
(*                                                                         *)
(* The component is instantiated with three widths: s8 (every on/off       *)
(* option), u8 (colours and the wheel's stick) and int.  One int component *)
(* points at a one-byte field, mCurPattern, and so reads and writes the    *)
(* byte after it too: mIsNoclipEnabled.                                    *)
(***************************************************************************)
EXTENDS Integers

CONSTANTS
    Descs,       (* the components to consider, see DescOK                 *)
    HoldDelay,   (* frames before a held button repeats (30)               *)
    PadStates    (* the sets of buttons the player can hold at once        *)

Widths == {"s8", "u8", "int"}

(* The largest value of a width.                                           *)
Highest(width) ==
    CASE width = "s8"  -> 127
      [] width = "u8"  -> 255
      [] width = "int" -> 2147483647

(***************************************************************************)
(* lower..upper are the limits of the clamp: 0..N-1 for an enum with N     *)
(* names.  They leave room in their width for a step above the last, which *)
(* would otherwise come out below the first.  The longest table, the 202   *)
(* stages, is indexed by an int, the bytes by tables of at most a dozen.   *)
(* aliased marks the int over mCurPattern, whose table fits its byte.      *)
(***************************************************************************)
DescOK(d) ==
    /\ d.width \in Widths
    /\ d.lower \in Nat /\ d.upper \in Nat /\ d.lower <= d.upper
    /\ d.upper < Highest(d.width)
    /\ d.aliased \in BOOLEAN
    /\ d.aliased => d.width = "int" /\ d.lower = 0 /\ d.upper < 256

ASSUME DescsAssumption == \A d \in Descs : DescOK(d)
ASSUME HoldDelayAssumption == HoldDelay \in Nat \ {0}

Buttons == {"Left", "Right", "L"}

ASSUME PadStatesAssumption == PadStates \subseteq SUBSET Buttons

VARIABLES
    desc,               (* the component; it never changes                 *)
    field,              (* the UserConfig field it edits                   *)
    noclip,             (* mIsNoclipEnabled, the byte after mCurPattern    *)
    mIsFocused,
    mHoldLeftFrames,
    mHoldRightFrames,
    held, trig,         (* the pad of the frame                            *)
    phase,              (* the menu's turn, or the component's to draw     *)
    shown               (* the names looked up by the last draw            *)

edit == <<field, noclip, mHoldLeftFrames, mHoldRightFrames>>
vars == <<desc, edit, mIsFocused, held, trig, phase, shown>>

Init ==
    /\ desc \in Descs
    /\ field \in desc.lower .. desc.upper
    /\ noclip \in {0, 1}
    /\ ~desc.aliased => noclip = 0
    /\ mIsFocused = FALSE
    /\ mHoldLeftFrames = 0 /\ mHoldRightFrames = 0
    /\ held = {} /\ trig = {}
    /\ phase = "menu"
    /\ shown = {}

----
(* The storage behind mValue                                               *)

(* A mistake: only the byte of the field itself is read.                   *)
LoadByte == field

(* *mValue as the component reads it.  Two bytes of padding follow         *)
(* mIsNoclipEnabled and are zero: UserConfig is a static object.           *)
Load == IF desc.aliased THEN field + 256 * noclip ELSE field

(* The entry that the game's patched calls take for its own use            *)
(* (isPatternReverse, getMofumofuTarget), at any time: they read the byte  *)
(* alone, and pattern 0 leaves the choice to chance.                       *)
PatternTaken == IF desc.aliased /\ field # 0 THEN {field - 1} ELSE {}

(* Conversion of the int result of -- and ++ back to T.                    *)
Truncate(width, n) ==
    CASE width = "u8"  -> n % 256
      [] width = "s8"  -> ((n + 128) % 256) - 128
      [] width = "int" -> n

(* A mistake: the limit counts as one past the end.                        *)
ClampToPastEnd(d, n) == IF n < d.lower THEN d.lower
                        ELSE IF n > d.upper + 1 THEN d.upper
                        ELSE n

ClampTo(d, n) == IF n < d.lower THEN d.lower
                 ELSE IF n > d.upper THEN d.upper
                 ELSE n

(* One frame of a focused component: at most one step, then the clamp.     *)
Edited(step) == ClampTo(desc, Truncate(desc.width, Load + step))

----
(* The frames a button has been down.  Beyond HoldDelay only the parity    *)
(* matters, so the count goes back by two instead of growing for ever.     *)
Tick(n) == IF n = HoldDelay + 2 THEN HoldDelay + 1 ELSE n + 1

(* A mistake: the comparison with the delay is the wrong way round.        *)
RepeatsBefore(n) == n < HoldDelay /\ n % 2 = 0

Repeats(n) == n > HoldDelay /\ n % 2 = 0

(* A mistake: a released button keeps its count.                           *)
NextHoldLeftKept == IF "L" \notin held /\ "Left" \in held
                    THEN Tick(mHoldLeftFrames) ELSE mHoldLeftFrames

(* While L is held the left count neither grows nor is cleared.            *)
NextHoldLeft == IF "L" \in held THEN mHoldLeftFrames
                ELSE IF "Left" \in held THEN Tick(mHoldLeftFrames)
                ELSE 0

NextHoldRight == IF "Right" \in held THEN Tick(mHoldRightFrames) ELSE 0

StepsLeft  == ("Left" \in trig /\ "L" \notin held) \/ Repeats(NextHoldLeft)
StepsRight == "Right" \in trig \/ Repeats(NextHoldRight)

Step == IF StepsLeft THEN -1 ELSE IF StepsRight THEN 1 ELSE 0

(* drawExpandedCategory asks for the size first, and that already looks up *)
(* the name of the value as it was.                                        *)
DrawFocused ==
    /\ mIsFocused
    /\ mHoldLeftFrames' = NextHoldLeft
    /\ mHoldRightFrames' = NextHoldRight
    /\ field' = Edited(Step)
    /\ noclip' = IF desc.aliased THEN 0 ELSE noclip
    /\ shown' = {Load, Edited(Step)}

DrawUnfocused ==
    /\ ~mIsFocused
    /\ shown' = {Load}
    /\ UNCHANGED edit

Draw ==
    /\ phase = "draw"
    /\ DrawFocused \/ DrawUnfocused
    /\ phase' = "menu"
    /\ UNCHANGED <<desc, mIsFocused, held, trig>>

(* The component's category is collapsed, or the menu is closed.           *)
SkipDraw ==
    /\ phase = "draw"
    /\ phase' = "menu"
    /\ UNCHANGED <<desc, edit, mIsFocused, held, trig, shown>>

----
(* The rest of the frame, as far as this component can tell: the pad is    *)
(* sampled and the menu gives or takes the focus.                          *)
MenuTurn ==
    /\ phase = "menu"
    /\ \E h \in PadStates : held' = h /\ trig' = h \ held
    /\ mIsFocused' \in BOOLEAN
    /\ phase' = "draw"
    /\ shown' = {}
    /\ UNCHANGED <<desc, edit>>

(* callAction(NextMofumofuPattern / PrevMofumofuPattern): the other writer *)
(* of mCurPattern wraps around where the component clamps.                 *)
ChangePattern ==
    /\ phase = "menu"
    /\ desc.aliased
    /\ \/ field' = IF field + 1 > desc.upper THEN 0 ELSE field + 1
       \/ field' = IF field - 1 < 0 THEN desc.upper ELSE field - 1
    /\ UNCHANGED <<desc, noclip, mIsFocused, mHoldLeftFrames, mHoldRightFrames,
                   held, trig, phase, shown>>

(* callAction(ToggleNoclip), or the "noclip" component.                    *)
ToggleNoclip ==
    /\ phase = "menu"
    /\ desc.aliased
    /\ noclip' = 1 - noclip
    /\ UNCHANGED <<desc, field, mIsFocused, mHoldLeftFrames, mHoldRightFrames,
                   held, trig, phase, shown>>

Next == Draw \/ SkipDraw \/ MenuTurn \/ ChangePattern \/ ToggleNoclip

(* drawDbgGui runs once per presented frame, so the draw of a frame that   *)
(* was sampled happens, and the next frame comes.                          *)
Fairness == WF_vars(Draw \/ SkipDraw) /\ WF_vars(MenuTurn)

Spec == Init /\ [][Next]_vars /\ Fairness

----
(* Properties                                                              *)

(* The types: the field keeps within its limits whoever wrote it.          *)
TypeOK ==
    /\ desc \in Descs
    /\ field \in desc.lower .. desc.upper
    /\ noclip \in {0, 1}
    /\ mIsFocused \in BOOLEAN
    /\ mHoldLeftFrames \in 0 .. HoldDelay + 2
    /\ mHoldRightFrames \in 0 .. HoldDelay + 2
    /\ held \subseteq Buttons
    /\ trig \subseteq held
    /\ phase \in {"menu", "draw"}

(***************************************************************************)
(* An index a draw looks up in the table of names is one of the table's,   *)
(* for every width and however the decrement below zero wraps; the one     *)
(* exception is the pattern component drawn while noclip is on, which      *)
(* reads mIsNoclipEnabled as part of its value.  The game's own lookup, in *)
(* a table one entry shorter, is not misled by that.                       *)
(***************************************************************************)
LookupInTable ==
    /\ \A i \in shown :
         \/ i \in desc.lower .. desc.upper
         \/ desc.aliased /\ i - 256 \in desc.lower .. desc.upper
    /\ PatternTaken \subseteq 0 .. desc.upper - 1

(***************************************************************************)
(* A value never runs down with Left released, unless L is being held:     *)
(* L freezes the count of held frames, and a frozen even count above the   *)
(* delay goes on stepping.  It goes up by one at most, and only with Right *)
(* held, but for a u8 stepped below zero, which goes round to the last     *)
(* entry.  A pattern that reads noclip's byte is clamped, not stepped.     *)
(***************************************************************************)
StepNeedsButton ==
    [][phase = "draw" =>
        \/ field' = field
        \/ desc.aliased /\ noclip = 1 /\ field' = desc.upper
        \/ field' < field /\ held \cap {"Left", "L"} # {}
        \/ field' = field + 1 /\ "Right" \in held
        \/ desc.width = "u8" /\ field = 0 /\ field' = desc.upper]_vars

(***************************************************************************)
(* Drawing the focused pattern component switches noclip off, even in a    *)
(* frame without a press, and leaves the pattern at the last one; drawing  *)
(* never switches noclip on.                                               *)
(***************************************************************************)
FocusedPatternClearsNoclip ==
    [][(phase = "draw" /\ noclip' # noclip)
        => noclip = 1 /\ field' = desc.upper /\ mIsFocused]_vars

(***************************************************************************)
(* Holding Right on a focused component ends at the upper limit: the       *)
(* repeat starts by itself and the clamp holds it there.                   *)
(***************************************************************************)
HoldingRight ==
    /\ mIsFocused /\ "Right" \in held
    /\ "Left" \notin held /\ "L" \notin held
    /\ noclip = 0

HoldingReachesTheEnd ==
    ([]<><<DrawFocused>>_vars /\ <>[]HoldingRight /\ <>[][~ChangePattern]_vars)
        => <>[](field = desc.upper)

====
