---- MODULE Menu ----
(***************************************************************************)
(* The practice menu: Menu::updateInput, Menu::draw and                    *)
(* Menu::drawExpandedCategory (src/program/pe/Menu/Menu.cpp), with the     *)
(* focus flag each MenuComponent keeps of its own, and the filter between  *)
(* the pad and the game (src/program/pe/Hacks/MenuDPadDisable.cpp).        *)
(*                                                                         *)
(* One frame is three steps: the controller is sampled and the game reads  *)
(* it (Poll), and when the game presents the frame the menu reads it       *)
(* (UpdateInput) and is drawn (Draw).  Drawing is where components react:  *)
(* a focused one edits its value, the hovered button calls its functor,    *)
(* and a closed menu fires the key binds.  WHAT a component then does to   *)
(* its value is the subject of MenuComponent; here it is enough to know    *)
(* WHICH components reacted.                                               *)
(*                                                                         *)
(* Indices are the code's: categories and components count from 0.         *)
(***************************************************************************)
EXTENDS Integers

CONSTANTS
    NumCategories,   (* IM_ARRAYSIZE(mCategories)                          *)
    Size,            (* Size[c]: components pushed into category c         *)
    Focusable,       (* the components whose canHaveFocus() is true        *)
    Bound,           (* the key binds set to an action, not to None        *)
    PadStates        (* the sets of buttons the player can hold at once    *)

(***************************************************************************)
(* The constructor fills every category (Menu.cpp:131-306), so none is     *)
(* empty, and focusable components are components.                         *)
(***************************************************************************)
ASSUME NumCategoriesAssumption == NumCategories \in Nat \ {0}

CategoryIds == 0 .. NumCategories - 1

ASSUME SizeAssumption == Size \in [CategoryIds -> Nat \ {0}]

Components == UNION { {c} \X (0 .. Size[c] - 1) : c \in CategoryIds }

ASSUME FocusableAssumption == Focusable \subseteq Components

Buttons == {"Up", "Down", "Left", "Right", "A", "L", "R", "ZL", "ZR", "RStick"}

ASSUME PadStatesAssumption == PadStates \subseteq SUBSET Buttons

(* The key binds of UserConfig, in the order Menu::draw tries them.        *)
BindSlots == {"DUp", "DDown", "DLeft", "DRight", "ZLZR", "RsL", "RsR"}

BindOf == [Up |-> "DUp", Down |-> "DDown", Left |-> "DLeft", Right |-> "DRight"]
Directions == DOMAIN BindOf

ASSUME BoundAssumption == Bound \subseteq BindSlots

VARIABLES
    phase,                          (* the step of the frame to come       *)
    held,                           (* buttons down in this frame          *)
    trig,                           (* buttons that went down in it        *)
    seen,                           (* directions the game saw go down     *)
    mIsEnabled,
    mCurrentCategory,
    mCurrentComponentInCategory,
    mIsExpandedCurrentCategory,
    mIsFocusedOnCurrentComponent,
    focused,                        (* components with mIsFocused set      *)
    accessed,                       (* components[i] evaluated by the step *)
    reacted,                        (* components that acted on the pad    *)
    fired                           (* key binds passed to callAction      *)

pad    == <<held, trig, seen>>
cursor == <<mCurrentCategory, mCurrentComponentInCategory>>
nav    == <<mIsEnabled, mCurrentCategory, mCurrentComponentInCategory,
            mIsExpandedCurrentCategory, mIsFocusedOnCurrentComponent>>
vars   == <<phase, pad, nav, focused, accessed, reacted, fired>>

Init ==
    /\ phase = "poll"
    /\ held = {} /\ trig = {} /\ seen = {}
    /\ mIsEnabled = FALSE
    /\ mCurrentCategory = 0
    /\ mCurrentComponentInCategory = 0
    /\ mIsExpandedCurrentCategory = FALSE
    /\ mIsFocusedOnCurrentComponent = FALSE
    /\ focused = {}
    /\ accessed = {} /\ reacted = {} /\ fired = {}

----
(* The game's own isPadTrigger of the four directions, behind the hooks    *)
(* DPadUp, DPadDown, DPadLeft and DPadRight.                               *)
GameSees(pressed) ==
    { d \in pressed \cap Directions : ~mIsEnabled /\ BindOf[d] \notin Bound }

(* The controller: isHold is the sampled state, isTrig its rising edge.    *)
Poll ==
    /\ phase = "poll"
    /\ \E h \in PadStates : held' = h /\ trig' = h \ held /\ seen' = GameSees(h \ held)
    /\ phase' = "input"
    /\ accessed' = {} /\ reacted' = {} /\ fired' = {}
    /\ UNCHANGED <<nav, focused>>

----
(* Menu::updateInput                                                       *)

ToggleChord == "L" \in held /\ "Left" \in trig

(* Menu.cpp:551-554 and 538-541: both ends of the range.                   *)
Clamp(n, size) == IF n < 0 THEN 0 ELSE IF n >= size THEN size - 1 ELSE n

(* Down wins over Up when both were pressed in the frame.                  *)
Moved(n) == IF "Down" \in trig THEN n + 1
            ELSE IF "Up" \in trig THEN n - 1
            ELSE n

ToggleMenu ==
    /\ ToggleChord
    /\ mIsEnabled' = ~mIsEnabled
    /\ UNCHANGED <<mCurrentCategory, mCurrentComponentInCategory,
                   mIsExpandedCurrentCategory, mIsFocusedOnCurrentComponent,
                   focused, accessed>>

(* A collapsed menu moves over the categories, open or closed.             *)
BrowseCategories ==
    /\ ~ToggleChord
    /\ ~mIsExpandedCurrentCategory
    /\ mCurrentCategory' = Clamp(Moved(mCurrentCategory), NumCategories)
    /\ mIsExpandedCurrentCategory' = ("Right" \in trig)
    /\ UNCHANGED <<mIsEnabled, mCurrentComponentInCategory,
                   mIsFocusedOnCurrentComponent, focused, accessed>>

(* Mistakes: the index is not clamped; the cursor moves while focused.     *)
NextIndexUnclamped ==
    IF mIsFocusedOnCurrentComponent
    THEN mCurrentComponentInCategory ELSE Moved(mCurrentComponentInCategory)

NextIndexUnheld ==
    Clamp(Moved(mCurrentComponentInCategory), Size[mCurrentCategory])

(* mCurrentComponentInCategory once it has been moved and clamped.         *)
NextIndex ==
    Clamp(IF mIsFocusedOnCurrentComponent
          THEN mCurrentComponentInCategory
          ELSE Moved(mCurrentComponentInCategory),
          Size[mCurrentCategory])

(* Left collapses the category unless Down or Up took the frame.           *)
Collapses ==
    ~mIsFocusedOnCurrentComponent /\ "Left" \in trig /\ trig \cap {"Up", "Down"} = {}

(* Mistakes: the component is told of the focus it gets and not of the     *)
(* focus it loses; it is told nothing at all.                              *)
UpdateFocusGainOnly(comp) ==
    LET f == comp \in Focusable /\ mIsEnabled
                 /\ (mIsFocusedOnCurrentComponent <=> "A" \notin trig)
    IN  /\ mIsFocusedOnCurrentComponent' = f
        /\ focused' = IF f THEN focused \cup {comp} ELSE focused

UpdateFocusUntold(comp) ==
    /\ mIsFocusedOnCurrentComponent' =
          (comp \in Focusable /\ mIsEnabled
               /\ (mIsFocusedOnCurrentComponent <=> "A" \notin trig))
    /\ UNCHANGED focused

(* Menu.cpp:543-548 on the component the cursor came to rest on.           *)
UpdateFocus(comp) ==
    IF comp \in Focusable /\ mIsEnabled
    THEN LET f == IF "A" \in trig THEN ~mIsFocusedOnCurrentComponent
                                  ELSE mIsFocusedOnCurrentComponent
         IN  /\ mIsFocusedOnCurrentComponent' = f
             /\ focused' = IF f THEN focused \cup {comp} ELSE focused \ {comp}
    ELSE /\ mIsFocusedOnCurrentComponent' = FALSE
         /\ UNCHANGED focused

BrowseComponents ==
    /\ ~ToggleChord
    /\ mIsExpandedCurrentCategory
    /\ mCurrentComponentInCategory' = NextIndex
    /\ mIsExpandedCurrentCategory' = ~Collapses
    /\ accessed' = {<<mCurrentCategory, NextIndex>>}
    /\ UpdateFocus(<<mCurrentCategory, NextIndex>>)
    /\ UNCHANGED <<mIsEnabled, mCurrentCategory>>

UpdateInput ==
    /\ phase = "input"
    /\ ToggleMenu \/ BrowseCategories \/ BrowseComponents
    /\ phase' = "draw"
    /\ UNCHANGED <<pad, reacted, fired>>

----
(* Menu::draw                                                              *)

(* A mistake: the bind of Left is not kept apart from the chord.           *)
TriggeredBindsOnChord ==
    { s \in BindSlots : \/ s = "DUp" /\ "Up" \in trig
                        \/ s = "DDown" /\ "Down" \in trig
                        \/ s = "DLeft" /\ "Left" \in trig
                        \/ s = "DRight" /\ "Right" \in trig }

(* Menu.cpp:357-373: the binds the pad of this frame triggers.             *)
TriggeredBinds ==
    { s \in BindSlots :
        \/ s = "DUp"    /\ "Up" \in trig
        \/ s = "DDown"  /\ "Down" \in trig
        \/ s = "DLeft"  /\ "Left" \in trig /\ "L" \notin held
        \/ s = "DRight" /\ "Right" \in trig
        \/ s = "ZLZR"   /\ \/ "ZL" \in held /\ "ZR" \in trig
                           \/ "ZR" \in held /\ "ZL" \in trig
        \/ s = "RsL"    /\ "RStick" \in held /\ "L" \in trig
        \/ s = "RsR"    /\ "RStick" \in held /\ "R" \in trig }

DrawClosed ==
    /\ ~mIsEnabled
    /\ fired' = TriggeredBinds
    /\ UNCHANGED <<nav, accessed, reacted>>

DrawCollapsed ==
    /\ mIsEnabled
    /\ ~mIsExpandedCurrentCategory
    /\ UNCHANGED <<nav, accessed, reacted, fired>>

(* drawExpandedCategory clamps the index from above only, hovers that      *)
(* component and draws all of the category: a component reacts when it is  *)
(* focused, a button when it is hovered and A was pressed.                 *)
DrawExpanded ==
    LET size  == Size[mCurrentCategory]
        index == IF mCurrentComponentInCategory >= size
                 THEN size - 1 ELSE mCurrentComponentInCategory
        here  == <<mCurrentCategory, index>>
    IN  /\ mIsEnabled
        /\ mIsExpandedCurrentCategory
        /\ mCurrentComponentInCategory' = index
        /\ accessed' = {here}
        /\ reacted' = { c \in Components :
                          /\ c[1] = mCurrentCategory
                          /\ \/ c \in focused
                             \/ c = here /\ c \notin Focusable /\ "A" \in trig }
        /\ UNCHANGED <<mIsEnabled, mCurrentCategory, mIsExpandedCurrentCategory,
                       mIsFocusedOnCurrentComponent, fired>>

Draw ==
    /\ phase = "draw"
    /\ DrawClosed \/ DrawCollapsed \/ DrawExpanded
    /\ phase' = "poll"
    /\ UNCHANGED <<pad, focused>>

Next == Poll \/ UpdateInput \/ Draw

Spec == Init /\ [][Next]_vars

----
(* Properties                                                              *)

Current == <<mCurrentCategory, mCurrentComponentInCategory>>

(***************************************************************************)
(* The types.  The component index has no upper bound here: while the      *)
(* category is collapsed it keeps the value of the category it came from.  *)
(***************************************************************************)
TypeOK ==
    /\ phase \in {"poll", "input", "draw"}
    /\ held \subseteq Buttons
    /\ trig \subseteq held
    /\ seen \subseteq trig
    /\ mIsEnabled \in BOOLEAN
    /\ mCurrentCategory \in CategoryIds
    /\ mCurrentComponentInCategory \in Nat
    /\ mIsExpandedCurrentCategory \in BOOLEAN
    /\ mIsFocusedOnCurrentComponent \in BOOLEAN
    /\ focused \subseteq Focusable
    /\ reacted \subseteq Components
    /\ fired \subseteq BindSlots

(***************************************************************************)
(* Every components[i] the menu evaluates exists.  The index outlives the  *)
(* category it was chosen in and updateInput and drawExpandedCategory      *)
(* clamp it at different places, the second from above only.               *)
(***************************************************************************)
AccessInBounds == accessed \subseteq Components

(***************************************************************************)
(* A category that updateInput finds expanded in an open menu was drawn at *)
(* least once, so the index it starts from is already a component's.       *)
(***************************************************************************)
OpenCursorInBounds ==
    (phase = "input" /\ mIsEnabled /\ mIsExpandedCurrentCategory)
        => Current \in Components

(***************************************************************************)
(* While the open menu is focused on a component, the cursor stays on it   *)
(* and its category stays expanded, whatever is pressed: only A, or the    *)
(* chord that closes the menu, lets go.                                    *)
(***************************************************************************)
FocusHoldsTheCursor ==
    [][(/\ mIsEnabled
        /\ mIsExpandedCurrentCategory
        /\ mIsFocusedOnCurrentComponent
        /\ phase = "input")
        => UNCHANGED <<cursor, mIsExpandedCurrentCategory>>]_vars

(***************************************************************************)
(* Components that hold the focus although the menu is not on them.        *)
(* updateInput clears the menu's flag in several places, and a component's *)
(* own flag only through the component under the cursor.                   *)
(***************************************************************************)
Ghosts == focused \ (IF mIsFocusedOnCurrentComponent THEN {Current} ELSE {})

(***************************************************************************)
(* A component is left behind with the focus only by a frame that finds    *)
(* the menu closed or its category collapsed: closing the menu while       *)
(* focused, or collapsing it with Left and A together, are the two ways    *)
(* there.  As long as the menu is used open and expanded none appears.     *)
(***************************************************************************)
GhostOrigin ==
    [][(mIsEnabled /\ mIsExpandedCurrentCategory) => Ghosts' \subseteq Ghosts]_vars

(***************************************************************************)
(* The red highlight tells the truth: after an input step of an open,      *)
(* expanded menu, the menu is focused exactly when the component under the *)
(* cursor has the focus, unless that component cannot have it.             *)
(***************************************************************************)
HighlightIsFocus ==
    [][(/\ phase = "input"
        /\ mIsEnabled'
        /\ mIsEnabled
        /\ mIsExpandedCurrentCategory)
        => (mIsFocusedOnCurrentComponent' <=> Current' \in focused')]_vars

(***************************************************************************)
(* A press of a direction goes one way: what the game saw fires no action, *)
(* L with Left, which opens or closes the menu, never fires the action of  *)
(* Left, an open menu acts on no press that the game saw, and the chord    *)
(* that closes the menu does not reach the game; only the chord that opens *)
(* it may.  Game, menu and binds read one pad at three places of a frame,  *)
(* and the chord changes mIsEnabled between the first and the last.        *)
(***************************************************************************)
PressesGoOneWay ==
    phase = "poll" =>
        /\ ToggleChord => "DLeft" \notin fired
        /\ \A d \in seen : BindOf[d] \notin fired \cap Bound
        /\ seen # {} => (mIsEnabled <=> ToggleChord)

====
