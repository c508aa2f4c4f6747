---- MODULE MenuProofs ----
(***************************************************************************)
(* What holds of the menu with any number of categories, any number of     *)
(* components in them, focusable or not, and any buttons.                  *)
(*                                                                         *)
(* The inductive invariant adds to the types that outside the draw phase   *)
(* the cursor of an open, expanded menu is on a component, that no bind    *)
(* has fired yet in a frame that has not been drawn, and what the pad the  *)
(* game saw says of the menu in each phase.                                *)
(***************************************************************************)
EXTENDS Menu, TLAPS

CursorWasDrawn ==
    (phase # "draw" /\ mIsEnabled /\ mIsExpandedCurrentCategory)
        => Current \in Components

QuietBeforeDraw == phase # "poll" => fired = {}

(* What the game saw has no action, and went to it from a closed menu,     *)
(* which the chord may have opened since.                                  *)
SeenWhenClosed ==
    /\ \A d \in seen : BindOf[d] \notin Bound
    /\ seen # {} => (mIsEnabled <=> phase # "input" /\ ToggleChord)

IInv ==
    /\ TypeOK
    /\ AccessInBounds
    /\ CursorWasDrawn
    /\ QuietBeforeDraw
    /\ PressesGoOneWay
    /\ SeenWhenClosed

----
(* Facts about the constants and the operators.                            *)

(* Membership in Components, both ways.                                    *)
LEMMA ComponentsMembership ==
    /\ \A c \in CategoryIds : \A i \in 0 .. Size[c] - 1 : <<c, i>> \in Components
    /\ \A c, i : <<c, i>> \in Components => c \in CategoryIds /\ i \in 0 .. Size[c] - 1
  <1>1. ASSUME NEW c \in CategoryIds, NEW i \in 0 .. Size[c] - 1
        PROVE  <<c, i>> \in Components
    BY DEF Components
  <1>2. ASSUME NEW c, NEW i, <<c, i>> \in Components
        PROVE  c \in CategoryIds /\ i \in 0 .. Size[c] - 1
    <2>1. PICK d \in CategoryIds : <<c, i>> \in {d} \X (0 .. Size[d] - 1)
      BY <1>2 DEF Components
    <2>2. c = d /\ i \in 0 .. Size[d] - 1
      BY <2>1
    <2> QED
      BY <2>2
  <1> QED
    BY <1>1, <1>2

(* No category is empty.                                                   *)
LEMMA SizePositive ==
    ASSUME NEW c \in CategoryIds
    PROVE  Size[c] \in Nat /\ Size[c] > 0
  BY SizeAssumption

(* The clamp of updateInput lands inside and leaves alone what is inside.  *)
LEMMA ClampInRange ==
    ASSUME NEW n \in Int, NEW size \in Nat, size > 0
    PROVE  /\ Clamp(n, size) \in 0 .. size - 1
           /\ n \in 0 .. size - 1 => Clamp(n, size) = n
  BY DEF Clamp

(* A step of Down or Up.                                                   *)
LEMMA MovedIsInt ==
    ASSUME NEW n \in Int
    PROVE  Moved(n) \in Int
  BY DEF Moved

(* The index updateInput comes to rest on is a component's.                *)
LEMMA NextIndexInRange ==
    ASSUME TypeOK
    PROVE  /\ NextIndex \in 0 .. Size[mCurrentCategory] - 1
           /\ <<mCurrentCategory, NextIndex>> \in Components
  <1>1. mCurrentCategory \in CategoryIds /\ mCurrentComponentInCategory \in Int
    BY DEF TypeOK
  <1>2. Size[mCurrentCategory] \in Nat /\ Size[mCurrentCategory] > 0
    BY <1>1, SizePositive
  <1>3. NextIndex \in 0 .. Size[mCurrentCategory] - 1
    BY <1>1, <1>2, MovedIsInt, ClampInRange DEF NextIndex
  <1> QED
    BY <1>1, <1>3, ComponentsMembership

(* A cursor that is on a component and focused stays where it is.          *)
LEMMA FocusedIndexStays ==
    ASSUME TypeOK, Current \in Components, mIsFocusedOnCurrentComponent
    PROVE  NextIndex = mCurrentComponentInCategory
  <1>1. mCurrentCategory \in CategoryIds /\ mCurrentComponentInCategory \in Int
    BY DEF TypeOK
  <1>2. Size[mCurrentCategory] \in Nat /\ Size[mCurrentCategory] > 0
    BY <1>1, SizePositive
  <1>3. mCurrentComponentInCategory \in 0 .. Size[mCurrentCategory] - 1
    BY ComponentsMembership DEF Current
  <1> QED
    BY <1>1, <1>2, <1>3, ClampInRange DEF NextIndex

(* A focused component is a component, and one that can have the focus.    *)
LEMMA FocusedAreComponents ==
    ASSUME TypeOK
    PROVE  focused \subseteq Components
  BY FocusableAssumption DEF TypeOK

(* What UpdateFocus does to both flags.                                    *)
LEMMA UpdateFocusEffect ==
    ASSUME TypeOK, NEW comp, UpdateFocus(comp)
    PROVE  /\ mIsFocusedOnCurrentComponent' \in BOOLEAN
           /\ focused' \subseteq Focusable
           /\ focused' \subseteq focused \cup {comp}
           /\ focused \subseteq focused' \cup {comp}
           /\ mIsEnabled => (mIsFocusedOnCurrentComponent' <=> comp \in focused')
  <1>1. CASE comp \in Focusable /\ mIsEnabled
    <2>1. CASE mIsFocusedOnCurrentComponent' = TRUE
      <3>1. focused' = focused \cup {comp}
        BY <1>1, <2>1 DEF UpdateFocus, TypeOK
      <3> QED
        BY <1>1, <2>1, <3>1 DEF TypeOK
    <2>2. CASE mIsFocusedOnCurrentComponent' = FALSE
      <3>1. focused' = focused \ {comp}
        BY <1>1, <2>2 DEF UpdateFocus, TypeOK
      <3> QED
        BY <1>1, <2>2, <3>1 DEF TypeOK
    <2>3. mIsFocusedOnCurrentComponent' \in BOOLEAN
      BY <1>1 DEF UpdateFocus, TypeOK
    <2> QED
      BY <2>1, <2>2, <2>3
  <1>2. CASE ~(comp \in Focusable /\ mIsEnabled)
    BY <1>2 DEF UpdateFocus, TypeOK
  <1> QED
    BY <1>1, <1>2

----
(* The inductive invariant.                                                *)

LEMMA InitInv == Init => IInv
  <1> SUFFICES ASSUME Init PROVE IInv
    OBVIOUS
  <1>1. 0 \in CategoryIds
    BY NumCategoriesAssumption DEF CategoryIds
  <1>2. TypeOK
    BY <1>1 DEF Init, TypeOK
  <1> QED
    BY <1>2 DEF Init, IInv, AccessInBounds, CursorWasDrawn, QuietBeforeDraw,
                PressesGoOneWay, SeenWhenClosed

LEMMA PollInv == IInv /\ Poll => IInv'
  <1> SUFFICES ASSUME IInv, Poll PROVE IInv'
    OBVIOUS
  <1> USE DEF IInv, Poll, nav
  <1>1. TypeOK'
    <2>1. held' \subseteq Buttons /\ trig' \subseteq held'
      BY PadStatesAssumption
    <2>2. seen' \subseteq trig'
      BY DEF GameSees
    <2> QED
      BY <2>1, <2>2 DEF TypeOK
  <1>2. CursorWasDrawn'
    BY DEF CursorWasDrawn, Current
  <1>3. AccessInBounds' /\ QuietBeforeDraw' /\ PressesGoOneWay'
    BY DEF AccessInBounds, QuietBeforeDraw, PressesGoOneWay
  <1>4. SeenWhenClosed'
    BY DEF SeenWhenClosed, GameSees
  <1> QED
    BY <1>1, <1>2, <1>3, <1>4

LEMMA UpdateInputInv == IInv /\ UpdateInput => IInv'
  <1> SUFFICES ASSUME IInv, UpdateInput PROVE IInv'
    OBVIOUS
  <1>0. TypeOK /\ AccessInBounds /\ fired = {} /\ phase' = "draw"
        /\ UNCHANGED <<held, trig, seen, reacted, fired>>
    BY DEF IInv, UpdateInput, QuietBeforeDraw, pad
  <1>1. TypeOK' /\ AccessInBounds'
    <2>1. CASE ToggleMenu
      BY <1>0, <2>1 DEF ToggleMenu, TypeOK, AccessInBounds
    <2>2. CASE BrowseCategories
      <3>1. mCurrentCategory' \in CategoryIds
        <4>1. Moved(mCurrentCategory) \in Int
          BY <1>0, MovedIsInt DEF TypeOK, CategoryIds
        <4> QED
          BY <2>2, <4>1, ClampInRange, NumCategoriesAssumption
          DEF BrowseCategories, CategoryIds
      <3> QED
        BY <1>0, <2>2, <3>1 DEF BrowseCategories, TypeOK, AccessInBounds
    <2>3. CASE BrowseComponents
      <3>1. NextIndex \in Nat /\ <<mCurrentCategory, NextIndex>> \in Components
        <4>1. Size[mCurrentCategory] \in Nat
          BY <1>0, SizePositive DEF TypeOK
        <4> QED
          BY <1>0, <4>1, NextIndexInRange
      <3>2. /\ mIsFocusedOnCurrentComponent' \in BOOLEAN
            /\ focused' \subseteq Focusable
        BY <1>0, <2>3, UpdateFocusEffect DEF BrowseComponents
      <3>3. mIsExpandedCurrentCategory' \in BOOLEAN
        BY <2>3 DEF BrowseComponents, Collapses
      <3> QED
        BY <1>0, <2>3, <3>1, <3>2, <3>3 DEF BrowseComponents, TypeOK, AccessInBounds
    <2> QED
      BY <2>1, <2>2, <2>3 DEF UpdateInput
  <1>2. CursorWasDrawn' /\ QuietBeforeDraw' /\ PressesGoOneWay'
    BY <1>0 DEF CursorWasDrawn, QuietBeforeDraw, PressesGoOneWay
  <1>3. SeenWhenClosed'
    <2>1. CASE ToggleMenu
      BY <1>0, <2>1 DEF ToggleMenu, ToggleChord, SeenWhenClosed, IInv, UpdateInput, TypeOK
    <2>2. CASE BrowseCategories \/ BrowseComponents
      BY <1>0, <2>2 DEF BrowseCategories, BrowseComponents, ToggleChord, SeenWhenClosed, IInv, UpdateInput
    <2> QED
      BY <2>1, <2>2 DEF UpdateInput
  <1> QED
    BY <1>1, <1>2, <1>3 DEF IInv

(* The binds of a frame with the chord leave the bind of Left alone.       *)
LEMMA ChordTriggersNoLeft ==
    ToggleChord => "DLeft" \notin TriggeredBinds
  BY DEF ToggleChord, TriggeredBinds

LEMMA DrawInv == IInv /\ Draw => IInv'
  <1> SUFFICES ASSUME IInv, Draw PROVE IInv'
    OBVIOUS
  <1>0. /\ TypeOK /\ AccessInBounds /\ phase = "draw" /\ fired = {} /\ phase' = "poll"
        /\ UNCHANGED <<held, trig, seen, focused>>
        /\ SeenWhenClosed /\ SeenWhenClosed'
    BY DEF IInv, Draw, QuietBeforeDraw, pad, SeenWhenClosed, ToggleChord, DrawClosed, DrawCollapsed,
           DrawExpanded, nav
  <1>1. CASE DrawClosed
    <2>1. TypeOK'
      BY <1>0, <1>1 DEF DrawClosed, TypeOK, nav, TriggeredBinds
    <2>2. AccessInBounds' /\ CursorWasDrawn' /\ QuietBeforeDraw'
      BY <1>0, <1>1 DEF DrawClosed, nav, AccessInBounds, CursorWasDrawn, QuietBeforeDraw
    <2>3. PressesGoOneWay'
      BY <1>0, <1>1, ChordTriggersNoLeft
      DEF DrawClosed, PressesGoOneWay, SeenWhenClosed, ToggleChord, nav
    <2> QED
      BY <1>0, <2>1, <2>2, <2>3 DEF IInv
  <1>2. CASE DrawCollapsed
    <2>1. TypeOK'
      BY <1>0, <1>2 DEF DrawCollapsed, TypeOK, nav
    <2> QED
      BY <1>0, <1>2, <2>1
      DEF DrawCollapsed, nav, IInv, AccessInBounds, CursorWasDrawn, QuietBeforeDraw,
          PressesGoOneWay, SeenWhenClosed, ToggleChord
  <1>3. CASE DrawExpanded
    <2>1. Size[mCurrentCategory] \in Nat /\ Size[mCurrentCategory] > 0
      BY <1>0, SizePositive DEF TypeOK
    <2> DEFINE index == IF mCurrentComponentInCategory >= Size[mCurrentCategory]
                        THEN Size[mCurrentCategory] - 1
                        ELSE mCurrentComponentInCategory
    <2>2. index \in 0 .. Size[mCurrentCategory] - 1
      BY <1>0, <2>1 DEF TypeOK
    <2>3. index \in Nat /\ <<mCurrentCategory, index>> \in Components
      BY <1>0, <2>1, <2>2, ComponentsMembership DEF TypeOK
    <2>4. /\ mCurrentComponentInCategory' = index
          /\ accessed' = {<<mCurrentCategory, index>>}
          /\ reacted' \subseteq Components
          /\ UNCHANGED <<mIsEnabled, mCurrentCategory, mIsExpandedCurrentCategory,
                         mIsFocusedOnCurrentComponent, fired>>
      BY <1>3 DEF DrawExpanded
    <2> HIDE DEF index
    <2>5. TypeOK'
      BY <1>0, <2>3, <2>4 DEF TypeOK
    <2>6. AccessInBounds' /\ CursorWasDrawn'
      BY <2>3, <2>4 DEF AccessInBounds, CursorWasDrawn, Current
    <2>7. QuietBeforeDraw' /\ PressesGoOneWay'
      BY <1>0, <2>4 DEF QuietBeforeDraw, PressesGoOneWay, SeenWhenClosed, ToggleChord
    <2> QED
      BY <1>0, <2>5, <2>6, <2>7 DEF IInv
  <1> QED
    BY <1>1, <1>2, <1>3 DEF Draw

LEMMA StutterInv == IInv /\ UNCHANGED vars => IInv'
  BY DEF IInv, vars, pad, nav, TypeOK, AccessInBounds, CursorWasDrawn, Current,
         QuietBeforeDraw, PressesGoOneWay, SeenWhenClosed, ToggleChord

(***************************************************************************)
(* The inductive invariant holds: the sampled pad, the menu's cursor and   *)
(* its flags, and what a frame has touched, in every state.                *)
(***************************************************************************)
THEOREM Invariance == Spec => []IInv
  <1>1. IInv /\ [Next]_vars => IInv'
    BY PollInv, UpdateInputInv, DrawInv, StutterInv DEF Next
  <1> QED
    BY InitInv, <1>1, PTL DEF Spec

(***************************************************************************)
(* Type correctness of Menu: the category index always names a category,   *)
(* and only components that can have the focus have it.                    *)
(***************************************************************************)
THEOREM TypeCorrect == Spec => []TypeOK
  <1>1. IInv => TypeOK
    BY DEF IInv
  <1> QED
    BY Invariance, <1>1, PTL

(***************************************************************************)
(* updateInput and drawExpandedCategory only evaluate components[i] for an *)
(* i below componentSize, for every layout of the menu.                    *)
(***************************************************************************)
THEOREM AccessSafe == Spec => []AccessInBounds
  <1>1. IInv => AccessInBounds
    BY DEF IInv
  <1> QED
    BY Invariance, <1>1, PTL

(***************************************************************************)
(* updateInput starts from a component whenever the menu is open and the   *)
(* category expanded, so one step of Up or Down is one step on the screen. *)
(***************************************************************************)
THEOREM CursorSafe == Spec => []OpenCursorInBounds
  <1>1. IInv => OpenCursorInBounds
    BY DEF IInv, CursorWasDrawn, OpenCursorInBounds
  <1> QED
    BY Invariance, <1>1, PTL

(***************************************************************************)
(* A direction that goes down reaches the game, an action or the menu, and *)
(* only the chord that opens the menu reaches two of them.                 *)
(***************************************************************************)
THEOREM OneWay == Spec => []PressesGoOneWay
  <1>1. IInv => PressesGoOneWay
    BY DEF IInv
  <1> QED
    BY Invariance, <1>1, PTL

----
(* The action properties.  Each is a fact about one step from IInv.        *)

(* The three ways a step starts from an open and expanded menu.            *)
LEMMA StepsOfOpenMenu ==
    ASSUME [Next]_vars, mIsExpandedCurrentCategory, mIsEnabled
    PROVE  \/ UNCHANGED <<nav, focused>>
           \/ UpdateInput /\ ToggleMenu
           \/ UpdateInput /\ BrowseComponents
           \/ Draw /\ DrawExpanded
  BY DEF Next, vars, Poll, UpdateInput, Draw, BrowseCategories, DrawClosed, DrawCollapsed

(***************************************************************************)
(* While an open menu is focused, no press moves the cursor or collapses   *)
(* the category.                                                           *)
(***************************************************************************)
THEOREM FocusHolds == Spec => FocusHoldsTheCursor
  <1> DEFINE Held == (/\ mIsEnabled
                      /\ mIsExpandedCurrentCategory
                      /\ mIsFocusedOnCurrentComponent
                      /\ phase = "input")
                       => UNCHANGED <<cursor, mIsExpandedCurrentCategory>>
  <1>1. IInv /\ [Next]_vars => [Held]_vars
    <2> SUFFICES ASSUME IInv, [Next]_vars, mIsEnabled, mIsExpandedCurrentCategory,
                        mIsFocusedOnCurrentComponent, phase = "input"
                 PROVE  UNCHANGED <<cursor, mIsExpandedCurrentCategory>>
      OBVIOUS
    <2>1. CASE UNCHANGED <<nav, focused>>
      BY <2>1 DEF nav, cursor
    <2>2. CASE ToggleMenu
      BY <2>2 DEF ToggleMenu, cursor
    <2>3. CASE BrowseComponents
      <3>1. NextIndex = mCurrentComponentInCategory
        BY FocusedIndexStays DEF IInv, CursorWasDrawn
      <3> QED
        BY <2>3, <3>1 DEF BrowseComponents, Collapses, cursor, IInv, TypeOK
    <2> QED
      BY <2>1, <2>2, <2>3, StepsOfOpenMenu DEF Draw
  <1> QED
    BY Invariance, <1>1, PTL DEF Spec, FocusHoldsTheCursor

(***************************************************************************)
(* After the input step of an open, expanded menu the menu's own flag says *)
(* exactly whether the component under the cursor is focused.              *)
(***************************************************************************)
THEOREM HighlightTruth == Spec => HighlightIsFocus
  <1> DEFINE Truth == (/\ phase = "input"
                       /\ mIsEnabled'
                       /\ mIsEnabled
                       /\ mIsExpandedCurrentCategory)
                        => (mIsFocusedOnCurrentComponent' <=> Current' \in focused')
  <1>1. IInv /\ [Next]_vars => [Truth]_vars
    <2> SUFFICES ASSUME IInv, Next, phase = "input", mIsEnabled', mIsEnabled,
                        mIsExpandedCurrentCategory
                 PROVE  mIsFocusedOnCurrentComponent' <=> Current' \in focused'
      OBVIOUS
    <2>1. BrowseComponents
      BY DEF Next, Poll, Draw, UpdateInput, ToggleMenu, BrowseCategories
    <2>2. Current' = <<mCurrentCategory, NextIndex>>
      BY <2>1 DEF BrowseComponents, Current
    <2> QED
      BY <2>1, <2>2, UpdateFocusEffect DEF BrowseComponents, IInv
  <1> QED
    BY Invariance, <1>1, PTL DEF Spec, HighlightIsFocus

(***************************************************************************)
(* A component keeps the focus behind the menu's back only if the menu was *)
(* closed or the category collapsed: no step of an open, expanded menu     *)
(* makes a new ghost.                                                      *)
(***************************************************************************)
THEOREM GhostsComeFromOutside == Spec => GhostOrigin
  <1> DEFINE NoNew == (mIsEnabled /\ mIsExpandedCurrentCategory)
                        => Ghosts' \subseteq Ghosts
  <1>1. IInv /\ [Next]_vars => [NoNew]_vars
    <2> SUFFICES ASSUME IInv, [Next]_vars, mIsEnabled, mIsExpandedCurrentCategory,
                        NEW g, g \in Ghosts'
                 PROVE  g \in Ghosts
      OBVIOUS
    <2>0. TypeOK
      BY DEF IInv
    <2>1. CASE UNCHANGED <<nav, focused>>
      BY <2>1 DEF nav, Ghosts, Current
    <2>2. CASE ToggleMenu
      BY <2>2 DEF ToggleMenu, Ghosts, Current
    <2>3. CASE UpdateInput /\ BrowseComponents
      <3> DEFINE comp == <<mCurrentCategory, NextIndex>>
      <3>1. Current' = comp
        BY <2>3 DEF BrowseComponents, Current
      <3>2. /\ focused' \subseteq focused \cup {comp}
            /\ mIsFocusedOnCurrentComponent' <=> comp \in focused'
        BY <2>0, <2>3, UpdateFocusEffect DEF BrowseComponents
      <3>3. g \in focused /\ g # comp
        BY <3>1, <3>2 DEF Ghosts
      <3>4. CASE mIsFocusedOnCurrentComponent
        <4>1. Current \in Components
          BY <2>3 DEF IInv, CursorWasDrawn, UpdateInput
        <4>2. comp = Current
          BY <2>0, <3>4, <4>1, FocusedIndexStays DEF Current
        <4> QED
          BY <3>3, <4>2 DEF Ghosts
      <3>5. CASE ~mIsFocusedOnCurrentComponent
        BY <3>3, <3>5 DEF Ghosts
      <3> QED
        BY <3>4, <3>5
    <2>4. CASE Draw /\ DrawExpanded
      <3>1. /\ UNCHANGED <<focused, mIsFocusedOnCurrentComponent, mCurrentCategory>>
            /\ \/ Current' = Current
               \/ mCurrentComponentInCategory >= Size[mCurrentCategory]
        BY <2>4 DEF Draw, DrawExpanded, Current
      <3>2. CASE Current' = Current
        BY <3>1, <3>2 DEF Ghosts
      <3>3. CASE mCurrentComponentInCategory >= Size[mCurrentCategory]
        <4>1. Current \notin Components
          <5>1. Size[mCurrentCategory] \in Nat
            BY <2>0, SizePositive DEF TypeOK
          <5>2. mCurrentComponentInCategory \notin 0 .. Size[mCurrentCategory] - 1
            BY <2>0, <3>3, <5>1 DEF TypeOK
          <5> QED
            BY <5>2, ComponentsMembership DEF Current
        <4>2. g \in focused
          BY <3>1 DEF Ghosts
        <4> QED
          BY <2>0, <4>1, <4>2, FocusedAreComponents DEF Ghosts
      <3> QED
        BY <3>1, <3>2, <3>3
    <2> QED
      BY <2>1, <2>2, <2>3, <2>4, StepsOfOpenMenu
  <1> QED
    BY Invariance, <1>1, PTL DEF Spec, GhostOrigin
====
