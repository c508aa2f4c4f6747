---- MODULE QuickActionMenu ----
(***************************************************************************)
(* The quick action wheel (src/program/pe/Menu/QuickActionMenu.cpp).  It   *)
(* is drawn once per frame, before the menu itself: while a stick is       *)
(* pressed long enough the wheel grows and the left stick aims; releasing  *)
(* fires the aimed action through Menu::callAction and the wheel shrinks.  *)
(* While the menu is open nothing of this advances.                        *)
(*                                                                         *)
(* Where the stick points is an input: the nearest direction, or none in   *)
(* the dead zone.  The positions on the screen are left out.               *)
(***************************************************************************)
EXTENDS Integers

CONSTANTS
    NumDirections,   (* directions of the wheel (8)                        *)
    FullyOpen,       (* frames until the wheel stops growing (15)          *)
    MaxDelay         (* upper limit of mWheelDelayFrames (40)              *)

ASSUME WheelAssumption ==
    /\ NumDirections \in Nat \ {0}
    /\ FullyOpen \in Nat \ {0}
    /\ MaxDelay \in Nat \ {0}

Directions == 0 .. NumDirections - 1
None == -1

Sticks == {"left", "right"}

VARIABLES
    phase,                (* "input": pad and menu next; "draw": the wheel *)
    menuOpen,             (* mMenu.isEnabled()                             *)
    pressed,              (* the sticks pressed down                       *)
    pointed,              (* direction of the left stick, None if centred  *)
    mWheelDelayFrames,    (* UserConfig                                    *)
    wheelStick,           (* UserConfig.mWheelActivatedPressRightStick     *)
    mActiveFrames,
    mIsRetreating,
    mSelectedActionIdx,
    mStickPressTimer,
    fired                 (* the wheel slot passed to callAction           *)

input  == <<menuOpen, pressed, pointed>>
config == <<mWheelDelayFrames, wheelStick>>
wheel  == <<mActiveFrames, mIsRetreating, mSelectedActionIdx, mStickPressTimer>>
wheelVars == <<phase, input, config, wheel, fired>>

WheelInit ==
    /\ phase = "input"
    /\ menuOpen = FALSE /\ pressed = {} /\ pointed = None
    /\ mWheelDelayFrames = 1 /\ wheelStick = "left"
    /\ mActiveFrames = 0
    /\ mIsRetreating = FALSE
    /\ mSelectedActionIdx = None
    /\ mStickPressTimer = 0
    /\ fired = None

----
(* The player and Menu::updateInput.  Only the open menu edits the wheel's *)
(* configuration, while it is drawn.                                       *)
Input ==
    /\ phase = "input"
    /\ menuOpen' \in BOOLEAN
    /\ pressed' \in SUBSET Sticks
    /\ pointed' \in Directions \cup {None}
    /\ \/ UNCHANGED config
       \/ menuOpen /\ mWheelDelayFrames' \in 1 .. MaxDelay /\ wheelStick' \in Sticks
    /\ phase' = "draw"
    /\ fired' = None
    /\ UNCHANGED wheel

----
(* QuickActionMenu::draw                                                   *)

(* Neither counter is compared beyond these bounds: the timer with the     *)
(* delay, the frames with FullyOpen.                                       *)
CappedAt(n, bound) == IF n > bound THEN bound ELSE n

(* A mistake: the timer outlives the press.                                *)
NextPressTimerKept ==
    IF wheelStick \in pressed THEN CappedAt(mStickPressTimer + 1, MaxDelay)
                              ELSE mStickPressTimer

NextPressTimer ==
    IF wheelStick \in pressed THEN CappedAt(mStickPressTimer + 1, MaxDelay) ELSE 0

IsPressStickTime == NextPressTimer >= mWheelDelayFrames

(* QuickActionMenu.cpp:48-49: a retreat that has reached zero is over.     *)
StillRetreating == mIsRetreating /\ mActiveFrames > 0

DrawMenuOpen ==
    /\ menuOpen
    /\ UNCHANGED <<wheel, fired>>

Grow ==
    /\ ~menuOpen
    /\ IsPressStickTime /\ ~StillRetreating
    /\ mActiveFrames' = CappedAt(mActiveFrames + 1, FullyOpen + 1)
    /\ mSelectedActionIdx' = pointed
    /\ mIsRetreating' = FALSE
    /\ mStickPressTimer' = NextPressTimer
    /\ UNCHANGED fired

Shrink ==
    /\ ~menuOpen
    /\ StillRetreating
    /\ mActiveFrames' = mActiveFrames - 1
    /\ mSelectedActionIdx' = None
    /\ mStickPressTimer' = NextPressTimer
    /\ UNCHANGED <<mIsRetreating, fired>>

(* A mistake: what is fired is where the stick points in the frame of the  *)
(* release.                                                                *)
ReleaseFiringPointed ==
    /\ ~menuOpen
    /\ ~IsPressStickTime /\ ~StillRetreating
    /\ mActiveFrames > 0
    /\ mActiveFrames' = CappedAt(mActiveFrames, FullyOpen) - 1
    /\ mIsRetreating' = TRUE
    /\ fired' = pointed
    /\ mSelectedActionIdx' = None
    /\ mStickPressTimer' = NextPressTimer

(* The released wheel starts back from at most fully open, and the frame   *)
(* that releases it already draws the first step (the goto).               *)
Release ==
    /\ ~menuOpen
    /\ ~IsPressStickTime /\ ~StillRetreating
    /\ mActiveFrames > 0
    /\ mActiveFrames' = CappedAt(mActiveFrames, FullyOpen) - 1
    /\ mIsRetreating' = TRUE
    /\ fired' = mSelectedActionIdx
    /\ mSelectedActionIdx' = None
    /\ mStickPressTimer' = NextPressTimer

(* A mistake: a wheel that is back keeps the flag.                         *)
IdleStillRetreating ==
    /\ ~menuOpen
    /\ ~IsPressStickTime /\ ~StillRetreating
    /\ mActiveFrames = 0
    /\ mSelectedActionIdx' = None
    /\ mStickPressTimer' = NextPressTimer
    /\ UNCHANGED <<mIsRetreating, mActiveFrames, fired>>

Idle ==
    /\ ~menuOpen
    /\ ~IsPressStickTime /\ ~StillRetreating
    /\ mActiveFrames = 0
    /\ mIsRetreating' = FALSE
    /\ mSelectedActionIdx' = None
    /\ mStickPressTimer' = NextPressTimer
    /\ UNCHANGED <<mActiveFrames, fired>>

Draw ==
    /\ phase = "draw"
    /\ DrawMenuOpen \/ Grow \/ Shrink \/ Release \/ Idle
    /\ phase' = "input"
    /\ UNCHANGED <<input, config>>

WheelNext == Input \/ Draw

(* The frame loop of the game goes on: both halves of a frame happen.      *)
Fairness == WF_wheelVars(Input) /\ WF_wheelVars(Draw)

WheelSpec == WheelInit /\ [][WheelNext]_wheelVars /\ Fairness

----
(* Properties                                                              *)

(* The types; the frame counter never goes below zero.                     *)
WheelTypeOK ==
    /\ phase \in {"input", "draw"}
    /\ menuOpen \in BOOLEAN
    /\ pressed \subseteq Sticks
    /\ pointed \in Directions \cup {None}
    /\ mWheelDelayFrames \in 1 .. MaxDelay
    /\ wheelStick \in Sticks
    /\ mActiveFrames \in 0 .. FullyOpen + 1
    /\ mIsRetreating \in BOOLEAN
    /\ mSelectedActionIdx \in Directions \cup {None}
    /\ mStickPressTimer \in 0 .. MaxDelay
    /\ fired \in Directions \cup {None}

(***************************************************************************)
(* The wheel as the player sees it: see ActionWheel.                       *)
(***************************************************************************)
Mode == IF mIsRetreating THEN "back"
        ELSE IF mActiveFrames > 0 THEN "open"
        ELSE "idle"

Abstract == INSTANCE ActionWheel WITH mode <- Mode, aim <- mSelectedActionIdx

(* Every frame of the wheel is a step of the promise, or none.             *)
ImplementsActionWheel == Abstract!Spec

(***************************************************************************)
(* A released wheel comes back, provided the menu does not stay open (the  *)
(* open menu freezes the wheel where it is), and a wheel held and then let *)
(* go in a closed menu is always answered: it does not stay open without a *)
(* finger on the stick (isPressStickTime, draw).                           *)
(***************************************************************************)
RetreatEnds == <>[]~menuOpen => (mIsRetreating ~> ~mIsRetreating)

ReleaseIsAnswered ==
    <>[](~menuOpen /\ wheelStick \notin pressed) => <>[](Mode = "idle")

WheelSettles == RetreatEnds /\ ReleaseIsAnswered
====
