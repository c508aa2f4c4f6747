---- MODULE TimerProofs ----
(* The properties of the timer for any stages, any start type, any time a   *)
(* split stays on the screen and any length of run.  Below them, the quick  *)
(* action wheel, which shares nothing with the timer but these pages: it    *)
(* implements ActionWheel for any number of directions and any delays.      *)
EXTENDS Timer, QuickActionMenu, TLAPS

(* A timer that stands still has an end no earlier than its start; without  *)
(* this a negative time could come from elsewhere than an old split.        *)
EndAfterStart == ~mIsRunning => mStartTick <= mEndTick

(* What the menu has seen since the start is what it saw last; nothing is   *)
(* recorded while "auto kingdom" is off.                                    *)
TimedIsLastSeen ==
    /\ timed \subseteq {mLastStageName}
    /\ ~mTimerAutoKingdom => timed = {}

IInv == TypeOK /\ EndAfterStart /\ TimedIsLastSeen

----
(* What the operations do to the ticks, wherever they are called from.      *)

TicksOK ==
    mStartTick \in 0..now /\ mEndTick \in 0..now /\ mShowSplitTick \in 0..now

LEMMA StartTicks ==
    ASSUME now \in Nat, TicksOK, EndAfterStart, Start, now' = now
    PROVE  TicksOK' /\ EndAfterStart'
BY DEF TicksOK, EndAfterStart, Start

LEMMA StopTicks ==
    ASSUME now \in Nat, TicksOK, EndAfterStart, Stop, now' = now
    PROVE  TicksOK' /\ EndAfterStart'
BY DEF TicksOK, EndAfterStart, Stop

LEMMA ResetTicks ==
    ASSUME now \in Nat, TicksOK, EndAfterStart, Reset, now' = now
    PROVE  TicksOK' /\ EndAfterStart'
BY DEF TicksOK, EndAfterStart, Reset

LEMMA ShowSplitTicks ==
    ASSUME now \in Nat, TicksOK, EndAfterStart, ShowSplit, now' = now
    PROVE  TicksOK' /\ EndAfterStart'
BY DEF TicksOK, EndAfterStart, ShowSplit

LEMMA KeepTicks ==
    ASSUME now \in Nat, TicksOK, EndAfterStart,
           UNCHANGED <<ticks, mIsRunning>>, now' \in Nat, now <= now'
    PROVE  TicksOK' /\ EndAfterStart'
BY DEF TicksOK, EndAfterStart, ticks

(* The types apart from the ticks.                                          *)
SwitchesOK ==
    /\ mIsRunning \in BOOLEAN /\ mIsSkipCloudEnabled \in BOOLEAN
    /\ mTimerAutoKingdom \in BOOLEAN /\ mTimerSplit \in BOOLEAN

RestOK ==
    /\ now \in Nat
    /\ functionCalls \in AllSkipCalls
    /\ stage \in Stages \cup {NoStage}
    /\ mLastStageName \in Stages \cup {NoStage}
    /\ timed \subseteq Stages

LEMMA TypeParts == TypeOK <=> TicksOK /\ SwitchesOK /\ RestOK
BY Zenon DEF TypeOK, TicksOK, SwitchesOK, RestOK

LEMMA SwitchesInv ==
    ASSUME SwitchesOK, [Next]_vars
    PROVE  SwitchesOK'
<1>1. mIsRunning' \in {mIsRunning, TRUE, FALSE}
    <2>1. CASE StartTimer \/ StopTimer \/ ResetTimer
        BY Zenon, <2>1 DEF StartTimer, StopTimer, ResetTimer, Start, Stop, Reset
    <2>2. ASSUME NEW type \in HookTypes, Shine(type)
          PROVE  mIsRunning' \in {mIsRunning, TRUE, FALSE}
        BY Zenon, <2>2 DEF Shine, Event, Start, ShowSplit
    <2>3. CASE Update \/ CloudSkip
        BY Zenon, <2>3 DEF Update, CloudSkip, Start, Stop
    <2>4. CASE UNCHANGED mIsRunning
        BY Zenon, <2>4
    <2> QED
        BY Zenon, <2>1, <2>2, <2>3, <2>4 DEF Next, vars, ToggleAutoKingdom, ToggleSplit,
            ToggleSkipCloud, ChangeScene, TimePasses
<1>2. /\ mTimerAutoKingdom' \in {mTimerAutoKingdom, ~mTimerAutoKingdom}
      /\ mTimerSplit' \in {mTimerSplit, ~mTimerSplit}
      /\ mIsSkipCloudEnabled' \in {mIsSkipCloudEnabled, ~mIsSkipCloudEnabled}
    BY Zenon DEF Next, vars, options, others, StartTimer, StopTimer, ResetTimer, Shine, Update,
        CloudSkip, ToggleAutoKingdom, ToggleSplit, ToggleSkipCloud, ChangeScene, TimePasses
<1> QED BY Zenon, <1>1, <1>2 DEF SwitchesOK

----
LEMMA InitInv == Init => IInv
<1> SUFFICES ASSUME Init PROVE IInv
    OBVIOUS
<1>1. TicksOK /\ RestOK /\ EndAfterStart
    BY DEF Init, TicksOK, RestOK, EndAfterStart, AllSkipCalls
<1>2. SwitchesOK /\ TimedIsLastSeen
    BY Zenon DEF Init, SwitchesOK, TimedIsLastSeen
<1> QED BY <1>1, <1>2, TypeParts DEF IInv

LEMMA NextInv == IInv /\ [Next]_vars => IInv'
<1> SUFFICES ASSUME IInv, [Next]_vars PROVE IInv'
    OBVIOUS
<1> USE TimerAssumption
<1>0. TicksOK /\ EndAfterStart /\ SwitchesOK /\ RestOK /\ TimedIsLastSeen /\ now \in Nat
    BY TypeParts DEF IInv, RestOK
<1>q. SUFFICES (TicksOK /\ EndAfterStart)' /\ RestOK' /\ TimedIsLastSeen'
    <2>1. SwitchesOK'
        BY <1>0, SwitchesInv
    <2>2. TypeOK' <=> (TicksOK' /\ SwitchesOK' /\ RestOK')
        BY TypeParts, PTL
    <2> QED BY Zenon, <2>1, <2>2 DEF IInv
<1>1. CASE StartTimer
    <2>1. (TicksOK /\ EndAfterStart)'
        BY <1>0, <1>1, StartTicks DEF StartTimer, others
    <2>2. RestOK' /\ TimedIsLastSeen'
        BY <1>0, <1>1 DEF StartTimer, others, options, RestOK, TimedIsLastSeen
    <2> QED BY <2>1, <2>2
<1>2. CASE StopTimer
    <2>1. (TicksOK /\ EndAfterStart)'
        BY <1>0, <1>2, StopTicks DEF StopTimer, others
    <2>2. RestOK' /\ TimedIsLastSeen'
        BY <1>0, <1>2 DEF StopTimer, others, options, RestOK, TimedIsLastSeen
    <2> QED BY <2>1, <2>2
<1>3. CASE ResetTimer
    <2>1. (TicksOK /\ EndAfterStart)'
        BY <1>0, <1>3, ResetTicks DEF ResetTimer, others
    <2>2. RestOK' /\ TimedIsLastSeen'
        BY <1>0, <1>3 DEF ResetTimer, others, options, RestOK, TimedIsLastSeen
    <2> QED BY <2>1, <2>2
<1>4. ASSUME NEW type \in HookTypes, Shine(type)
      PROVE  (TicksOK /\ EndAfterStart)' /\ RestOK' /\ TimedIsLastSeen'
    <2>1. now' = now /\ now <= now
        BY <1>0, <1>4 DEF Shine, others
    <2>2. (TicksOK /\ EndAfterStart)'
        BY <1>0, <1>4, <2>1, StartTicks, ShowSplitTicks, KeepTicks DEF Shine, Event
    <2>3. timed' \in {timed, {}}
        BY <1>4 DEF Shine, Event
    <2>4. RestOK' /\ TimedIsLastSeen'
        BY <1>0, <1>4, <2>3 DEF Shine, others, options, RestOK, TimedIsLastSeen
    <2> QED BY <2>2, <2>4
<1>5. CASE Update
    <2>1. now' = now /\ now <= now
        BY <1>0, <1>5 DEF Update
    <2>2. (TicksOK /\ EndAfterStart)'
        BY <1>0, <1>5, <2>1, StartTicks, KeepTicks DEF Update
    <2>3. stage \in Stages
        BY <1>0, <1>5 DEF Update, RestOK
    <2>4. RestOK'
        BY <1>0, <1>5, <2>3 DEF Update, RestOK, options
    <2>5. timed' \subseteq {stage} /\ (~mTimerAutoKingdom => timed' = {})
        <3>1. CASE mLastStageName # stage /\ mTimerAutoKingdom
            BY <1>5, <3>1 DEF Update, StartsAtNewStage
        <3>2. CASE mLastStageName = stage
            BY <1>0, <1>5, <3>2 DEF Update, StartsAtNewStage, TimedIsLastSeen
        <3>3. CASE mLastStageName # stage /\ ~mTimerAutoKingdom
            BY <1>0, <1>5, <3>3 DEF Update, StartsAtNewStage, TimedIsLastSeen
        <3> QED BY <3>1, <3>2, <3>3
    <2>6. TimedIsLastSeen'
        BY <1>5, <2>5 DEF Update, TimedIsLastSeen, options
    <2> QED BY <2>2, <2>4, <2>6
<1>6. CASE CloudSkip
    <2>1. now' = now /\ now <= now
        BY <1>0, <1>6 DEF CloudSkip
    <2>2. (TicksOK /\ EndAfterStart)'
        BY <1>0, <1>6, <2>1, StopTicks, KeepTicks DEF CloudSkip
    <2>3. functionCalls' \in AllSkipCalls
        BY <1>0, <1>6 DEF CloudSkip, CallsAfterSkip, RestOK, AllSkipCalls
    <2>4. RestOK' /\ TimedIsLastSeen'
        BY <1>0, <1>6, <2>3 DEF CloudSkip, options, RestOK, TimedIsLastSeen
    <2> QED BY <2>2, <2>4
<1>7. CASE ToggleAutoKingdom \/ ToggleSplit \/ ToggleSkipCloud
    <2>1. (TicksOK /\ EndAfterStart)'
        BY <1>0, <1>7, KeepTicks DEF ToggleAutoKingdom, ToggleSplit, ToggleSkipCloud
    <2>2. RestOK' /\ TimedIsLastSeen'
        BY <1>0, <1>7
        DEF ToggleAutoKingdom, ToggleSplit, ToggleSkipCloud, RestOK, TimedIsLastSeen
    <2> QED BY <2>1, <2>2
<1>8. CASE ChangeScene
    <2>1. (TicksOK /\ EndAfterStart)'
        BY <1>0, <1>8, KeepTicks DEF ChangeScene
    <2>2. RestOK' /\ TimedIsLastSeen'
        BY <1>0, <1>8 DEF ChangeScene, options, RestOK, TimedIsLastSeen
    <2> QED BY <2>1, <2>2
<1>9. CASE TimePasses
    <2>1. (TicksOK /\ EndAfterStart)'
        BY <1>0, <1>9, KeepTicks DEF TimePasses
    <2>2. RestOK' /\ TimedIsLastSeen'
        BY <1>0, <1>9 DEF TimePasses, options, RestOK, TimedIsLastSeen
    <2> QED BY <2>1, <2>2
<1>10. CASE UNCHANGED vars
    <2>1. (TicksOK /\ EndAfterStart)'
        BY <1>0, <1>10, KeepTicks DEF vars
    <2>2. RestOK' /\ TimedIsLastSeen'
        BY <1>0, <1>10 DEF vars, options, RestOK, TimedIsLastSeen
    <2> QED BY <2>1, <2>2
<1> QED BY <1>1, <1>2, <1>3, <1>4, <1>5, <1>6, <1>7, <1>8, <1>9, <1>10 DEF Next

(* The inductive invariant holds of every behaviour of the timer.           *)
THEOREM TimerInvariance == Spec => []IInv
BY InitInv, NextInv, PTL DEF Spec

----
(* The ticks are of the clock, and the count of cloud queries stays below   *)
(* two (Timer.cpp, PracticeHacks.cpp:235-252).                              *)
THEOREM TimerTypeCorrect == Spec => []TypeOK
<1>1. IInv => TypeOK
    BY DEF IInv
<1> QED BY TimerInvariance, <1>1, PTL

(* Whatever is on the screen for how long, only an old split makes the time *)
(* negative (Timer::draw, Timer.cpp:77-105).                                *)
THEOREM TimeShownSafe == Spec => []NegativeOnlyUnderOldSplit
<1>1. IInv => NegativeOnlyUnderOldSplit
    BY DEF IInv, TypeOK, EndAfterStart, NegativeOnlyUnderOldSplit, TimeShown, ShowsSplit
<1> QED BY TimerInvariance, <1>1, PTL

(* "Auto kingdom" times one stage at a time (Menu.cpp:317-333).             *)
THEOREM OneStage == Spec => []OneStagePerRun
<1>1. IInv => OneStagePerRun
    BY DEF IInv, TimedIsLastSeen, OneStagePerRun
<1> QED BY TimerInvariance, <1>1, PTL

(* A result stays or is wiped to zero (Timer.cpp:41-55 and 66-74).          *)
THEOREM ResultIsKept == Spec => ResultStays
<1> DEFINE Kept == ~mIsRunning /\ ~mIsRunning' => Result' \in {Result, 0}
<1>1. IInv /\ [Next]_vars => [Kept]_vars
    <2> SUFFICES ASSUME IInv, Next, ~mIsRunning, ~mIsRunning' PROVE Result' \in {Result, 0}
        OBVIOUS
    <2>0. now \in Nat
        BY DEF IInv, TypeOK
    <2>1. ASSUME UNCHANGED ticks \/ Stop PROVE Result' = Result
        BY <2>1 DEF ticks, Stop, Result
    <2>2. ASSUME mStartTick' = now, mEndTick' = now PROVE Result' = 0
        BY <2>0, <2>2 DEF Result
    <2>3. ASSUME NEW type \in HookTypes, Shine(type) PROVE Result' \in {Result, 0}
        BY <2>1, <2>2, <2>3 DEF Shine, Event, Start, ShowSplit
    <2>4. ~Start
        BY DEF Start
    <2>5. CASE StartTimer \/ StopTimer \/ ResetTimer
        BY <2>1, <2>2, <2>4, <2>5 DEF StartTimer, StopTimer, ResetTimer, Reset
    <2>6. CASE Update \/ CloudSkip
        BY <2>1, <2>4, <2>6 DEF Update, CloudSkip
    <2>7. CASE \/ ToggleAutoKingdom \/ ToggleSplit \/ ToggleSkipCloud
               \/ ChangeScene \/ TimePasses
        BY <2>1, <2>7
        DEF ToggleAutoKingdom, ToggleSplit, ToggleSkipCloud, ChangeScene, TimePasses
    <2> QED BY <2>3, <2>5, <2>6, <2>7 DEF Next
<1> QED BY TimerInvariance, <1>1, PTL DEF Spec, ResultStays

----
(* The quick action wheel.                                                  *)

(* The wheel aims only while it is open, and the direction that was fired   *)
(* is forgotten before the next frame is drawn.                             *)
AimsOnlyWhenOpen == Mode # "open" => mSelectedActionIdx = None
FiredIsForgotten == phase = "draw" => fired = None

WheelInv == WheelTypeOK /\ AimsOnlyWhenOpen /\ FiredIsForgotten

LEMMA WheelStarts == WheelInit => WheelInv
<1> SUFFICES ASSUME WheelInit PROVE WheelInv
  OBVIOUS
<1>1. /\ mWheelDelayFrames \in 1 .. MaxDelay
      /\ mActiveFrames \in 0 .. FullyOpen + 1
      /\ mStickPressTimer \in 0 .. MaxDelay
  BY WheelAssumption DEF WheelInit
<1>2. WheelTypeOK
  BY <1>1, Zenon DEF WheelInit, WheelTypeOK, Sticks
<1> QED
  BY <1>2 DEF WheelInit, WheelInv, AimsOnlyWhenOpen, FiredIsForgotten

LEMMA CappedInRange ==
    ASSUME NEW n \in Nat, NEW bound \in Nat
    PROVE  CappedAt(n, bound) \in 0 .. bound
BY DEF CappedAt

LEMMA PressTimerInRange ==
    ASSUME WheelTypeOK
    PROVE  NextPressTimer \in 0 .. MaxDelay
BY WheelAssumption DEF WheelTypeOK, NextPressTimer, CappedAt

(* What a frame leaves of the wheel is within its types.                    *)
LEMMA DrawKeepsTypes ==
    ASSUME WheelTypeOK, Draw
    PROVE  WheelTypeOK'
<1>1. NextPressTimer \in 0 .. MaxDelay
  BY PressTimerInRange
<1>2. /\ mActiveFrames' \in 0 .. FullyOpen + 1
      /\ mIsRetreating' \in BOOLEAN
      /\ mSelectedActionIdx' \in Directions \cup {None}
      /\ mStickPressTimer' \in 0 .. MaxDelay
      /\ fired' \in Directions \cup {None}
  <2>1. CASE DrawMenuOpen
    BY <2>1 DEF DrawMenuOpen, WheelTypeOK, wheel
  <2>2. CASE Grow
    <3>1. mActiveFrames' \in 0 .. FullyOpen + 1
      BY <2>2, WheelAssumption DEF Grow, WheelTypeOK, CappedAt
    <3> QED
      BY <1>1, <2>2, <3>1, Zenon DEF Grow, WheelTypeOK
  <2>3. CASE Shrink
    <3>1. mActiveFrames' \in 0 .. FullyOpen + 1
      BY <2>3, WheelAssumption DEF Shrink, WheelTypeOK, StillRetreating
    <3> QED
      BY <1>1, <2>3, <3>1, Zenon DEF Shrink, WheelTypeOK
  <2>4. CASE Release
    <3>1. mActiveFrames' \in 0 .. FullyOpen + 1
      BY <2>4, WheelAssumption DEF Release, WheelTypeOK, CappedAt
    <3> QED
      BY <1>1, <2>4, <3>1 DEF Release, WheelTypeOK
  <2>5. CASE Idle
    BY <1>1, <2>5 DEF Idle, WheelTypeOK
  <2> QED
    BY <2>1, <2>2, <2>3, <2>4, <2>5 DEF Draw
<1> QED
  BY <1>2 DEF Draw, WheelTypeOK, input, config

LEMMA WheelStepKeepsInv ==
    ASSUME WheelInv, [WheelNext]_wheelVars
    PROVE  WheelInv'
<1>1. CASE Input
  BY <1>1 DEF Input, WheelInv, WheelTypeOK, AimsOnlyWhenOpen, FiredIsForgotten,
              Mode, wheel, config
<1>2. CASE Draw
  <2>1. WheelTypeOK'
    BY <1>2, DrawKeepsTypes DEF WheelInv
  <2>2. AimsOnlyWhenOpen'
    <3>1. CASE DrawMenuOpen
      BY <3>1 DEF DrawMenuOpen, wheel, WheelInv, AimsOnlyWhenOpen, Mode
    <3>2. CASE Grow
      <4>1. mActiveFrames' > 0 /\ ~mIsRetreating'
        BY <3>2, WheelAssumption DEF Grow, CappedAt, WheelInv, WheelTypeOK
      <4> QED
        BY <4>1 DEF AimsOnlyWhenOpen, Mode
    <3>3. CASE Shrink
      BY <3>3 DEF Shrink, AimsOnlyWhenOpen
    <3>4. CASE Release
      BY <3>4 DEF Release, AimsOnlyWhenOpen
    <3>5. CASE Idle
      BY <3>5 DEF Idle, AimsOnlyWhenOpen
    <3> QED
      BY <1>2, <3>1, <3>2, <3>3, <3>4, <3>5 DEF Draw
  <2>3. FiredIsForgotten'
    BY <1>2 DEF Draw, FiredIsForgotten
  <2> QED
    BY <2>1, <2>2, <2>3 DEF WheelInv
<1>3. CASE UNCHANGED wheelVars
  BY <1>3 DEF wheelVars, input, config, wheel, WheelInv, WheelTypeOK,
              AimsOnlyWhenOpen, FiredIsForgotten, Mode
<1> QED
  BY <1>1, <1>2, <1>3 DEF WheelNext

(* Every frame is a step of the promise: the player's input is a rest, a    *)
(* press opens or aims, its end lets go, and a wheel on its way back        *)
(* returns, or opens again when it had reached zero under a new press.      *)
LEMMA WheelStepIsAbstract ==
    ASSUME WheelInv, [WheelNext]_wheelVars
    PROVE  [Abstract!Next]_(Abstract!vars)
<1> USE DEF WheelInv, WheelTypeOK
<1>1. CASE Input
  BY <1>1 DEF Input, wheel, Mode, Abstract!Next, Abstract!Rest
<1>2. CASE Draw
  <2>0. fired = None
    BY <1>2 DEF Draw, FiredIsForgotten
  <2>1. CASE DrawMenuOpen
    BY <2>0, <2>1 DEF DrawMenuOpen, wheel, Mode, Abstract!Next, Abstract!Rest
  <2>2. CASE Grow
    <3>1. Mode' = "open"
      BY <2>2, WheelAssumption DEF Grow, Mode, CappedAt
    <3>2. fired' = None /\ mSelectedActionIdx' \in Directions \cup {None}
      BY <2>0, <2>2 DEF Grow
    <3>3. Mode \in {"idle", "open", "back"}
      BY DEF Mode
    <3> QED
      BY <3>1, <3>2, <3>3 DEF Abstract!Next, Abstract!Open, Abstract!Aim
  <2>3. CASE Shrink
    <3>1. Mode = "back" /\ Mode' = "back"
      BY <2>3 DEF Shrink, StillRetreating, Mode
    <3>2. mSelectedActionIdx = None
      BY <3>1 DEF AimsOnlyWhenOpen
    <3> QED
      BY <2>0, <2>3, <3>1, <3>2 DEF Shrink, Abstract!Next, Abstract!Return
  <2>4. CASE Release
    <3>1. Mode = "open" /\ Mode' = "back"
      BY <2>4 DEF Release, StillRetreating, Mode
    <3> QED
      BY <2>4, <3>1 DEF Release, Abstract!Next, Abstract!LetGo
  <2>5. CASE Idle
    <3>1. Mode \in {"idle", "back"} /\ Mode' = "idle"
      BY <2>5 DEF Idle, Mode
    <3>2. mSelectedActionIdx = None
      BY <3>1 DEF AimsOnlyWhenOpen
    <3> QED
      BY <2>0, <2>5, <3>1, <3>2
         DEF Idle, Abstract!Next, Abstract!Return, Abstract!Rest
  <2> QED
    BY <1>2, <2>1, <2>2, <2>3, <2>4, <2>5 DEF Draw
<1>3. CASE UNCHANGED wheelVars
  BY <1>3 DEF wheelVars, wheel, Mode, Abstract!vars
<1> QED
  BY <1>1, <1>2, <1>3 DEF WheelNext

(* The wheel keeps its types, and its counter of frames never passes below  *)
(* zero on the way back (draw).                                             *)
THEOREM WheelTypeCorrect == WheelSpec => []WheelTypeOK
<1>1. WheelInv => WheelTypeOK
  BY DEF WheelInv
<1> QED
  BY <1>1, WheelStarts, WheelStepKeepsInv, PTL DEF WheelSpec

(* What the player sees of the wheel is what ActionWheel promises: letting  *)
(* go fires the direction aimed at last, exactly once, and nothing else     *)
(* fires (QuickActionMenu::draw).                                           *)
THEOREM WheelImplemented == WheelSpec => ImplementsActionWheel
<1>1. WheelInit => Abstract!Init
  BY DEF WheelInit, Mode, Abstract!Init
<1> QED
  BY <1>1, WheelStarts, WheelStepKeepsInv, WheelStepIsAbstract, PTL
     DEF WheelSpec, ImplementsActionWheel, Abstract!Spec
====
